-------------------------------- MODULE Schemas --------------------------------
(* The migrations with the rows left aside: the schema of a database, what an  *)
(* operation needs of it and makes of it, which operations rows can stop, and  *)
(* the tables the models of the code describe.                                 *)
EXTENDS Migrations

(* The tables of django.contrib.auth are there before the first migration.     *)
auth_tables ==
    "group" :> Table("name", Only({"name"}) @@ Maybe({"permission"}), {}, Empty, Empty, Empty)

Bare(t) == [t EXCEPT !.rows = {}]
Schema(ts) == [m \in DOMAIN ts |-> Bare(ts[m])]

Fits(o, s) == o.op # "RunPython" => Possible(o, s)

(* One data step touches the schema.                                           *)
Change(o, s) ==
    IF o.op # "RunPython" THEN Outcome(o, s)
    ELSE IF o.step = "remove_legacy_user_unique" THEN remove_legacy_user_unique(s)
    ELSE s

(* The rows can stop an operation that asks more of them than before, a data   *)
(* step, and no other.                                                         *)
Tightens(old, new) ==
    \/ old.null /\ ~new.null
    \/ new.unique /\ ~old.unique
    \/ new.ref \notin {"", old.ref}
MayRefuse(o, s) ==
    CASE o.op = "AddField" ->
           \E f \in DOMAIN o.cols :
              IF o.value = None THEN ~o.cols[f].null ELSE o.cols[f].unique \/ o.cols[f].ref # ""
      [] o.op = "AlterField" ->
           \E f \in DOMAIN o.cols : Tightens(s[o.model].cols[f], o.cols[f])
      [] o.op = "AlterType" -> o.refused # {}
      [] o.op = "AlterUniqueTogether" -> o.fields # {}
      [] OTHER -> o.op \in {"AddUnique", "AddCheck", "RunPython"}

(* Three migrations first make the rows fit the constraint they add.  What     *)
(* their data steps need of the schema for that: that nothing refers to the    *)
(* rows they delete, that the field they rewrite is in no constraint.          *)
Alone(s, model) == \A m \in DOMAIN s : model \notin Targets(s[m].cols)
Ordinary(s, model, field) ==
    /\ model \in DOMAIN s /\ field \in DOMAIN s[model].cols
    /\ s[model].cols[field] = ColumnOf(FALSE, FALSE, "")
    /\ field # s[model].key /\ field \notin Mentioned(s[model])
ClearsItsWay(m, s) ==
    /\ m = api(35) => Alone(s, "image")
    /\ m = api(51) => Alone(s, "finding")
    /\ m = api(59) => Ordinary(s, "deduplicationset", "state") /\ Ordinary(s, "encoding", "state")

----------------------------------------------------------------------------
(* The tables the models of the code describe.                                 *)
JobModel == Only({"id"})
    @@ Need({"version", "datetime_created", "repeatable", "celery_history"})
    @@ Maybe({"description", "curr_async_result_id", "last_async_result_id", "datetime_queued",
              "local_status", "group_key"}) @@ MaybeTo("user", {"owner"})

Model(cols, unique, check, idx) == [cols |-> cols, unique |-> unique, check |-> check, idx |-> idx]
Plain(cols) == Model(cols, Empty, Empty, Empty)

DeduplicationSetGroupModel == Model(
    Only({"id"}) @@ Need({"reference_pk", "deleted", "processing_locked"}) @@ Maybe({"name", "settings"}),
    "unique_active_deduplication_set_group_reference_pk" :>
        [fields |-> {"reference_pk"}, except |-> Except("deleted", {TRUE})], Empty, Empty)
DeduplicationSetModel == Model(
    Only({"id"}) @@ To("deduplicationsetgroup", {"group"}) @@ MaybeOnly({"name"})
        @@ Maybe({"description", "notification_url", "error"}) @@ MaybeTo("user", {"created_by", "updated_by"})
        @@ Need({"state", "created_at", "updated_at", "notify", "log"}),
    "unique_active_deduplication_set_per_group" :>
        [fields |-> {"group"}, except |-> Except("state", {5, 8, 9, 10})], Empty, Empty)
EncodingModel == Model(
    Only({"id"}) @@ To("deduplicationset", {"deduplication_set"})
        @@ Need({"reference_pk", "filename", "created_at"}) @@ MaybeTo("user", {"created_by"})
        @@ Maybe({"embedding", "embedding_status_code", "image_quality_scores"}),
    "together" :> [fields |-> {"deduplication_set", "reference_pk"}, except |-> Always],
    "encoding_embedding_or_status" :>
        [fields |-> {"embedding", "embedding_status_code"},
         present |-> {{}, {"embedding"}, {"embedding_status_code"}}], Empty)
FindingModel == Model(
    Only({"id"}) @@ To("deduplicationset", {"deduplication_set"}) @@ To("encoding", {"first_encoding"})
        @@ MaybeTo("encoding", {"second_encoding"}) @@ Maybe({"config"})
        @@ Need({"score", "status_code", "created_at", "updated_at"}),
    "unique_finding" :>
        [fields |-> {"deduplication_set", "first_encoding", "second_encoding"}, except |-> Always],
    Empty, "finding_order_idx" :> {"deduplication_set", "updated_at", "id"})
DedupJobModel == Plain(JobModel @@ To("deduplicationset", {"deduplication_set"}))
MainJobModel == Plain(OneTo("dedupjob", {"dedupjob_ptr"}) @@ Need({"encode_only"}))
SyncDnnFilesJobModel == Plain(JobModel @@ Need({"force"}))
UserModel == Plain(
    Only({"id", "username"}) @@ MaybeOnly({"azure_id"}) @@ Maybe({"last_login", "job_title", "display_name"})
        @@ Need({"password", "is_superuser", "first_name", "last_name", "email", "is_staff",
                 "is_active", "date_joined"}))

Models == [deduplicationsetgroup |-> DeduplicationSetGroupModel,
           deduplicationset |-> DeduplicationSetModel,
           encoding |-> EncodingModel, finding |-> FindingModel, dedupjob |-> DedupJobModel,
           mainjob |-> MainJobModel, syncdnnfilesjob |-> SyncDnnFilesJobModel, user |-> UserModel]
Foreign == {"group", "user_groups", "user_user_permissions", "apitoken"}

(* The columns, references, constraints and indexes of the models, and no      *)
(* table besides.                                                              *)
TheModels(s) ==
    /\ DOMAIN s = DOMAIN Models \union Foreign
    /\ \A m \in DOMAIN Models :
          Models[m] = Model(s[m].cols, s[m].unique, s[m].check, s[m].idx)
==============================================================================
