------------------------------ MODULE Migrations ------------------------------
(* The migrations of the applications api and security: what each one depends  *)
(* on, whether it runs in one transaction, and its operations, in the order of *)
(* the file; and what each data step does to the rows.                         *)
EXTENDS Database

api(n) == <<"api", n>>
security(n) == <<"security", n>>
hope_api_auth == <<"hope_api_auth", 1>>

After(needs, ops) == [after |-> needs, atomic |-> TRUE, ops |-> ops]
NotAtomic(needs, ops) == [after |-> needs, atomic |-> FALSE, ops |-> ops]

----------------------------------------------------------------------------
(* Data steps: functions of the tables.                                        *)
PROCESSING == 2
ERROR == 3
DIRTY == 1

forwards_func(ts) ==
    [ts EXCEPT !["deduplicationset"].rows =
        {[r EXCEPT !.state = IF @ \in {PROCESSING, ERROR} THEN DIRTY ELSE @] : r \in @}]

assign_systems(ts) ==
    [ts EXCEPT !["deduplicationset"].rows =
        {[r EXCEPT !.system = Get(ts, "externalsystem", r.external_system).system] : r \in @}]

create_systems(ts) ==
    LET created == {NewRow(ts["system"], [id |-> e.name, name |-> e.name]) :
                        e \in Rows(ts, "externalsystem")}
    IN [Insert(ts, "system", created) EXCEPT !["externalsystem"].rows =
            {[e EXCEPT !.system = e.name] : e \in @}]

API_USERS_GROUP_NAME == "API users"
create_group_and_permission(ts) ==
    LET kept == {g \in Rows(ts, "group") : g.name # API_USERS_GROUP_NAME}
    IN [ts EXCEPT !["group"].rows =
            kept \union {[name |-> API_USERS_GROUP_NAME, permission |-> "can_use_api"]}]

assign_userroles(ts) ==
    Insert(ts, "userrole",
        {[id |-> u.id, user |-> u.id, group |-> API_USERS_GROUP_NAME,
          system |-> Get(ts, "externalsystem", u.external_system).system] :
            u \in {v \in Rows(ts, "user") : v.external_system # None}})

(* A mutant: the roles are not turned into memberships.                        *)
assign_system_alone(ts) ==
    LET roles == {r \in Rows(ts, "userrole") : r.group = API_USERS_GROUP_NAME}
        systems(token) == {r.system : r \in {q \in roles : q.user = token.user}}
    IN [ts EXCEPT
        !["hdetoken"].rows =
            {IF systems(k) = {} THEN k ELSE [k EXCEPT !.system = CHOOSE s \in systems(k) : TRUE] :
                k \in @}]
(* Only tokens of users with a role in the group get a system.                 *)
assign_system_to_tokens(ts) ==
    LET roles == {r \in Rows(ts, "userrole") : r.group = API_USERS_GROUP_NAME}
        systems(token) == {r.system : r \in {q \in roles : q.user = token.user}}
    IN [ts EXCEPT
        !["hdetoken"].rows =
            {IF systems(k) = {} THEN k ELSE [k EXCEPT !.system = CHOOSE s \in systems(k) : TRUE] :
                k \in @},
        !["user_groups"].rows =
            @ \union {[id |-> r.user, user |-> r.user, group |-> r.group] : r \in roles}]

clear_user_roles(ts) ==
    DeleteRows(ts, "userrole", {r \in Rows(ts, "userrole") : r.group = API_USERS_GROUP_NAME})

clean_encoding_table(ts) == DeleteRows(ts, "encoding", Rows(ts, "encoding"))

(* Of the rows that agree with r on these fields the newest is kept; which one *)
(* when several are, the query leaves open.                                    *)
Alike(rows, r, fields) == {q \in rows : \A f \in fields : q[f] = r[f]}
Newest(rows) == CHOOSE r \in rows : \A q \in rows : q.created_at <= r.created_at

(* A mutant: the first image of a reference stays.                             *)
keep_first_images(ts) ==
    LET newer(r) == \E q \in Alike(Rows(ts, "image"), r, {"deduplication_set", "reference_pk"}) :
                        q.created_at < r.created_at
    IN DeleteRows(ts, "image", {r \in Rows(ts, "image") : newer(r)})
remove_duplicate_images(ts) ==
    LET same(r) == Alike(Rows(ts, "image"), r, {"deduplication_set", "reference_pk"})
    IN DeleteRows(ts, "image", {r \in Rows(ts, "image") : r # Newest(same(r))})

(* A mutant: a group for each set.                                             *)
create_group_per_set(ts) ==
    LET live == {s \in Rows(ts, "deduplicationset") : ~s.deleted}
        made == Insert(ts, "deduplicationsetgroup",
                    {[NewRow(ts["deduplicationsetgroup"],
                             [id |-> <<s.reference_pk, s.system>>, reference_pk |-> s.id,
                              system |-> s.system]) EXCEPT !.deleted = FALSE] : s \in live})
        assigned == [made EXCEPT !["deduplicationset"].rows =
                        {IF s.deleted THEN s
                         ELSE [s EXCEPT !.group = <<s.reference_pk, s.system>>] : s \in @}]
    IN DeleteRows(assigned, "deduplicationset",
                  {s \in Rows(assigned, "deduplicationset") : s.deleted})
(* One group for each reference_pk of each system; a group is named by the     *)
(* pair.                                                                       *)
create_groups(ts) ==
    LET live == {s \in Rows(ts, "deduplicationset") : ~s.deleted}
        made == Insert(ts, "deduplicationsetgroup",
                    {[NewRow(ts["deduplicationsetgroup"],
                             [id |-> <<s.reference_pk, s.system>>, reference_pk |-> s.reference_pk,
                              system |-> s.system]) EXCEPT !.deleted = FALSE] : s \in live})
        assigned == [made EXCEPT !["deduplicationset"].rows =
                        {IF s.deleted THEN s
                         ELSE [s EXCEPT !.group = <<s.reference_pk, s.system>>] : s \in @}]
    IN DeleteRows(assigned, "deduplicationset",
                  {s \in Rows(assigned, "deduplicationset") : s.deleted})

clear_findings(ts) == DeleteRows(ts, "finding", Rows(ts, "finding"))

INACTIVE_STATE == 4
REJECTED_STATE == 2
reject_unapproved_deduplication_sets(ts) ==
    LET rows == Rows(ts, "deduplicationset")
        outdated == {s \in rows : s # Newest(Alike(rows, s, {"group"}))}
    IN [ts EXCEPT
        !["deduplicationset"].rows =
            {IF s \in outdated THEN [s EXCEPT !.state = INACTIVE_STATE] ELSE s : s \in @},
        !["encoding"].rows =
            {IF r.deduplication_set \in {s.id : s \in outdated}
             THEN [r EXCEPT !.state = REJECTED_STATE] ELSE r : r \in @}]

OLD_TO_NEW == <<<<0, 2>>, <<1, 2>>, <<2, 5>>, <<3, 5>>, <<4, 9>>, <<5, 10>>>>
(* One UPDATE for each entry of the table, in the order of the table.          *)
NewState(old) ==
    LET moved[n \in 0 .. Len(OLD_TO_NEW)] ==
            IF n = 0 THEN old
            ELSE IF moved[n - 1] = OLD_TO_NEW[n][1] THEN OLD_TO_NEW[n][2] ELSE moved[n - 1]
    IN moved[Len(OLD_TO_NEW)]
migrate_states_forward(ts) ==
    [ts EXCEPT !["deduplicationset"].rows = {[s EXCEPT !.state = NewState(@)] : s \in @}]

(* A filename is "data:" (or longer than the coming column) or a storage key.  *)
_drop_inline_payloads(ts) ==
    DeleteRows(ts, "encoding", {r \in Rows(ts, "encoding") : r.filename = "data:"})

remove_legacy_user_unique(ts) ==
    [ts EXCEPT !["apitoken"].cols =
        [f \in DOMAIN @ |-> IF f = "user" THEN ColumnOf(@[f].null, FALSE, @[f].ref) ELSE @[f]]]

migrate_hde_tokens(ts) ==
    Insert(ts, "apitoken",
        {[key |-> k.key, user |-> k.user, grants |-> "API_DEDUP"] : k \in Rows(ts, "hdetoken")})

(* One data step looks before it writes.                                       *)
Raises(step, ts) ==
    /\ step = "migrate_hde_tokens"
    /\ {k.key : k \in Rows(ts, "hdetoken")} \cap {k.key : k \in Rows(ts, "apitoken")} # {}

Run(step, ts) ==
    CASE step = "forwards_func" -> forwards_func(ts)
      [] step = "assign_systems" -> assign_systems(ts)
      [] step = "create_systems" -> create_systems(ts)
      [] step = "create_group_and_permission" -> create_group_and_permission(ts)
      [] step = "assign_userroles" -> assign_userroles(ts)
      [] step = "assign_system_to_tokens" -> assign_system_to_tokens(ts)
      [] step = "clear_user_roles" -> clear_user_roles(ts)
      [] step = "clean_encoding_table" -> clean_encoding_table(ts)
      [] step = "remove_duplicate_images" -> remove_duplicate_images(ts)
      [] step = "create_groups" -> create_groups(ts)
      [] step = "clear_findings" -> clear_findings(ts)
      [] step = "reject_unapproved_deduplication_sets" -> reject_unapproved_deduplication_sets(ts)
      [] step = "migrate_states_forward" -> migrate_states_forward(ts)
      [] step = "_drop_inline_payloads" -> _drop_inline_payloads(ts)
      [] step = "remove_legacy_user_unique" -> remove_legacy_user_unique(ts)
      [] step = "migrate_hde_tokens" -> migrate_hde_tokens(ts)
      [] OTHER -> ts

(* A data step fails as a whole when it raises or when its rows break a        *)
(* constraint.                                                                 *)
RunStep(o, d) ==
    LET after == Run(o.step, d.tables) IN
    IF Raises(o.step, d.tables) \/ ~AllSound(after) THEN Refuse(d)
    ELSE [d EXCEPT !.tables = after, !.pending = @ \union Queued(d.tables, after)]

Perform(o, d) ==
    IF ~d.ok THEN d
    ELSE IF o.op = "RunPython" THEN RunStep(o, d)
    ELSE Execute(o, d)

----------------------------------------------------------------------------
(* The application api.                                                        *)
first_set_models == <<
    CreateModel("deduplicationset", "id",
        Only({"id"}) @@ Need({"name", "reference_pk", "state", "deleted", "created_at", "updated_at"})
          @@ Maybe({"error", "notification_url"}) @@ MaybeTo("user", {"created_by", "updated_by"})
          @@ To("externalsystem", {"external_system"})),
    CreateModel("duplicate", "id",
        Only({"id"}) @@ Need({"first_reference_pk", "first_filename", "second_reference_pk",
                              "second_filename", "score"})
          @@ To("deduplicationset", {"deduplication_set"}))>>
first_other_models == <<
    CreateModel("hdetoken", "key", Only({"key"}) @@ Need({"created"}) @@ To("user", {"user"})),
    CreateModel("image", "id",
        Only({"id"}) @@ Need({"reference_pk", "filename", "created_at"})
          @@ MaybeTo("user", {"created_by"}) @@ To("deduplicationset", {"deduplication_set"})),
    CreateModel("ignoredkeypair", "id",
        Only({"id"}) @@ Need({"first_reference_pk", "second_reference_pk"})
          @@ To("deduplicationset", {"deduplication_set"})),
    Together("ignoredkeypair", {"deduplication_set", "first_reference_pk", "second_reference_pk"})>>
api0001 == After({security(1)}, first_set_models \o first_other_models)
api0002 == After({api(1)},
    <<Drop("duplicate", {"first_filename", "second_filename"}), Alter("duplicate", Need({"score"}))>>)
api0003 == After({api(2)}, <<Drop("deduplicationset", {"name"})>>)
api0004 == After({api(3)},
    <<Drop("deduplicationset", {"error"}), Add("deduplicationset", Maybe({"description"}), None),
      Add("deduplicationset", MaybeOnly({"name"}), None)>>)
api0005 == After({api(4)},
    <<CreateModel("config", "id", Only({"id"}) @@ Maybe({"face_distance_threshold"})),
      Add("deduplicationset", MaybeOneTo("config", {"config"}), None)>>)
api0006 == After({api(5)},
    <<Alter("deduplicationset", Need({"state"})), Rename("deduplicationset", "state", "state_value")>>)
api0007 == After({api(6)},
    <<RenameModel("ignoredkeypair", "ignoredreferencepkpair"),
      Rename("ignoredreferencepkpair", "first_reference_pk", "first"),
      Rename("ignoredreferencepkpair", "second_reference_pk", "second"),
      Together("ignoredreferencepkpair", {"deduplication_set", "first", "second"})>>)
api0008 == After({api(7)},
    <<CreateModel("ignoredfilenamepair", "id",
        Only({"id"}) @@ Need({"first", "second"}) @@ To("deduplicationset", {"deduplication_set"})),
      Together("ignoredfilenamepair", {"deduplication_set", "first", "second"})>>)
api0009 == After({api(8)},
    <<Drop("config", {"face_distance_threshold"}), Add("config", MaybeOnly({"name"}), None),
      Add("config", Maybe({"settings"}), Some),
      Alter("deduplicationset", MaybeTo("config", {"config"}))>>)
api0010 == After({api(9)},
    <<CreateModel("dedupjob", "id",
        Only({"id"}) @@ Need({"version", "celery_history"})
          @@ Maybe({"curr_async_result_id", "last_async_result_id", "celery_result", "serialized_lock"})
          @@ To("deduplicationset", {"deduplication_set"}))>>)
api0011 == After({api(10)}, <<Add("dedupjob", Need({"progress"}), Some)>>)
api0012 == After({api(11)}, <<Alter("dedupjob", OneTo("deduplicationset", {"deduplication_set"}))>>)
api0013 == After({api(12)},
    <<Drop("deduplicationset", {"state_value"}), Add("deduplicationset", Need({"state"}), 0)>>)
api0014 == After({api(13)}, <<RunPython("forwards_func")>>)
api0015 == After({api(14)},
    <<Add("deduplicationset", Maybe({"encodings"}), Some),
      CreateModel("finding", "id",
        Only({"id"}) @@ Need({"first_reference_pk", "second_reference_pk", "score"}) @@ Maybe({"error"})
          @@ To("deduplicationset", {"deduplication_set"})),
      Together("finding", {"deduplication_set", "first_reference_pk", "second_reference_pk"}),
      DeleteModel("duplicate")>>)
api0016 == After({api(15)},
    <<Drop("finding", {"error"}),
      Add("finding", Need({"first_filename", "second_filename", "status_code"}), Some),
      Alter("finding", Need({"score", "second_reference_pk"}))>>)
api0017 == After({api(16)}, <<Add("finding", Need({"created_at", "updated_at"}), Some)>>)
(* A mutant: encodings refer to their image.                                   *)
api0018_of_image == After({api(17)},
    <<Alter("hdetoken", Only({"key"})),
      CreateModel("encoding", "id",
        Only({"id"}) @@ Need({"filename", "data"}) @@ To("deduplicationset", {"deduplication_set"})
          @@ To("image", {"image"})),
      Together("encoding", {"deduplication_set", "filename"})>>)
api0018 == After({api(17)},
    <<Alter("hdetoken", Only({"key"})),
      CreateModel("encoding", "id",
        Only({"id"}) @@ Need({"filename", "data"}) @@ To("deduplicationset", {"deduplication_set"})),
      Together("encoding", {"deduplication_set", "filename"})>>)
api0019 == After({api(18)}, <<Drop("deduplicationset", {"encodings"})>>)
api0020 == After({api(19), security(1)},
    <<Rename("dedupjob", "celery_result", "local_status"),
      Add("dedupjob", Need({"datetime_created", "repeatable"}), Some),
      Add("dedupjob", Maybe({"datetime_queued", "description", "group_key"}) @@ MaybeTo("user", {"owner"}),
          None)>>)
api0021 == After({api(20), security(2)}, <<Add("deduplicationset", MaybeTo("system", {"system"}), None)>>)
api0022 == After({api(21), security(4)}, <<RunPython("assign_systems")>>)
api0023 == After({api(22)},
    <<Drop("deduplicationset", {"external_system"}), Alter("deduplicationset", To("system", {"system"}))>>)
api0024 == After({api(23), security(8)}, <<Add("hdetoken", MaybeTo("system", {"system"}), None)>>)
api0025 == After({api(24)}, <<RunPython("assign_system_to_tokens")>>)
api0026 == After({api(25), security(8)}, <<Alter("hdetoken", To("system", {"system"}))>>)
api0027 == After({api(26)}, <<RunPython("clear_user_roles")>>)
api0028 == After({api(27)},
    <<Alter("deduplicationset", Need({"state"})), Add("deduplicationset", Maybe({"error"}), None)>>)
api0029 == NotAtomic({api(28)},
    <<Index("finding", "finding_order_idx", {"deduplication_set", "updated_at", "id"})>>)
api0030 == NotAtomic({api(29)}, <<Index("encoding", "api_encodin_filenam_50e86a_idx", {"filename"})>>)
(* 0032 says run_before 0031, so 0031 depends on it.                           *)
api0031 == NotAtomic({api(30), api(32), security(1)},
    <<DropIndex("encoding", "api_encodin_filenam_50e86a_idx"),
      Together("encoding", {}), Together("finding", {}),
      Together("ignoredfilenamepair", {}), Together("ignoredreferencepkpair", {}),
      Add("encoding", Maybe({"embedding"}), None), Add("encoding", Maybe({"status_code"}), None),
      Alter("encoding", Only({"filename"})),
      Alter("ignoredfilenamepair", Need({"first", "second"})),
      Index("image", "api_image_dedupli_56b2aa_idx", {"deduplication_set", "filename"}),
      Check("encoding", "encoding_embedding_or_status", {"embedding", "status_code"},
            {{"embedding"}, {"status_code"}}),
      Unique("finding", "unique_finding",
             {"deduplication_set", "first_reference_pk", "second_reference_pk"}, Always),
      Unique("ignoredfilenamepair", "unique_ignored_filename_pair",
             {"deduplication_set", "first", "second"}, Always),
      Unique("ignoredreferencepkpair", "unique_ignored_ref_pair",
             {"deduplication_set", "first", "second"}, Always),
      Alter("encoding", Maybe({"data"})), Drop("encoding", {"data"}),
      Drop("encoding", {"deduplication_set"})>>)
api0032 == After({api(30)}, <<RunPython("clean_encoding_table")>>)
api0033 == After({api(31)},
    <<Drop("dedupjob", {"serialized_lock"}),
      Alter("dedupjob", To("deduplicationset", {"deduplication_set"}))>>)
api0034 == NotAtomic({api(33)},
    <<Index("finding", "finding_first_ref_idx", {"deduplication_set", "first_reference_pk"}),
      Index("finding", "finding_second_ref_idx", {"deduplication_set", "second_reference_pk"})>>)
api0035 == After({api(34)},
    <<RunPython("remove_duplicate_images"), Together("image", {"deduplication_set", "reference_pk"})>>)
api0036 == After({api(35)},
    <<Alter("encoding", Maybe({"status_code"})), Alter("finding", Need({"status_code"}))>>)
api0037 == After({api(36), security(8)},
    <<CreateModel("deduplicationsetgroup", "id",
        Only({"id", "reference_pk"}) @@ Maybe({"settings"}) @@ Need({"deleted"})
          @@ To("system", {"system"}))>>)
api0038 == After({api(37)},
    <<Add("deduplicationset", MaybeTo("deduplicationsetgroup", {"group"}), None)>>)
api0039 == After({api(38)}, <<RunPython("create_groups")>>)
api0040 == After({api(39)}, <<Alter("deduplicationset", To("deduplicationsetgroup", {"group"}))>>)
api0041 == After({api(40)},
    <<Drop("deduplicationset", {"config", "deleted", "reference_pk", "system"}), DeleteModel("config")>>)
api0042 == After({api(41)}, <<Alter("deduplicationset", Need({"state"}))>>)
api0043 == After({api(42)}, <<Add("image", Need({"state"}), 0)>>)
api0044 == After({api(43), security(1)},
    <<DeleteModel("encoding"), Add("image", Maybe({"embedding", "embedding_status_code"}), None),
      Check("image", "encoding_embedding_or_status", {"embedding", "embedding_status_code"},
            {{}, {"embedding"}, {"embedding_status_code"}})>>)
api0045 == After({api(44), security(1)},
    <<RenameModel("image", "encoding"),
      RenameIndex("encoding", "api_image_dedupli_56b2aa_idx", "api_encodin_dedupli_909c41_idx")>>)
api0046 == After({api(45)}, <<Add("deduplicationset", Need({"notify"}), Some)>>)
api0047 == After({api(46)}, <<Alter("deduplicationset", Need({"state"}))>>)
api0048 == After({api(47)}, <<Add("deduplicationset", Maybe({"settings"}), Some)>>)
api0049 == After({api(48), security(8)},
    <<Alter("deduplicationsetgroup",
        Need({"deleted"}) @@ Only({"reference_pk"}) @@ Maybe({"settings"}) @@ To("system", {"system"}))>>)
api0050 == After({api(49)},
    <<Add("finding", MaybeTo("encoding", {"first_encoding", "second_encoding"}), None)>>)
(* A mutant: the findings are not cleared first.                               *)
api0051_with_findings == After({api(50)},
    <<DropConstraint("finding", "unique_finding"),
      DropIndex("finding", "finding_first_ref_idx"), DropIndex("finding", "finding_second_ref_idx"),
      Drop("finding", {"first_reference_pk", "first_filename", "second_reference_pk", "second_filename"}),
      Alter("finding", To("encoding", {"first_encoding"})),
      Unique("finding", "unique_finding", {"deduplication_set", "first_encoding", "second_encoding"}, Always)>>)
api0051 == After({api(50)},
    <<RunPython("clear_findings"), DropConstraint("finding", "unique_finding"),
      DropIndex("finding", "finding_first_ref_idx"), DropIndex("finding", "finding_second_ref_idx"),
      Drop("finding", {"first_reference_pk", "first_filename", "second_reference_pk", "second_filename"}),
      Alter("finding", To("encoding", {"first_encoding"})),
      Unique("finding", "unique_finding", {"deduplication_set", "first_encoding", "second_encoding"}, Always)>>)
set_help_text == Alter("deduplicationset",
    Only({"id"}) @@ Need({"created_at", "updated_at", "notify", "state"})
      @@ MaybeTo("user", {"created_by", "updated_by"}) @@ MaybeOnly({"name"})
      @@ Maybe({"description", "error", "notification_url", "settings"})
      @@ To("deduplicationsetgroup", {"group"}))
encoding_help_text == Alter("encoding",
    Only({"id"}) @@ Need({"created_at", "filename", "reference_pk", "state"})
      @@ Maybe({"embedding", "embedding_status_code"}) @@ MaybeTo("user", {"created_by"})
      @@ To("deduplicationset", {"deduplication_set"}))
finding_help_text == <<
    Alter("finding", Need({"created_at", "score", "status_code", "updated_at"})
      @@ To("deduplicationset", {"deduplication_set"})),
    Alter("ignoredfilenamepair", Need({"first", "second"}) @@ To("deduplicationset", {"deduplication_set"})),
    Alter("ignoredreferencepkpair",
      Need({"first", "second"}) @@ To("deduplicationset", {"deduplication_set"}))>>
api0052 == After({api(51), security(1)}, <<set_help_text, encoding_help_text>> \o finding_help_text)
api0053 == After({api(52)}, <<Add("dedupjob", Need({"encode_only"}), Some)>>)
api0054 == After({api(53)},
    <<Alter("encoding", Maybe({"embedding_status_code"})), Alter("finding", Need({"status_code"}))>>)
api0055 == After({api(54)}, <<Add("deduplicationsetgroup", Maybe({"name"}), None)>>)
api0056 == After({api(55)}, <<Add("encoding", Maybe({"face_coverage"}), None)>>)
(* Permissions only: no column, no row.                                        *)
api0057 == After({api(56)}, << >>)
Child(model, own) == CreateModel(model, "dedupjob_ptr", OneTo("dedupjob", {"dedupjob_ptr"}) @@ Need(own))
chunk_jobs == <<
    Child("callbackfindingsjob", {}), Child("dedupechunkjob", {"encoding_ids0", "encoding_ids1"}),
    Child("deduplicatedatasetjob", {}), Child("encodechunkjob", {"encoding_ids"})>>
main_job == <<Drop("dedupjob", {"encode_only", "progress"}), Child("mainjob", {"encode_only"})>>
sync_job == CreateModel("syncdnnfilesjob", "id",
    Only({"id"}) @@ Need({"version", "datetime_created", "repeatable", "celery_history", "force"})
      @@ Maybe({"description", "curr_async_result_id", "last_async_result_id", "datetime_queued",
                "local_status", "group_key"}) @@ MaybeTo("user", {"owner"}))
api0058 == After({api(57), security(1)}, chunk_jobs \o main_job \o <<sync_job>>)
(* A mutant: the older sets of a group are left as they are.                   *)
api0059_with_older_sets == After({api(58), security(1)},
    <<Unique("deduplicationset", "unique_active_deduplication_set_per_group", {"group"},
             Except("state", {INACTIVE_STATE}))>>)
api0059 == After({api(58), security(1)},
    <<RunPython("reject_unapproved_deduplication_sets"),
      Unique("deduplicationset", "unique_active_deduplication_set_per_group", {"group"},
             Except("state", {INACTIVE_STATE}))>>)
api0060 == After({api(59)}, <<AlterType("encoding", "filename", {})>>)
api0061 == After({api(60)}, <<DropIndex("encoding", "api_encodin_dedupli_909c41_idx")>>)
api0062 == After({api(61)},
    <<DeleteModel("encodechunkjob"), DeleteModel("deduplicatedatasetjob"),
      DeleteModel("callbackfindingsjob"), DeleteModel("dedupechunkjob")>>)
api0063 == After({api(62)}, <<Drop("deduplicationset", {"settings"})>>)
api0064 == After({api(63)},
    <<Add("encoding", Maybe({"image_quality_scores"}), None),
      Alter("encoding", Maybe({"embedding_status_code"})), Alter("finding", Need({"status_code"}))>>)
api0065 == After({api(64), security(1)},
    <<DropConstraint("deduplicationset", "unique_active_deduplication_set_per_group"),
      Drop("encoding", {"state"}), Alter("deduplicationset", Need({"state"})),
      Unique("deduplicationset", "unique_active_deduplication_set_per_group", {"group"},
             Except("state", {3, 4, 5}))>>)
api0066 == After({api(65)}, <<Drop("encoding", {"face_coverage"})>>)
api0067 == After({api(66)}, <<Add("finding", Maybe({"config"}), None)>>)
api0068 == After({api(67)}, <<Add("deduplicationset", Need({"log"}), Some)>>)
api0069 == After({api(68)},
    <<DropConstraint("ignoredreferencepkpair", "unique_ignored_ref_pair"),
      DropConstraint("ignoredfilenamepair", "unique_ignored_filename_pair"),
      DeleteModel("ignoredfilenamepair"), DeleteModel("ignoredreferencepkpair")>>)
api0070 == After({api(69)},
    <<DropConstraint("deduplicationset", "unique_active_deduplication_set_per_group"),
      Add("deduplicationsetgroup", Need({"processing_locked"}), FALSE),
      RunPython("migrate_states_forward"), Alter("deduplicationset", Need({"state"}))>>)
(* A mutant: deduplication failures keep the slot of the group.                *)
api0071_without_failures == After({api(70)},
    <<Unique("deduplicationset", "unique_active_deduplication_set_per_group", {"group"},
             Except("state", {5, 9, 10}))>>)
api0071 == After({api(70)},
    <<Unique("deduplicationset", "unique_active_deduplication_set_per_group", {"group"},
             Except("state", {5, 8, 9, 10}))>>)
api0072 == After({api(71)}, <<RunPython("_drop_inline_payloads")>>)
api0073 == After({api(72)}, <<AlterType("encoding", "filename", {"data:"})>>)
api0074 == After({api(73)},
    <<Alter("encoding", Maybe({"embedding_status_code"})), Alter("finding", Need({"status_code"}))>>)
api0075 == After({api(74), hope_api_auth},
    <<Drop("deduplicationsetgroup", {"system"}), RunPython("remove_legacy_user_unique"),
      RunPython("migrate_hde_tokens"), DeleteModel("hdetoken")>>)
api0076 == After({api(75)},
    <<Alter("deduplicationsetgroup", Need({"reference_pk"})),
      Unique("deduplicationsetgroup", "unique_active_deduplication_set_group_reference_pk",
             {"reference_pk"}, Except("deleted", {TRUE}))>>)
api0077 == After({api(76)}, <<Alter("encoding", Need({"filename"}))>>)

----------------------------------------------------------------------------
(* The application security, and the one foreign migration 0075 depends on.    *)
first_users == <<
    CreateModel("externalsystem", "name", Only({"name"})),
    CreateModel("system", "id", Only({"id"}) @@ Need({"name"})),
    CreateModel("user", "id",
        Only({"id", "username"})
          @@ Need({"password", "is_superuser", "first_name", "last_name", "email", "is_staff",
                   "is_active", "date_joined"})
          @@ Maybe({"last_login", "job_title", "display_name"}) @@ MaybeOnly({"azure_id"})
          @@ MaybeTo("externalsystem", {"external_system"})),
    CreateModel("user_groups", "id", Only({"id"}) @@ To("user", {"user"}) @@ To("group", {"group"})),
    CreateModel("user_user_permissions", "id",
        Only({"id"}) @@ To("user", {"user"}) @@ Need({"permission"}))>>
first_roles == <<
    CreateModel("userrole", "id",
        Only({"id"}) @@ To("group", {"group"}) @@ To("system", {"system"}) @@ To("user", {"user"})),
    Unique("userrole", "security_userrole_unique_role", {"user", "system", "group"}, Always)>>
security0001 == After({}, first_users \o first_roles)
security0002 == After({security(1)},
    <<AlterType("system", "id", {}), AlterType("user", "id", {}), AlterType("userrole", "id", {})>>)
security0003 == After({security(2)}, <<Add("externalsystem", MaybeTo("system", {"system"}), None)>>)
security0004 == After({security(3)}, <<RunPython("create_systems")>>)
security0005 == After({api(23), security(4)}, <<RunPython("create_group_and_permission")>>)
security0006 == After({security(5)}, <<RunPython("assign_userroles")>>)
security0007 == After({security(6)}, <<Drop("user", {"external_system"})>>)
security0008 == After({security(7)}, <<DeleteModel("externalsystem")>>)
(* A mutant: the systems go while tokens and groups may still refer to them.   *)
security0009_at_once ==
    After({security(8)}, <<DeleteModel("userrole"), DeleteModel("system")>>)
security0009 == After({api(75), security(8)}, <<DeleteModel("userrole"), DeleteModel("system")>>)

(* external: an API token belonged to one user, and a user had one token.      *)
hope_api_auth0001 == After({security(1)},
    <<CreateModel("apitoken", "key", Only({"key"}) @@ OneTo("user", {"user"}) @@ Maybe({"grants"}))>>)

Steps ==
    [api |-> <<
        api0001, api0002, api0003, api0004, api0005, api0006, api0007, api0008, api0009, api0010,
        api0011, api0012, api0013, api0014, api0015, api0016, api0017, api0018, api0019, api0020,
        api0021, api0022, api0023, api0024, api0025, api0026, api0027, api0028, api0029, api0030,
        api0031, api0032, api0033, api0034, api0035, api0036, api0037, api0038, api0039, api0040,
        api0041, api0042, api0043, api0044, api0045, api0046, api0047, api0048, api0049, api0050,
        api0051, api0052, api0053, api0054, api0055, api0056, api0057, api0058, api0059, api0060,
        api0061, api0062, api0063, api0064, api0065, api0066, api0067, api0068, api0069, api0070,
        api0071, api0072, api0073, api0074, api0075, api0076, api0077>>,
     security |-> <<
        security0001, security0002, security0003, security0004, security0005, security0006,
        security0007, security0008, security0009>>,
     hope_api_auth |-> <<hope_api_auth0001>>]

All == UNION {{<<app, n>> : n \in DOMAIN Steps[app]} : app \in DOMAIN Steps}
Migration(m) == Steps[m[1]][m[2]]
==============================================================================
