------------------------------- MODULE MCUpgrade -------------------------------
(* Installations that have been in use, as small sets of rows.                 *)
EXTENDS Upgrade

UpTo(n, s) == {api(i) : i \in 1 .. n} \union {security(i) : i \in 1 .. s}

(* Before systems and groups existed (0020): two sets, three images, tokens.   *)
EarlyUse(reference, system, deleted, outsider, second) ==
    [name |-> "early", ships |-> UpTo(20, 2), rows |-> <<
        <<"externalsystem", [name |-> "e1"]>>, <<"externalsystem", [name |-> "e2"]>>,
        <<"user", [id |-> "u1", username |-> "u1", external_system |-> "e1"]>>,
        <<"user", [id |-> "u2", username |-> "u2", external_system |-> IF outsider THEN None ELSE "e2"]>>,
        <<"hdetoken", [key |-> "k1", user |-> "u1"]>>, <<"hdetoken", [key |-> "k2", user |-> "u1"]>>,
        <<"hdetoken", [key |-> "k3", user |-> "u2"]>>,
        <<"deduplicationset", [id |-> "s1", reference_pk |-> "r1", external_system |-> "e1",
                               deleted |-> FALSE, state |-> 1, created_at |-> 1]>>,
        <<"deduplicationset", [id |-> "s2", reference_pk |-> reference, external_system |-> system,
                               deleted |-> deleted, state |-> 0, created_at |-> 2]>>,
        <<"image", [id |-> "i1", deduplication_set |-> "s1", reference_pk |-> "p1",
                    filename |-> "f1", created_at |-> 1]>>,
        <<"image", [id |-> "i2", deduplication_set |-> "s1", reference_pk |-> "p1",
                    filename |-> "f2", created_at |-> second]>>,
        <<"image", [id |-> "i3", deduplication_set |-> "s2", reference_pk |-> "p1",
                    filename |-> "f3", created_at |-> 1]>>,
        <<"encoding", [id |-> "c1", deduplication_set |-> "s1", filename |-> "f1"]>>,
        <<"finding", [id |-> "d1", deduplication_set |-> "s1"]>>>>]

Installation == <<
    <<"system", [id |-> "e1", name |-> "e1"]>>, <<"user", [id |-> "u9", username |-> "u9"]>>,
    <<"deduplicationsetgroup", [id |-> <<"r9", "e1">>, reference_pk |-> "r9", system |-> "e1",
                                deleted |-> FALSE]>>>>

(* Groups, several sets of a group at work (0058).                             *)
GroupedUse(older, newer) ==
    [name |-> "grouped", ships |-> UpTo(58, 8), rows |-> Installation \o <<
        <<"deduplicationset", [id |-> "s7", group |-> <<"r9", "e1">>, state |-> older, created_at |-> 1]>>,
        <<"deduplicationset", [id |-> "s8", group |-> <<"r9", "e1">>, state |-> newer, created_at |-> 2]>>,
        <<"encoding", [id |-> "i7", deduplication_set |-> "s7", reference_pk |-> "p1",
                       filename |-> "f7", state |-> 0]>>,
        <<"finding", [id |-> "d7", deduplication_set |-> "s7", first_encoding |-> "i7"]>>>>]

(* One set at work and one at rest in a group (0069), an inline image, tokens. *)
LateUse(work, rest, filename, key) ==
    [name |-> "late", ships |-> UpTo(69, 8) \union {hope_api_auth}, rows |-> Installation \o <<
        <<"deduplicationset", [id |-> "s8", group |-> <<"r9", "e1">>, state |-> rest, created_at |-> 1]>>,
        <<"deduplicationset", [id |-> "s9", group |-> <<"r9", "e1">>, state |-> work, created_at |-> 2]>>,
        <<"encoding", [id |-> "i9", deduplication_set |-> "s9", reference_pk |-> "p1",
                       filename |-> filename]>>,
        <<"finding", [id |-> "d9", deduplication_set |-> "s9", first_encoding |-> "i9"]>>,
        <<"hdetoken", [key |-> "k9", user |-> "u9", system |-> "e1"]>>,
        <<"apitoken", [key |-> key, user |-> "u9"]>>>>]

MCSeeds ==
    {<< >>}
    \union {<<EarlyUse(r, e, d, o, 2)>> :
                r \in {"r1", "r2"}, e \in {"e1", "e2"}, d \in BOOLEAN, o \in BOOLEAN}
    \union {<<EarlyUse("r2", "e2", FALSE, FALSE, 1)>>}
    \union {<<GroupedUse(m, n)>> : m \in {0, 3}, n \in {2, 4}}
    \union {<<LateUse(w, r, f, k)>> : w \in 0 .. 2, r \in 3 .. 5, f \in {"f9", "data:"}, k \in {"k8", "k9"}}
================================================================================
