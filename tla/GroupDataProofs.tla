----------------------------- MODULE GroupDataProofs -----------------------------
(***************************************************************************)
(* Proofs about PairSearch and GroupData, for any number of sets, images   *)
(* and settings: no pair is lost at the border of two chunks, none is      *)
(* found twice, and no image is compared with itself or with an earlier    *)
(* one of its set; what one image is saved with, what the comparison of a  *)
(* set reports, the types, and that reference data stays. The type         *)
(* invariant needs to know where a run is in find_duplicates (Pace), that  *)
(* nothing works on a set that is not there (Absent), and that what a run  *)
(* has left to encode has no embedding (Left), or saving it would break    *)
(* the check constraint of the table, an embedding or a status; and what   *)
(* the requests under way have read (Slots).                               *)
(***************************************************************************)
EXTENDS GroupData, FiniteSetTheorems, TLAPS

(***************************************************************************)
(* The search: it compares exactly the pairs it should, whatever the size  *)
(* of a chunk and of the set.                                              *)
(***************************************************************************)

\* What dedupe_all passes: the images of the set are among all the images, and np.where
\* yields pairs of a row below n_current and a column below n_all.
Matrix(n_current, n_all, chunk_size) ==
  /\ n_current \in Nat /\ n_all \in Nat /\ n_current <= n_all
  /\ chunk_size \in Nat /\ chunk_size > 0

\* Every row g of the set belongs to the chunk that starts at g - g % chunk_size.
LEMMA RowHasChunk ==
  ASSUME NEW n \in Nat, NEW k \in Nat, k > 0, NEW g \in 0..(n - 1)
  PROVE  \E s \in Starts(n, k) : s <= g /\ g < Lesser(s + k, n)
<1>1. g \in Nat /\ g < n
  OBVIOUS
<1>2. g % k \in 0..(k - 1) /\ g = k * (g \div k) + (g % k)
  BY <1>1
<1>3. g \div k \in Nat
  BY <1>1
<1>4. g - (g % k) \in 0..(n - 1)
  <2>1. k * (g \div k) \in Nat
    BY <1>3
  <2> QED BY <1>1, <1>2, <2>1
<1>5. (g - (g % k)) % k = 0
  BY <1>1, SMTT(20)
<1>6. g - (g % k) \in Starts(n, k)
  BY <1>4, <1>5 DEF Starts
<1>7. g - (g % k) <= g /\ g < Lesser(g - (g % k) + k, n)
  BY <1>1, <1>2 DEF Lesser
<1> QED
  BY <1>6, <1>7

\* Two chunks that start at different rows are at least a chunk apart.
LEMMA ChunksApart ==
  ASSUME NEW g \in Nat, NEW h \in Nat, NEW k \in Nat, k > 0,
         g % k = 0, h % k = 0, g < h
  PROVE  g + k <= h
<1> DEFINE a == g \div k
           b == h \div k
<1>1. a \in Nat /\ g = k * a
  <2>1. g = k * (g \div k) + (g % k)
    OBVIOUS
  <2> QED BY <2>1
<1>2. b \in Nat /\ h = k * b
  <2>1. h = k * (h \div k) + (h % k)
    OBVIOUS
  <2> QED BY <2>1
<1> HIDE DEF a, b
<1>3. a < b
  <2>1. CASE b <= a
    <3>1. k * b <= k * a
      BY <2>1, <1>1, <1>2
    <3> QED BY <3>1, <1>1, <1>2
  <2> QED BY <2>1, <1>1, <1>2
<1>4. b - a - 1 \in Nat
  BY <1>1, <1>2, <1>3
<1>5. k * b = k * a + k + k * (b - a - 1)
  BY <1>1, <1>2
<1>6. k * (b - a - 1) \in Nat
  BY <1>4
<1> QED
  BY <1>1, <1>2, <1>5, <1>6

\* The pairs of one chunk, without the indices local to it.
LEMMA PairsOfChunk ==
  ASSUME NEW n \in Nat, NEW all \in Nat, n <= all, NEW k \in Nat, k > 0,
         NEW near \in SUBSET (Nat \X Nat), NEW s \in Starts(n, k), NEW p \in near
  PROVE  p \in ChunkPairs(s, n, all, k, near)
         <=> /\ s <= p[1] /\ p[1] < Lesser(s + k, n)
             /\ p[2] \in 0..(all - 1) /\ p[1] < p[2]
<1>1. s \in Nat /\ s < n
  BY DEF Starts
<1>2. p = <<p[1], p[2]>> /\ p[1] \in Nat /\ p[2] \in Nat
  OBVIOUS
<1>3. Lesser(s + k, n) \in Nat /\ Lesser(s + k, n) <= n
  BY <1>1 DEF Lesser
<1> DEFINE rows == 0..(Lesser(s + k, n) - s - 1)
           cells == {<<s + r, c>> : r \in rows, c \in 0..(all - 1)}
<1>4. p \in cells <=> /\ s <= p[1] /\ p[1] < Lesser(s + k, n)
                      /\ p[2] \in 0..(all - 1)
  <2>1. ASSUME p \in cells
        PROVE  s <= p[1] /\ p[1] < Lesser(s + k, n) /\ p[2] \in 0..(all - 1)
    <3>1. PICK r \in rows, c \in 0..(all - 1) : p = <<s + r, c>>
      BY <2>1
    <3>2. p[1] = s + r /\ p[2] = c
      BY <3>1
    <3> QED BY <3>1, <3>2, <1>1, <1>3
  <2>2. ASSUME s <= p[1], p[1] < Lesser(s + k, n), p[2] \in 0..(all - 1)
        PROVE  p \in cells
    <3>1. p[1] - s \in rows /\ s + (p[1] - s) = p[1]
      BY <2>2, <1>1, <1>2, <1>3
    <3>2. p = <<s + (p[1] - s), p[2]>>
      BY <3>1, <1>2
    <3> QED BY <3>1, <3>2, <2>2
  <2> QED BY <2>1, <2>2
<1>5. ASSUME s <= p[1], p[1] < Lesser(s + k, n)
      PROVE  ~(p[2] < n /\ p[1] >= p[2]) <=> p[1] < p[2]
  BY <1>2, <1>3, <1>5
<1>6. p \in ChunkPairs(s, n, all, k, near)
      <=> p \in cells /\ ~(p[2] < n /\ p[1] >= p[2])
  BY DEF ChunkPairs
<1> HIDE DEF cells
<1> QED
  BY <1>4, <1>5, <1>6

\* find_duplicate_pairs returns every pair of near that should be compared, and no other,
\* for every number of images and every size of a chunk (facial.py:236-256).
THEOREM SearchIsComplete ==
  ASSUME NEW n_current, NEW n_all, NEW chunk_size, Matrix(n_current, n_all, chunk_size),
         NEW near \in SUBSET (Nat \X Nat)
  PROVE  find_duplicate_pairs(n_current, n_all, chunk_size, near) = AllPairs(n_current, n_all, near)
<1> USE DEF Matrix
<1>1. ASSUME NEW p \in find_duplicate_pairs(n_current, n_all, chunk_size, near)
      PROVE  p \in AllPairs(n_current, n_all, near)
  <2>1. PICK s \in Starts(n_current, chunk_size) : p \in ChunkPairs(s, n_current, n_all, chunk_size, near)
    BY DEF find_duplicate_pairs
  <2>2. p \in near
    BY <2>1 DEF ChunkPairs
  <2>3. /\ s <= p[1] /\ p[1] < Lesser(s + chunk_size, n_current)
        /\ p[2] \in 0..(n_all - 1) /\ p[1] < p[2]
    BY <2>1, <2>2, PairsOfChunk
  <2>4. s \in Nat /\ p[1] \in Nat
    BY <2>2 DEF Starts
  <2>5. p[1] \in 0..(n_current - 1)
    BY <2>3, <2>4 DEF Lesser
  <2> QED BY <2>2, <2>3, <2>5 DEF AllPairs
<1>2. ASSUME NEW p \in AllPairs(n_current, n_all, near)
      PROVE  p \in find_duplicate_pairs(n_current, n_all, chunk_size, near)
  <2>1. /\ p \in near /\ p[1] \in 0..(n_current - 1)
        /\ p[2] \in 0..(n_all - 1) /\ p[1] < p[2]
    BY DEF AllPairs
  <2>2. PICK s \in Starts(n_current, chunk_size) :
               s <= p[1] /\ p[1] < Lesser(s + chunk_size, n_current)
    BY <2>1, RowHasChunk
  <2>3. p \in ChunkPairs(s, n_current, n_all, chunk_size, near)
    BY <2>1, <2>2, PairsOfChunk
  <2> QED BY <2>3 DEF find_duplicate_pairs
<1> QED
  BY <1>1, <1>2

\* No pair is appended by two chunks: the list of duplicates holds each pair once, and
\* bulk_create gets no two findings of the same images from it.
THEOREM ChunksAreDisjoint ==
  ASSUME NEW n_current, NEW n_all, NEW chunk_size, Matrix(n_current, n_all, chunk_size),
         NEW near \in SUBSET (Nat \X Nat),
         NEW s \in Starts(n_current, chunk_size), NEW t \in Starts(n_current, chunk_size), s # t
  PROVE  ChunkPairs(s, n_current, n_all, chunk_size, near)
           \cap ChunkPairs(t, n_current, n_all, chunk_size, near) = {}
<1> USE DEF Matrix
<1> SUFFICES ASSUME NEW p \in ChunkPairs(s, n_current, n_all, chunk_size, near),
                    p \in ChunkPairs(t, n_current, n_all, chunk_size, near)
             PROVE  FALSE
  OBVIOUS
<1>1. p \in near
  BY DEF ChunkPairs
<1>2. s <= p[1] /\ p[1] < Lesser(s + chunk_size, n_current)
  BY <1>1, PairsOfChunk
<1>3. t <= p[1] /\ p[1] < Lesser(t + chunk_size, n_current)
  BY <1>1, PairsOfChunk
<1>4. s \in Nat /\ t \in Nat /\ s % chunk_size = 0 /\ t % chunk_size = 0 /\ p[1] \in Nat
  BY <1>1 DEF Starts
<1>5. p[1] < s + chunk_size /\ p[1] < t + chunk_size
  BY <1>2, <1>3, <1>4 DEF Lesser
<1>6. s < t \/ t < s
  BY <1>4
<1>7. s + chunk_size <= t \/ t + chunk_size <= s
  BY <1>4, <1>6, ChunksApart
<1> QED
  BY <1>2, <1>3, <1>4, <1>5, <1>7

(***************************************************************************)
(* The rows.                                                               *)
(***************************************************************************)

EmptyRow == {r \in Row : r.embedding = None}

\* A run works with the settings on another scale, and writes them back as they were.
LEMMA BackToSettings ==
  ASSUME NEW s \in Settings
  PROVE  as_dict(from_deduplication_set(s)) = s
<1> DEFINE Scaled == [face : 0..100, duplicate : Nat, quality : [Metrics -> Nat]]
           q1 == [m \in Metrics |-> 100 * s.quality[m]]
           c == from_deduplication_set(s)
           q2 == [m \in Metrics |-> c.quality[m] \div 100]
           t == as_dict(c)
<1>1. s \in Scaled /\ s.duplicate \in 0..100 /\ s.quality \in [Metrics -> 0..100]
  BY DEF Settings
<1>2. c \in Scaled /\ c.face = s.face /\ c.duplicate = 100 * s.duplicate /\ c.quality = q1
  <2>1. 100 * s.duplicate \in Nat /\ q1 \in [Metrics -> Nat]
    BY <1>1
  <2>2. c = [s EXCEPT !.duplicate = 100 * s.duplicate, !.quality = q1]
    BY DEF from_deduplication_set
  <2> HIDE DEF q1, c
  <2> QED BY <1>1, <2>1, <2>2
<1>3. (100 * s.duplicate) \div 100 = s.duplicate
  BY <1>1
<1>4. q2 = s.quality
  <2>1. ASSUME NEW m \in Metrics PROVE c.quality[m] \div 100 = s.quality[m]
    <3>1. c.quality[m] = 100 * s.quality[m] /\ s.quality[m] \in 0..100
      BY <1>1, <1>2
    <3> QED BY <3>1
  <2> HIDE DEF c
  <2> QED BY <1>1, <2>1
<1>5. t \in Scaled /\ t.face = s.face /\ t.duplicate = s.duplicate /\ t.quality = s.quality
  <2>1. t = [c EXCEPT !.duplicate = (100 * s.duplicate) \div 100, !.quality = q2]
    BY <1>2 DEF as_dict
  <2> HIDE DEF q2, c, t
  <2> QED BY <1>1, <1>2, <1>3, <1>4, <2>1
<1> HIDE DEF t
<1>6. t = s
  BY <1>1, <1>5
<1> QED
  BY <1>6 DEF t

\* The quality check ends with a final verdict, or none.
LEMMA QualityCodes ==
  ASSUME NEW i, NEW config
  PROVE  QualityCode(i, config) \in IMAGE_QUALITY \cup FACE_DETECT \cup {None}
BY DEF QualityCode, IMAGE_QUALITY, FACE_DETECT

\* So does the look at the faces.
LEMMA FaceCodes ==
  ASSUME NEW i, NEW config
  PROVE  FaceCode(i, config) \in FACE_DETECT \cup {None}
BY DEF FaceCode, FACE_DETECT

\* What one image comes out of processing with: a status, or an embedding of it.
LEMMA Processed ==
  ASSUME NEW old \in EmptyRow, NEW s \in Settings, NEW errors \in SUBSET SYSTEM,
         NEW r \in process_encoding(old, from_deduplication_set(s), errors)
  PROVE  /\ r \in Row
         /\ r.filename = old.filename
         /\ r.code # None \/ r.embedding = [image |-> r.filename, settings |-> s]
         /\ r.code # None => r.code \in StatusCode /\ r.embedding = None
<1> DEFINE config == from_deduplication_set(s)
           active == get_active_thresholds(config) # {}
           measures == active /\ old.scores = None
           checked == IF measures THEN [old EXCEPT !.scores = old.filename] ELSE old
           quality == IF active THEN QualityCode(checked.scores, config) ELSE None
<1>1. as_dict(config) = s
  BY BackToSettings
<1>2. /\ old = [filename |-> old.filename, embedding |-> None, code |-> old.code,
                scores |-> old.scores]
      /\ old.filename \in Images /\ old.scores \in Images \cup {None}
  BY DEF EmptyRow, Row
<1>3. \E sc \in Images \cup {None} :
        checked = [filename |-> old.filename, embedding |-> None, code |-> old.code, scores |-> sc]
  BY <1>2
<1>4. PICK sc \in Images \cup {None} :
        checked = [filename |-> old.filename, embedding |-> None, code |-> old.code, scores |-> sc]
  BY <1>3
<1>5. quality \in StatusCode \cup {None}
  BY QualityCodes DEF StatusCode
<1>6. \/ r \in {[old EXCEPT !.code = e] : e \in errors}
      \/ quality # None /\ r = [checked EXCEPT !.code = quality]
      \/ r = encode_face(checked, config)
      \/ r \in {[checked EXCEPT !.code = e] : e \in errors}
  BY DEF process_encoding
<1>7. errors \subseteq StatusCode
  BY DEF StatusCode
<1>8. None \notin StatusCode
  BY GroupDataAssumption
<1> DEFINE code == FaceCode(old.filename, config)
<1>9. code \in StatusCode \cup {None}
  BY FaceCodes DEF StatusCode
<1>10. encode_face(checked, config) =
         [filename |-> old.filename, scores |-> sc, code |-> code,
          embedding |-> IF code = None THEN [image |-> old.filename, settings |-> s] ELSE None]
  <2>1. checked.filename = old.filename /\ checked.embedding = None
    BY <1>4
  <2>2. encode_face(checked, config)
          = [checked EXCEPT !.code = code,
               !.embedding = IF code = None
                             THEN [image |-> old.filename, settings |-> s] ELSE None]
    BY <1>1, <2>1 DEF encode_face
  <2> HIDE DEF code, checked
  <2> QED BY <1>4, <2>2
<1>11. [image |-> old.filename, settings |-> s] \in Embedding
  BY <1>2 DEF Embedding
<1> HIDE DEF config, active, measures, checked, quality, code
<1>12. CASE r \in {[old EXCEPT !.code = e] : e \in errors}
  BY <1>2, <1>7, <1>8, <1>12 DEF Row
<1>13. CASE quality # None /\ r = [checked EXCEPT !.code = quality]
  BY <1>2, <1>4, <1>5, <1>8, <1>13 DEF Row
<1>14. CASE r = encode_face(checked, config)
  <2>1. /\ r.filename = old.filename /\ r.scores = sc /\ r.code = code
        /\ r.embedding = IF code = None THEN [image |-> old.filename, settings |-> s] ELSE None
        /\ r = [filename |-> r.filename, embedding |-> r.embedding, code |-> r.code, scores |-> r.scores]
    BY <1>10, <1>14
  <2>2. r.embedding \in Embedding \cup {None}
    BY <2>1, <1>11
  <2> QED BY <1>2, <1>4, <1>9, <1>8, <2>1, <2>2 DEF Row
<1>15. CASE r \in {[checked EXCEPT !.code = e] : e \in errors}
  BY <1>2, <1>4, <1>7, <1>8, <1>15 DEF Row
<1> QED
  BY <1>6, <1>12, <1>13, <1>14, <1>15

-----------------------------------------------------------------------------
(***************************************************************************)
(* What the comparison of a set reports.                                   *)
(***************************************************************************)
\* The keys of a set have an ascending order: each goes to the place that is the number
\* of keys up to it.
LEMMA AscendingOrder ==
  ASSUME NEW S \in SUBSET Nat, IsFiniteSet(S)
  PROVE  \E s \in [1..Cardinality(S) -> S] : \A i, j \in DOMAIN s : i < j => s[i] < s[j]
<1> DEFINE n == Cardinality(S)
           Upto(x) == {y \in S : y <= x}
           place == [x \in S |-> Cardinality(Upto(x))]
<1>1. n \in Nat
  BY FS_CardinalityType
<1>2. ASSUME NEW x \in S
      PROVE  IsFiniteSet(Upto(x)) /\ Cardinality(Upto(x)) \in 1..n
  <2>1. Upto(x) \in SUBSET S
    OBVIOUS
  <2>2. IsFiniteSet(Upto(x)) /\ Cardinality(Upto(x)) <= n
    BY <2>1, FS_Subset
  <2>3. x \in Upto(x)
    OBVIOUS
  <2>4. Cardinality(Upto(x)) \in Nat /\ Cardinality(Upto(x)) # 0
    BY <2>2, <2>3, FS_CardinalityType, FS_EmptySet
  <2> QED BY <1>1, <2>2, <2>4
<1>3. ASSUME NEW x \in S, NEW y \in S, x < y
      PROVE  Cardinality(Upto(x)) < Cardinality(Upto(y))
  <2>1. Upto(x) \in SUBSET Upto(y) /\ y \in Upto(y) /\ y \notin Upto(x)
    <3>1. x \in Nat /\ y \in Nat /\ \A z \in S : z \in Nat
      OBVIOUS
    <3>2. \A z \in S : z <= x => z <= y
      BY <1>3, <3>1
    <3>3. y <= y /\ ~(y <= x)
      BY <1>3, <3>1
    <3> QED BY <3>2, <3>3
  <2>2. Upto(x) # Upto(y)
    BY <2>1
  <2>3. Cardinality(Upto(x)) <= Cardinality(Upto(y)) /\ Cardinality(Upto(x)) # Cardinality(Upto(y))
    BY <1>2, <2>1, <2>2, FS_Subset
  <2> QED BY <1>1, <1>2, <2>3
<1>4. place \in [S -> 1..n] /\ \A x \in S : place[x] = Cardinality(Upto(x))
  BY <1>2
<1>5. \A x, y \in S : x < y => place[x] < place[y]
  BY <1>3, <1>4
<1> HIDE DEF place
<1>6. place \in Injection(S, 1..n)
  <2>1. ASSUME NEW x \in S, NEW y \in S, place[x] = place[y] PROVE x = y
    <3>1. x \in Nat /\ y \in Nat /\ place[x] \in 1..n /\ place[y] \in 1..n
      BY <1>4
    <3> QED BY <1>1, <1>5, <2>1, <3>1
  <2> QED BY <1>4, <2>1 DEF Injection, IsInjective
<1>7. \A i \in 1..n : \E x \in S : place[x] = i
  <2>1. IsFiniteSet(1..n) /\ Cardinality(1..n) = n
    BY <1>1, FS_Interval
  <2>2. place \in Surjection(S, 1..n)
    BY <1>6, <2>1, FS_Injection
  <2> QED BY <2>2 DEF Surjection
<1> DEFINE s == [i \in 1..n |-> CHOOSE x \in S : place[x] = i]
<1>8. s \in [1..n -> S] /\ \A i \in 1..n : place[s[i]] = i
  BY <1>7
<1> HIDE DEF s
<1>9. ASSUME NEW i \in 1..n, NEW j \in 1..n, i < j PROVE s[i] < s[j]
  <2>1. s[i] \in Nat /\ s[j] \in Nat /\ s[i] \in S /\ s[j] \in S
    BY <1>8
  <2>2. CASE s[j] < s[i]
    BY <1>1, <1>5, <1>8, <1>9, <2>1, <2>2
  <2>3. CASE s[j] = s[i]
    BY <1>1, <1>8, <1>9, <2>3
  <2> QED BY <2>1, <2>2, <2>3
<1>10. DOMAIN s = 1..n
  BY <1>8
<1> QED
  BY <1>8, <1>9, <1>10

\* The images of a set are loaded in ascending order, each of them once.
LEMMA AscendingLists ==
  ASSUME NEW S \in SUBSET Nat, IsFiniteSet(S)
  PROVE  /\ Ascending(S) \in [1..Cardinality(S) -> S]
         /\ \A i, j \in 1..Cardinality(S) : i < j => Ascending(S)[i] < Ascending(S)[j]
         /\ \A x \in S : \E i \in 1..Cardinality(S) : Ascending(S)[i] = x
<1> DEFINE n == Cardinality(S)
           s == Ascending(S)
<1>1. s \in [1..n -> S] /\ \A i, j \in DOMAIN s : i < j => s[i] < s[j]
  BY AscendingOrder DEF Ascending
<1>2. n \in Nat /\ IsFiniteSet(1..n) /\ Cardinality(1..n) = n
  BY FS_CardinalityType, FS_Interval
<1> HIDE DEF s
<1>3. DOMAIN s = 1..n
  BY <1>1
<1>4. s \in Injection(1..n, S)
  <2>1. ASSUME NEW i \in 1..n, NEW j \in 1..n, s[i] = s[j] PROVE i = j
    <3>1. s[i] \in Nat /\ s[j] \in Nat
      BY <1>1
    <3> QED BY <1>1, <1>2, <1>3, <2>1, <3>1
  <2> QED BY <1>1, <1>3, <2>1 DEF Injection, IsInjective
<1>5. s \in Surjection(1..n, S)
  BY <1>2, <1>4, FS_Injection
<1>6. \A x \in S : \E i \in 1..n : s[i] = x
  BY <1>5 DEF Surjection
<1> QED
  BY <1>1, <1>3, <1>6 DEF s

\* The approved images are loaded in some order, each of them once.
LEMMA SetToSeqLists ==
  ASSUME NEW S, IsFiniteSet(S)
  PROVE  /\ SetToSeq(S) \in [1..Cardinality(S) -> S]
         /\ \A x \in S : \E i \in 1..Cardinality(S) : SetToSeq(S)[i] = x
<1> DEFINE n == Cardinality(S)
<1>1. n \in Nat /\ ExistsBijection(1..n, S)
  BY FS_CardinalityType
<1>2. PICK f \in [1..n -> S] : IsInjective(f)
  BY <1>1 DEF ExistsBijection, Bijection, Injection
<1>3. SetToSeq(S) \in [1..n -> S] /\ IsInjective(SetToSeq(S))
  BY <1>2 DEF SetToSeq
<1>4. IsFiniteSet(1..n) /\ Cardinality(1..n) = n
  BY <1>1, FS_Interval
<1>5. SetToSeq(S) \in Surjection(1..n, S)
  BY <1>3, <1>4, FS_Injection DEF Injection
<1> QED
  BY <1>3, <1>5 DEF Surjection

Own(d) == {<<d, k>> : k \in encodings_with_embeddings(d)}

Matches(d, config) ==
  {p \in Own(d) \X (Own(d) \cup Approved(d)) :
     /\ p[1][1] = p[2][1] => p[1][2] < p[2][2]
     /\ IsDuplicate(p[1], p[2], config)}

\* The images with an embedding are finitely many keys.
LEMMA EmbeddedIsFinite ==
  ASSUME NEW d
  PROVE  /\ encodings_with_embeddings(d) \in SUBSET Keys
         /\ encodings_with_embeddings(d) \in SUBSET Nat
         /\ IsFiniteSet(encodings_with_embeddings(d))
         /\ Cardinality(encodings_with_embeddings(d)) \in 0..Cardinality(Keys)
<1>1. encodings_with_embeddings(d) \in SUBSET Keys
  BY DEF encodings_with_embeddings, Rows
<1>2. Keys \subseteq Nat /\ IsFiniteSet(Keys)
  BY GroupDataAssumption
<1>3. /\ IsFiniteSet(encodings_with_embeddings(d))
      /\ Cardinality(encodings_with_embeddings(d)) <= Cardinality(Keys)
  BY <1>1, <1>2, FS_Subset
<1>4. Cardinality(encodings_with_embeddings(d)) \in Nat /\ Cardinality(Keys) \in Nat
  BY <1>2, <1>3, FS_CardinalityType
<1>5. \A a, b \in Nat : a <= b => a \in 0..b
  OBVIOUS
<1> QED
  BY <1>1, <1>2, <1>3, <1>4, <1>5

\* So are the approved images.
LEMMA ApprovedIsFinite ==
  ASSUME NEW d
  PROVE  /\ Approved(d) \in SUBSET Encodings /\ IsFiniteSet(Approved(d))
         /\ \A b : b \in Approved(d)
              <=> \E e \in Sets : \E k \in encodings_with_embeddings(e) :
                    state[e] = "APPROVED" /\ b = <<e, k>>
<1>1. \A b : b \in Approved(d)
              <=> \E e \in Sets : \E k \in encodings_with_embeddings(e) :
                    state[e] = "APPROVED" /\ b = <<e, k>>
  BY DEF Approved
<1>2. Approved(d) \in SUBSET Encodings
  BY <1>1, EmbeddedIsFinite DEF Encodings
<1>3. IsFiniteSet(Encodings)
  <2>1. IsFiniteSet(Sets) /\ IsFiniteSet(Keys)
    BY GroupDataAssumption
  <2>2. IsFiniteSet(Sets \X Keys)
    BY <2>1, FS_Product
  <2> QED BY <2>2 DEF Encodings
<1>4. IsFiniteSet(Approved(d))
  BY <1>2, <1>3, FS_Subset
<1> QED
  BY <1>1, <1>2, <1>4

\* The matrix of dedupe_all: the images of the set first, in ascending order of their
\* ids, then those of the approved sets.
LEMMA LoadedLists ==
  ASSUME NEW d \in Sets, NEW n, n = Cardinality(encodings_with_embeddings(d))
  PROVE  /\ n \in Nat /\ Len(Loaded(d)) \in Nat /\ n <= Len(Loaded(d))
         /\ \A i \in 1..n : /\ Loaded(d)[i] \in Own(d)
                            /\ Loaded(d)[i] = <<d, Loaded(d)[i][2]>>
         /\ \A i, j \in 1..n : i < j => Loaded(d)[i][2] < Loaded(d)[j][2]
         /\ \A i \in (n + 1)..Len(Loaded(d)) : Loaded(d)[i] \in Approved(d)
         /\ \A a \in Own(d) : \E i \in 1..n : Loaded(d)[i] = a
         /\ \A b \in Approved(d) : \E i \in (n + 1)..Len(Loaded(d)) : Loaded(d)[i] = b
<1> DEFINE K == encodings_with_embeddings(d)
           A == Approved(d)
           s == Ascending(K)
           t == SetToSeq(A)
           u == [i \in 1..Cardinality(K) |-> <<d, s[i]>>]
           m == Cardinality(A)
<1>1. /\ s \in [1..n -> K] /\ n \in Nat
      /\ \A i, j \in 1..n : i < j => s[i] < s[j]
      /\ \A x \in K : \E i \in 1..n : s[i] = x
  BY AscendingLists, EmbeddedIsFinite
<1>2. t \in [1..m -> A] /\ m \in Nat /\ \A x \in A : \E i \in 1..m : t[i] = x
  BY SetToSeqLists, ApprovedIsFinite, FS_CardinalityType
<1>3. Loaded(d) = u \o t
  BY DEF Loaded
<1> HIDE DEF s, t, A, m
<1>4. u \in [1..n -> Own(d)] /\ \A i \in 1..n : u[i] = <<d, s[i]>>
  BY <1>1 DEF Own
<1> HIDE DEF K, u
<1>5. u \in Seq(Own(d)) /\ Len(u) = n /\ t \in Seq(A) /\ Len(t) = m
  BY <1>1, <1>2, <1>4
<1>6. /\ Len(u \o t) = n + m
      /\ \A i \in 1..n : (u \o t)[i] = u[i]
      /\ \A i \in (n + 1)..(n + m) : (u \o t)[i] = t[i - n]
  <2>1. Len(u \o t) = n + m
    BY <1>5
  <2>2. \A i \in 1..(n + m) : (u \o t)[i] = IF i <= n THEN u[i] ELSE t[i - n]
    BY <1>5
  <2>3. \A i \in 1..n : i \in 1..(n + m) /\ i <= n
    BY <1>1, <1>2
  <2>4. \A i \in (n + 1)..(n + m) : i \in 1..(n + m) /\ ~(i <= n)
    BY <1>1, <1>2
  <2> QED BY <2>1, <2>2, <2>3, <2>4
<1> DEFINE all == Loaded(d)
<1>7. /\ Len(all) = n + m /\ \A i \in 1..n : all[i] = <<d, s[i]>>
      /\ \A i \in (n + 1)..(n + m) : all[i] = t[i - n]
  BY <1>3, <1>4, <1>6
<1> HIDE DEF all
<1>8. \A i \in 1..n : all[i] \in Own(d) /\ all[i] = <<d, all[i][2]>> /\ all[i][2] = s[i]
  BY <1>4, <1>7
<1>9. \A i \in (n + 1)..(n + m) : all[i] \in A
  <2>1. ASSUME NEW i \in (n + 1)..(n + m) PROVE all[i] \in A
    <3>1. i - n \in 1..m
      BY <1>1, <1>2
    <3> QED BY <3>1, <1>2, <1>7
  <2> QED BY <2>1
<1>10. \A a \in Own(d) : \E i \in 1..n : all[i] = a
  <2>1. ASSUME NEW a \in Own(d) PROVE \E i \in 1..n : all[i] = a
    <3>1. PICK k \in K : a = <<d, k>>
      BY DEF Own, K
    <3>2. PICK i \in 1..n : s[i] = k
      BY <1>1
    <3> QED BY <3>1, <3>2, <1>7
  <2> QED BY <2>1
<1>11. \A b \in A : \E i \in (n + 1)..(n + m) : all[i] = b
  <2>1. ASSUME NEW b \in A PROVE \E i \in (n + 1)..(n + m) : all[i] = b
    <3>1. PICK i \in 1..m : t[i] = b
      BY <1>2
    <3>2. n + i \in (n + 1)..(n + m) /\ (n + i) - n = i
      BY <1>1, <1>2
    <3> QED BY <3>1, <3>2, <1>7
  <2> QED BY <2>1
<1>12. n + m \in Nat /\ n <= n + m
  BY <1>1, <1>2
<1>13. \A i, j \in 1..n : i < j => all[i][2] < all[j][2]
  BY <1>1, <1>8
<1> QED
  BY <1>1, <1>7, <1>8, <1>9, <1>10, <1>11, <1>12, <1>13 DEF all, A

\* The pairs by their places in the matrix.
LEMMA FoundByPlace ==
  ASSUME NEW d \in Sets, NEW config, NEW n, n = Cardinality(encodings_with_embeddings(d)),
         NEW q
  PROVE  q \in FoundPairs(d, config)
         <=> \E i \in 1..n : \E j \in 1..Len(Loaded(d)) :
               /\ i < j /\ IsDuplicate(Loaded(d)[i], Loaded(d)[j], config)
               /\ q = <<Loaded(d)[i], Loaded(d)[j]>>
<1> DEFINE all == Loaded(d)
           N == Len(all)
           near == {p \in (0..(N - 1)) \X (0..(N - 1)) :
                      IsDuplicate(all[p[1] + 1], all[p[2] + 1], config)}
<1>1. n \in Nat /\ N \in Nat /\ n <= N
  BY LoadedLists
<1>2. FoundPairs(d, config) = {<<all[p[1] + 1], all[p[2] + 1]>> :
                                  p \in find_duplicate_pairs(n, N, ChunkSize, near)}
  BY DEF FoundPairs
<1>3. near \in SUBSET (Nat \X Nat)
  BY <1>1
<1>4. Matrix(n, N, ChunkSize)
  BY <1>1, GroupDataAssumption DEF Matrix
<1>5. find_duplicate_pairs(n, N, ChunkSize, near) = AllPairs(n, N, near)
  BY <1>3, <1>4, SearchIsComplete
<1> HIDE DEF all, N
<1>6. ASSUME NEW p \in AllPairs(n, N, near), q = <<all[p[1] + 1], all[p[2] + 1]>>
      PROVE  \E i \in 1..n : \E j \in 1..N :
               i < j /\ IsDuplicate(all[i], all[j], config) /\ q = <<all[i], all[j]>>
  <2>1. /\ p \in near /\ p[1] \in 0..(n - 1) /\ p[2] \in 0..(N - 1) /\ p[1] < p[2]
    BY DEF AllPairs
  <2>2. p[1] + 1 \in 1..n /\ p[2] + 1 \in 1..N /\ p[1] + 1 < p[2] + 1
    BY <1>1, <2>1
  <2> QED BY <1>6, <2>1, <2>2
<1>7. ASSUME NEW i \in 1..n, NEW j \in 1..N, i < j, IsDuplicate(all[i], all[j], config),
             q = <<all[i], all[j]>>
      PROVE  \E p \in AllPairs(n, N, near) : q = <<all[p[1] + 1], all[p[2] + 1]>>
  <2> DEFINE p == <<i - 1, j - 1>>
  <2>1. /\ p[1] = i - 1 /\ p[2] = j - 1 /\ (i - 1) + 1 = i /\ (j - 1) + 1 = j
        /\ i - 1 \in 0..(n - 1) /\ j - 1 \in 0..(N - 1) /\ i - 1 \in 0..(N - 1) /\ i - 1 < j - 1
    BY <1>1, <1>7
  <2>2. p \in near
    BY <1>7, <2>1
  <2>3. p \in AllPairs(n, N, near)
    BY <2>1, <2>2 DEF AllPairs
  <2> QED BY <1>7, <2>1, <2>3
<1> HIDE DEF near
<1> QED
  BY <1>2, <1>5, <1>6, <1>7 DEF all, N

\* What the search reports are pairs of loaded images.
LEMMA FoundAreImages ==
  ASSUME NEW d \in Sets, NEW config
  PROVE  FoundPairs(d, config) \subseteq Own(d) \X (Own(d) \cup Approved(d))
<1> DEFINE n == Cardinality(encodings_with_embeddings(d))
<1> SUFFICES ASSUME NEW q \in FoundPairs(d, config)
             PROVE  q \in Own(d) \X (Own(d) \cup Approved(d))
  OBVIOUS
<1>1. PICK i \in 1..n, j \in 1..Len(Loaded(d)) : q = <<Loaded(d)[i], Loaded(d)[j]>>
  BY FoundByPlace
<1>2. j \in 1..n \/ j \in (n + 1)..Len(Loaded(d))
  BY LoadedLists
<1> QED
  BY <1>1, <1>2, LoadedLists

\* The search reports exactly the matching pairs: every image of the set with every later
\* one of the set and with every approved image (facial.py:236-256 on load_encodings).
LEMMA FoundAreMatches ==
  ASSUME NEW d \in Sets, NEW config, state[d] # "APPROVED"
  PROVE  FoundPairs(d, config) = Matches(d, config)
<1> DEFINE n == Cardinality(encodings_with_embeddings(d))
           all == Loaded(d)
           N == Len(all)
<1>1. \A b \in Approved(d) : b[1] # d
  BY ApprovedIsFinite
<1>2. \A a \in Own(d) : a = <<d, a[2]>> /\ a[1] = d /\ a[2] \in Nat
  BY EmbeddedIsFinite DEF Own
<1>3. n \in Nat /\ N \in Nat
  BY LoadedLists
<1>4. ASSUME NEW q \in FoundPairs(d, config) PROVE q \in Matches(d, config)
  <2>1. PICK i \in 1..n, j \in 1..N :
               i < j /\ IsDuplicate(all[i], all[j], config) /\ q = <<all[i], all[j]>>
    BY FoundByPlace
  <2>2. q \in Own(d) \X (Own(d) \cup Approved(d))
    BY FoundAreImages
  <2>3. CASE j \in 1..n
    <3>1. all[i][2] < all[j][2]
      BY <2>1, <2>3, LoadedLists
    <3> QED BY <2>1, <2>2, <3>1 DEF Matches
  <2>4. CASE j \in (n + 1)..N
    <3>1. all[j] \in Approved(d) /\ all[i] \in Own(d)
      BY <2>4, LoadedLists
    <3> QED BY <2>1, <2>2, <3>1, <1>1, <1>2 DEF Matches
  <2> QED BY <1>3, <2>3, <2>4
<1>5. ASSUME NEW q \in Matches(d, config) PROVE q \in FoundPairs(d, config)
  <2>1. /\ q = <<q[1], q[2]>> /\ q[1] \in Own(d) /\ q[2] \in Own(d) \cup Approved(d)
        /\ q[1][1] = q[2][1] => q[1][2] < q[2][2]
        /\ IsDuplicate(q[1], q[2], config)
    BY DEF Matches
  <2>2. PICK i \in 1..n : all[i] = q[1]
    BY <2>1, LoadedLists
  <2>3. CASE q[2] \in Own(d)
    <3>1. PICK j \in 1..n : all[j] = q[2]
      BY <2>3, LoadedLists
    <3>2. all[i][2] < all[j][2] /\ all[i][2] \in Nat /\ all[j][2] \in Nat
      BY <1>2, <2>1, <2>2, <2>3, <3>1
    <3>3. i < j
      <4>1. CASE j < i
        <5>1. all[j][2] < all[i][2]
          BY <4>1, LoadedLists
        <5> QED BY <3>2, <5>1
      <4>2. CASE i = j
        BY <3>2, <4>2
      <4> QED BY <1>3, <4>1, <4>2
    <3>4. j \in 1..N
      BY <1>3, LoadedLists
    <3> QED BY <2>1, <2>2, <3>1, <3>3, <3>4, FoundByPlace
  <2>4. CASE q[2] \in Approved(d)
    <3>1. PICK j \in (n + 1)..N : all[j] = q[2]
      BY <2>4, LoadedLists
    <3>2. j \in 1..N /\ i < j
      BY <1>3
    <3> QED BY <2>1, <2>2, <3>1, <3>2, FoundByPlace
  <2> QED BY <2>1, <2>3, <2>4
<1> QED
  BY <1>4, <1>5

-----------------------------------------------------------------------------
(***************************************************************************)
(* The shape of the data, and the requests and actions that keep it.       *)
(***************************************************************************)
Reading == {"encode", "start_dedupe", "count", "compare", "deduped"}

PCs == {"idle", "begin", "encode", "start_dedupe", "count", "compare", "deduped", "done", "error"}

Todos == UNION {[D -> EmptyRow] : D \in SUBSET Keys}

RunRecord ==
  [pc : PCs, ds : Sets \cup {None}, encode_only : BOOLEAN, mem : State \cup {None},
   config : Config \cup {None}, todo : Todos, count : 0..Cardinality(Keys), lost : BOOLEAN]

Rowset == [Keys -> Row \cup {None}]

Typed ==
  /\ state \in [Sets -> State \cup {None}]
  /\ row \in [Sets -> Rowset]
  /\ finding \in SUBSET Finding
  /\ settings \in Configs
  /\ actors \in Scenarios
  /\ upload \in [ds : Sets \cup {None}, seen : State \cup {None}]
  /\ run \in RunRecord
  /\ disturbed \in SUBSET Sets

\* What the place of a run in find_duplicates says of its object in memory.
Pace ==
  /\ run.pc = "idle" => run = IdleRun
  /\ run.pc # "idle" => run.ds \in Sets /\ run.mem \in State
  /\ run.pc \in Reading => run.config \in Config
  /\ run.pc = "start_dedupe" => run.mem = "ENCODED"
  /\ run.pc \in {"count", "compare", "deduped"} => run.mem = "DEDUPLICATION_IN_PROGRESS"

\* A set that is not there has no images, and nothing works on it.
Absent ==
  \A d \in Sets : state[d] = None => Rows(d) = {} /\ upload.ds # d /\ ~RunOf(d)

\* What is left to encode has no embedding; its rows are there, unless they were cleared.
Left ==
  run.pc = "encode" =>
    \A k \in DOMAIN run.todo :
      /\ row[run.ds][k] = None => run.lost
      /\ row[run.ds][k] # None => row[run.ds][k].embedding = None

GroupShape == Typed /\ Pace /\ Absent /\ Left

\* What the requests under way have read: a clear never saw an approved set.
Slots ==
  /\ late \in [ds : Sets \cup {None}, endpoint : DOMAIN Admits \cup {None}]
  /\ clear \in [ds : Sets \cup {None}, seen : (State \ {"APPROVED"}) \cup {None},
                deleted : BOOLEAN]
  /\ clear.deleted => clear.ds \in Sets
  /\ change \in [pc : {"idle", "checked", "read"}, settings : Configs \cup {None},
                 ds : Sets \cup {None}]
  /\ change.pc # "idle" => change.settings \in Configs

USE DEF requests

\* What a run may have left to encode.
LEMMA TodoType ==
  /\ <<>> \in Todos
  /\ \A t \in Todos : DOMAIN t \subseteq Keys /\ \A k \in DOMAIN t : t[k] \in EmptyRow
  /\ \A D \in SUBSET Keys : \A t \in [D -> EmptyRow] : t \in Todos
<1>1. \A D \in SUBSET Keys : \A t \in [D -> EmptyRow] : t \in Todos
  BY DEF Todos
<1>2. \A t \in Todos : DOMAIN t \subseteq Keys /\ \A k \in DOMAIN t : t[k] \in EmptyRow
  BY DEF Todos
<1>3. <<>> \in [{} -> EmptyRow]
  OBVIOUS
<1> QED
  BY <1>1, <1>2, <1>3

\* The run that is not there.
LEMMA IdleIsTyped ==
  /\ IdleRun \in RunRecord /\ IdleRun.pc = "idle" /\ IdleRun.ds = None /\ IdleRun.lost = FALSE
  /\ None \notin Sets
<1>1. 0 \in 0..Cardinality(Keys)
  BY GroupDataAssumption, FS_CardinalityType
<1>2. None \notin Sets
  BY GroupDataAssumption
<1> QED
  BY <1>1, <1>2, TodoType DEF IdleRun, RunRecord, PCs

\* The invariant holds before anything is created.
LEMMA ShapeInit ==
  Init => GroupShape
<1> SUFFICES ASSUME Init PROVE GroupShape
  OBVIOUS
<1> USE DEF Init
<1>1. \A d \in Sets : Rows(d) = {}
  BY DEF Rows
<1>2. \A d \in Sets : upload.ds # d /\ ~RunOf(d)
  BY IdleIsTyped DEF IdleUpload, RunOf
<1>3. Typed
  BY IdleIsTyped DEF Typed, Rowset, IdleUpload
<1>4. Pace
  BY IdleIsTyped DEF Pace, Reading
<1>5. Left
  BY IdleIsTyped DEF Left
<1> QED
  BY <1>1, <1>2, <1>3, <1>4, <1>5 DEF GroupShape, Absent

\* clear_embeddings_data leaves the rows and their filenames, and no verdict on them.
LEMMA EmbeddingsDropped ==
  ASSUME Typed, NEW d \in Sets, NEW r, r = WithoutEmbeddings(d)
  PROVE  /\ r \in [Sets -> Rowset]
         /\ \A x \in Sets \ {d} : r[x] = row[x]
         /\ \A k \in Keys : /\ r[d][k] = None <=> row[d][k] = None
                            /\ r[d][k] # None => r[d][k].embedding = None /\ r[d][k].code = None
<1> DEFINE new == [k \in Keys |-> IF k \in Rows(d)
                              THEN [row[d][k] EXCEPT !.embedding = None, !.code = None] ELSE None]
<1>1. r = [row EXCEPT ![d] = new]
  BY DEF WithoutEmbeddings
<1>2. None \notin Row
  BY GroupDataAssumption
<1>3. ASSUME NEW k \in Keys
      PROVE  /\ new[k] \in Row \cup {None}
             /\ new[k] = None <=> row[d][k] = None
             /\ new[k] # None => new[k].embedding = None /\ new[k].code = None
  <2>1. row[d][k] \in Row \cup {None}
    BY DEF Typed, Rowset
  <2>2. CASE row[d][k] = None
    BY <2>2 DEF Rows
  <2>3. CASE row[d][k] # None
    <3>1. row[d][k] \in Row /\ new[k] = [row[d][k] EXCEPT !.embedding = None, !.code = None]
      BY <2>1, <2>3 DEF Rows
    <3>2. new[k] \in Row /\ new[k].embedding = None /\ new[k].code = None
      BY <3>1 DEF Row
    <3> QED BY <3>2, <2>3, <1>2
  <2> QED BY <2>2, <2>3
<1>4. new \in Rowset
  BY <1>3 DEF Rowset
<1> HIDE DEF new
<1> QED
  BY <1>1, <1>3, <1>4 DEF Typed

\* The sets that are there after a step were there before, or are created.
LEMMA AbsentKept ==
  ASSUME GroupShape,
         \A x \in Sets : state'[x] = None => /\ state[x] = None
                                             /\ upload'.ds # x \/ upload'.ds = upload.ds
                                             /\ run'.ds # x \/ run'.ds = run.ds
                                             /\ row'[x] = row[x]
  PROVE  Absent'
<1> SUFFICES ASSUME NEW x \in Sets, state'[x] = None
             PROVE  Rows(x)' = {} /\ upload'.ds # x /\ ~RunOf(x)'
  BY DEF Absent
<1>1. Rows(x) = {} /\ upload.ds # x /\ ~RunOf(x)
  BY DEF GroupShape, Absent
<1>2. Rows(x)' = Rows(x)
  BY DEF Rows
<1> QED
  BY <1>1, <1>2 DEF RunOf

\* A step that is not the run's leaves what it has to encode as it is.
LEMMA ShapeKept ==
  ASSUME GroupShape, Typed', Absent', run' = run,
         \A k \in Keys : RunOf(run.ds) /\ run.ds \in Sets =>
           /\ row'[run.ds][k] = None => row[run.ds][k] = None
           /\ row'[run.ds][k] # None =>
                \/ row'[run.ds][k].embedding = None
                \/ /\ row[run.ds][k] # None
                   /\ row'[run.ds][k].embedding = row[run.ds][k].embedding
  PROVE  GroupShape'
<1>1. Pace'
  BY DEF GroupShape, Pace, Reading, Config
<1>2. Left'
  <2> SUFFICES ASSUME run.pc = "encode", NEW k \in DOMAIN run.todo
               PROVE  /\ row'[run.ds][k] = None => run.lost
                      /\ row'[run.ds][k] # None => row'[run.ds][k].embedding = None
    BY DEF Left
  <2>1. run.ds \in Sets /\ k \in Keys
    BY TodoType DEF GroupShape, Pace, Typed, RunRecord
  <2> QED BY <2>1 DEF GroupShape, Left, RunOf
<1> QED
  BY <1>1, <1>2 DEF GroupShape

\* A step that leaves the rows and the run alone.
LEMMA SameRowsKept ==
  ASSUME GroupShape, Typed', Absent', run' = run, row' = row
  PROVE  GroupShape'
BY ShapeKept

\* null is no set, state, status, row or embedding.
LEMMA NoneApart ==
  None \notin Sets /\ None \notin State /\ None \notin StatusCode /\ None \notin Row /\ None \notin Embedding
BY GroupDataAssumption

\* A step that only moves a set: Create, Ready, Judge, and the admin's that keep the rows.
LEMMA ShapeMoved ==
  ASSUME GroupShape, UNCHANGED <<actors, row, upload, run>>, NEW d \in Sets, NEW target \in State,
         state' = [state EXCEPT ![d] = target],
         finding' \in SUBSET finding, disturbed' \in SUBSET Sets, settings' = settings
  PROVE  GroupShape'
<1>1. Typed'
  BY DEF GroupShape, Typed
<1>2. Absent'
  <2>1. \A x \in Sets : state'[x] = None => state[x] = None
    BY NoneApart DEF GroupShape, Typed
  <2> QED BY <2>1, AbsentKept
<1> QED
  BY <1>1, <1>2, SameRowsKept

\* The sets whose findings name an approved set are sets.
LEMMA PartnersAreSets ==
  ASSUME Typed, NEW d
  PROVE  Partners(d) \in SUBSET Sets
BY DEF Partners, Typed, Finding

\* Requests and actions that only move a set.
LEMMA ShapeCreate ==
  ASSUME GroupShape, UNCHANGED actors, NEW d \in Sets, Create(d)
  PROVE  GroupShape'
BY ShapeMoved DEF Create, State, GroupShape, Typed

\* Sets that are disturbed are sets.
LEMMA DisturbedAreSets ==
  ASSUME Typed, NEW D \in SUBSET Sets, Disturb(D)
  PROVE  disturbed' \in SUBSET Sets
BY DEF Typed, Disturb

\* The sets a late request disturbs.
LEMMA OvertakenAreSets ==
  ASSUME Typed, NEW d \in Sets, NEW endpoint
  PROVE  Overtaken(d, endpoint) \in SUBSET Sets
BY PartnersAreSets DEF Overtaken

\* The upload is complete.
LEMMA ShapeReady ==
  ASSUME GroupShape, UNCHANGED actors, NEW d \in Sets, Ready(d)
  PROVE  GroupShape'
<1>1. disturbed' \in SUBSET Sets
  BY OvertakenAreSets, DisturbedAreSets DEF Ready, GroupShape
<1>2. /\ state' = [state EXCEPT ![d] = "READY"]
      /\ UNCHANGED <<row, finding, settings, upload, run>>
  BY DEF Ready, Admitted
<1> QED
  BY <1>1, <1>2, ShapeMoved DEF State

\* Approve and reject.
LEMMA ShapeJudge ==
  ASSUME GroupShape, UNCHANGED actors, NEW d \in Sets,
         NEW verdict \in {"APPROVED", "REJECTED"}, Judge(d, verdict)
  PROVE  GroupShape'
<1> DEFINE D == IF state[d] = "DEDUPLICATED"
                THEN {e \in {d} : ~GroupIsFree}
                ELSE {d} \cup Partners(d)
                       \cup {e \in Sets : state[e] = "DEDUPLICATED" \/ RunOf(e)}
<1>1. D \in SUBSET Sets
  BY PartnersAreSets DEF GroupShape
<1>2. /\ state' = [state EXCEPT ![d] = verdict] /\ Disturb(D)
      /\ UNCHANGED <<row, finding, settings, upload, run>>
  BY DEF Judge, Admitted
<1> HIDE DEF D
<1>3. disturbed' \in SUBSET Sets
  BY <1>1, <1>2, DisturbedAreSets DEF GroupShape
<1> QED
  BY <1>2, <1>3, ShapeMoved DEF State

\* "Remove" of the findings.
LEMMA ShapeAdminRemoveFindings ==
  ASSUME GroupShape, UNCHANGED actors, NEW d \in Sets, AdminRemoveFindings(d)
  PROVE  GroupShape'
<1>1. Partners(d) \in SUBSET Sets
  BY PartnersAreSets DEF GroupShape
<1>2. /\ state' = [state EXCEPT ![d] = "ENCODED"] /\ finding' \in SUBSET finding
      /\ disturbed' \in SUBSET Sets
      /\ UNCHANGED <<row, settings, upload, run>>
  BY <1>1 DEF AdminRemoveFindings, Disturb, GroupShape, Typed
<1> QED
  BY <1>2, ShapeMoved DEF State

\* An upload works on a set that is there.
LEMMA ShapeBeginUpload ==
  ASSUME GroupShape, UNCHANGED actors, NEW d \in Sets, BeginUpload(d)
  PROVE  GroupShape'
<1>1. /\ upload' = [ds |-> d, seen |-> state[d]] /\ Uploading(d)
      /\ UNCHANGED <<state, row, finding, settings, run, disturbed>>
  BY DEF BeginUpload
<1>2. state[d] \in State
  BY <1>1 DEF Uploading, State
<1>3. Typed'
  BY <1>1, <1>2 DEF GroupShape, Typed
<1>4. Absent'
  <2>1. upload'.ds = d /\ state[d] # None
    BY <1>1, <1>2, NoneApart
  <2> QED BY <1>1, <2>1, AbsentKept
<1> QED
  BY <1>1, <1>3, <1>4, SameRowsKept

\* The settings form.
LEMMA ShapeAdminSettings ==
  ASSUME GroupShape, UNCHANGED actors, NEW s \in Configs, AdminSettings(s)
  PROVE  GroupShape'
<1>1. /\ settings' = s /\ disturbed' \in SUBSET Sets
      /\ UNCHANGED <<state, row, finding, upload, run>>
  BY DEF AdminSettings, Disturb, GroupShape, Typed
<1>2. Typed'
  BY <1>1 DEF GroupShape, Typed
<1>3. Absent'
  BY <1>1, AbsentKept
<1> QED
  BY <1>1, <1>2, <1>3, SameRowsKept

\* The cleanup takes the findings of a judged set.
LEMMA ShapeCleanupFindings ==
  ASSUME GroupShape, UNCHANGED actors, NEW d \in Sets, CleanupFindings(d)
  PROVE  GroupShape'
<1>1. finding' \in SUBSET finding /\ UNCHANGED <<state, row, settings, upload, run, disturbed>>
  BY DEF CleanupFindings
<1>2. Typed'
  BY <1>1 DEF GroupShape, Typed
<1>3. Absent'
  BY <1>1, AbsentKept
<1> QED
  BY <1>1, <1>2, <1>3, SameRowsKept

\* The cleanup takes a rejected set without images; nothing works on it.
LEMMA ShapeCleanupSet ==
  ASSUME GroupShape, UNCHANGED actors, NEW d \in Sets, CleanupSet(d)
  PROVE  GroupShape'
<1>1. /\ state' = [state EXCEPT ![d] = None] /\ finding' \in SUBSET finding
      /\ disturbed' \in SUBSET Sets /\ UNCHANGED <<row, settings, upload, run>>
      /\ upload.ds # d /\ ~RunOf(d) /\ Rows(d) = {}
  BY DEF CleanupSet, Old, GroupShape, Typed
<1>2. Typed'
  BY <1>1 DEF GroupShape, Typed
<1>3. Absent'
  <2> SUFFICES ASSUME NEW x \in Sets, state'[x] = None
               PROVE  Rows(x)' = {} /\ upload'.ds # x /\ ~RunOf(x)'
    BY DEF Absent
  <2>1. Rows(x) = {} /\ upload.ds # x /\ ~RunOf(x)
    BY <1>1 DEF GroupShape, Absent, Typed
  <2> QED BY <1>1, <2>1 DEF Rows, RunOf
<1> QED
  BY <1>1, <1>2, <1>3, SameRowsKept

\* The cleanup takes the images of a rejected set; no run works on them.
LEMMA ShapeCleanupEncodings ==
  ASSUME GroupShape, UNCHANGED actors, NEW d \in Sets, CleanupEncodings(d)
  PROVE  GroupShape'
<1> DEFINE none == [k \in Keys |-> None]
<1>1. /\ row' = [row EXCEPT ![d] = none] /\ finding' \in SUBSET finding
      /\ UNCHANGED <<state, settings, upload, run, disturbed>>
      /\ ~RunOf(d) /\ state[d] = "REJECTED"
  BY DEF CleanupEncodings, WithoutEncodings, Old
<1>2. none \in Rowset
  BY DEF Rowset
<1> HIDE DEF none
<1>3. Typed' /\ \A x \in Sets \ {d} : row'[x] = row[x]
  BY <1>1, <1>2 DEF GroupShape, Typed
<1>4. Absent'
  BY <1>1, <1>3, AbsentKept, NoneApart DEF State
<1>5. run.ds \in Sets => row'[run.ds] = row[run.ds]
  BY <1>1, <1>3 DEF RunOf
<1> QED
  BY <1>1, <1>3, <1>4, <1>5, ShapeKept

\* Requests that only read, and those that fail.
LEMMA ShapeReads ==
  ASSUME GroupShape,
         UNCHANGED <<actors, state, row, finding, settings, upload, run, disturbed>>
  PROVE  GroupShape'
<1>1. Typed'
  BY DEF GroupShape, Typed
<1>2. Absent'
  BY AbsentKept
<1> QED
  BY <1>1, <1>2, SameRowsKept

\* A clear writes the state.
LEMMA ShapeWriteEmpty ==
  ASSUME GroupShape, Slots, UNCHANGED actors, WriteEmpty
  PROVE  GroupShape'
<1> DEFINE d == clear.ds
<1>1. /\ d \in Sets /\ state' = [state EXCEPT ![d] = "EMPTY"]
      /\ UNCHANGED <<row, finding, settings, upload, run>>
  BY DEF WriteEmpty, Slots
<1>2. disturbed' \in SUBSET Sets
  <2>1. Partners(d) \in SUBSET Sets /\ disturbed \in SUBSET Sets
    BY PartnersAreSets DEF GroupShape, Typed
  <2>2. disturbed' \in SUBSET (disturbed \cup {d} \cup Partners(d))
    BY DEF WriteEmpty
  <2> QED BY <1>1, <2>1, <2>2
<1> QED
  BY <1>1, <1>2, ShapeMoved DEF State

\* A settings change commits: the set it cleared keeps its rows.
LEMMA ShapeCommitSettings ==
  ASSUME GroupShape, Slots, UNCHANGED actors, CommitSettings
  PROVE  GroupShape'
<1> DEFINE d == change.ds
<1>1. settings' \in Configs /\ d \in Sets \cup {None} /\ UNCHANGED <<upload, run>>
  BY DEF CommitSettings, Slots
<1>2. KeepEmbeddings \in SUBSET Sets /\ Partners(d) \in SUBSET Sets
  BY PartnersAreSets DEF KeepEmbeddings, GroupShape
<1>3. disturbed' \in SUBSET Sets
  <2>1. \E D \in SUBSET Sets : Disturb(D)
    <3>1. KeepEmbeddings \in SUBSET Sets
          /\ (KeepEmbeddings \ {d}) \cup Partners(d) \in SUBSET Sets
      BY <1>2
    <3> QED BY <3>1 DEF CommitSettings
  <2> QED BY <2>1, DisturbedAreSets DEF GroupShape
<1>4. CASE UNCHANGED <<state, row, finding>>
  <2>1. Typed'
    BY <1>1, <1>3, <1>4 DEF GroupShape, Typed
  <2>2. Absent'
    BY <1>1, <1>4, AbsentKept
  <2> QED BY <1>1, <1>4, <2>1, <2>2, SameRowsKept
<1>5. ASSUME d # None, state' = [state EXCEPT ![d] = "READY"], row' = WithoutEmbeddings(d),
             finding' = finding \ FindingsOf(d)
      PROVE  GroupShape'
  <2>1. d \in Sets
    BY <1>1, <1>5
  <2>2. /\ row' \in [Sets -> Rowset] /\ \A x \in Sets \ {d} : row'[x] = row[x]
        /\ \A k \in Keys : /\ row'[d][k] = None <=> row[d][k] = None
                           /\ row'[d][k] # None => row'[d][k].embedding = None
    BY <1>5, <2>1, EmbeddingsDropped DEF GroupShape
  <2>3. Typed'
    BY <1>1, <1>3, <1>5, <2>2 DEF GroupShape, Typed, State
  <2>4. Absent'
    <3>1. \A x \in Sets : state'[x] = None => x # d /\ state[x] = None
      BY <1>5, <2>1, NoneApart DEF GroupShape, Typed, State
    <3> QED BY <1>1, <2>2, <3>1, AbsentKept
  <2>5. \A x \in Sets : \A k \in Keys :
          /\ row'[x][k] = None => row[x][k] = None
          /\ row'[x][k] # None =>
               \/ row'[x][k].embedding = None
               \/ row[x][k] # None /\ row'[x][k].embedding = row[x][k].embedding
    BY <2>2
  <2> QED BY <1>1, <2>3, <2>4, <2>5, ShapeKept
<1> QED
  BY <1>4, <1>5 DEF CommitSettings

\* "Clear Embeddings" keeps the rows a run has left to encode.
LEMMA ShapeAdminClearEmbeddings ==
  ASSUME GroupShape, UNCHANGED actors, NEW d \in Sets, AdminClearEmbeddings(d)
  PROVE  GroupShape'
<1>1. /\ state' = [state EXCEPT ![d] = "READY"] /\ row' = WithoutEmbeddings(d)
      /\ finding' \in SUBSET finding /\ UNCHANGED <<settings, upload, run>>
  BY DEF AdminClearEmbeddings
<1>2. disturbed' \in SUBSET Sets
  BY PartnersAreSets DEF AdminClearEmbeddings, Disturb, GroupShape, Typed
<1>3. /\ row' \in [Sets -> Rowset] /\ \A x \in Sets \ {d} : row'[x] = row[x]
      /\ \A k \in Keys : /\ row'[d][k] = None <=> row[d][k] = None
                         /\ row'[d][k] # None => row'[d][k].embedding = None
  BY <1>1, EmbeddingsDropped DEF GroupShape
<1>4. Typed'
  BY <1>1, <1>2, <1>3 DEF GroupShape, Typed, State
<1>5. Absent'
  <2>1. \A x \in Sets : state'[x] = None => x # d /\ state[x] = None
    BY <1>1, NoneApart DEF GroupShape, Typed, State
  <2> QED BY <1>1, <1>3, <2>1, AbsentKept
<1>6. \A x \in Sets : \A k \in Keys :
        /\ row'[x][k] = None => row[x][k] = None
        /\ row'[x][k] # None =>
             \/ row'[x][k].embedding = None
             \/ row[x][k] # None /\ row'[x][k].embedding = row[x][k].embedding
  BY <1>3
<1> QED
  BY <1>1, <1>4, <1>5, <1>6, ShapeKept

\* An upload writes one row and keeps its embedding.
LEMMA ShapeFinishUpload ==
  ASSUME GroupShape, UNCHANGED actors, FinishUpload
  PROVE  GroupShape'
<1> DEFINE d == upload.ds
<1>1. /\ d \in Sets /\ state[d] # None /\ upload' = IdleUpload
      /\ UNCHANGED <<finding, settings, run>> /\ IdleUpload.ds = None
  BY DEF FinishUpload, GroupShape, Typed, Absent, IdleUpload
<1>2. disturbed' \in SUBSET Sets
  BY <1>1, PartnersAreSets DEF FinishUpload, Disturb, GroupShape, Typed
<1>3. /\ state' \in [Sets -> State \cup {None}]
      /\ \A x \in Sets : state'[x] = None => state[x] = None
  BY <1>1, NoneApart DEF FinishUpload, GroupShape, Typed, State
<1>4. CASE UNCHANGED row
  <2>1. Typed'
    BY <1>1, <1>2, <1>3, <1>4 DEF GroupShape, Typed, IdleUpload
  <2>2. Absent'
    BY <1>1, <1>3, <1>4, AbsentKept, NoneApart
  <2> QED BY <1>1, <1>4, <2>1, <2>2, SameRowsKept
<1>5. ASSUME NEW k \in Keys, NEW i \in Offered[d][k],
             row' = [row EXCEPT ![d][k] =
                       IF @ = None
                       THEN [filename |-> i, embedding |-> None, code |-> None, scores |-> None]
                       ELSE [@ EXCEPT !.filename = i]]
      PROVE  GroupShape'
  <2> DEFINE new == IF row[d][k] = None
                    THEN [filename |-> i, embedding |-> None, code |-> None, scores |-> None]
                    ELSE [row[d][k] EXCEPT !.filename = i]
  <2>1. i \in Images
    BY <1>1, GroupDataAssumption
  <2>2. /\ new \in Row
        /\ row[d][k] = None => new.embedding = None
        /\ row[d][k] # None => new.embedding = row[d][k].embedding
    <3>1. row[d][k] \in Row \cup {None}
      BY <1>1 DEF GroupShape, Typed, Rowset
    <3> QED BY <2>1, <3>1 DEF Row
  <2>3. row' = [row EXCEPT ![d][k] = new]
    BY <1>5
  <2> HIDE DEF new
  <2>4. /\ row' \in [Sets -> Rowset] /\ \A x \in Sets \ {d} : row'[x] = row[x]
        /\ \A j \in Keys \ {k} : row'[d][j] = row[d][j]
        /\ row'[d][k] = new
    BY <1>1, <2>2, <2>3 DEF GroupShape, Typed, Rowset
  <2>5. Typed'
    BY <1>1, <1>2, <1>3, <2>4 DEF GroupShape, Typed, IdleUpload
  <2>6. Absent'
    <3>1. \A x \in Sets : state'[x] = None => row'[x] = row[x]
      BY <1>1, <1>3, <2>4
    <3> QED BY <1>1, <1>3, <3>1, AbsentKept, NoneApart
  <2>7. \A x \in Sets : \A j \in Keys :
          /\ row'[x][j] = None => row[x][j] = None
          /\ row'[x][j] # None =>
               \/ row'[x][j].embedding = None
               \/ row[x][j] # None /\ row'[x][j].embedding = row[x][j].embedding
    BY <2>2, <2>4, NoneApart
  <2> QED BY <1>1, <2>5, <2>6, <2>7, ShapeKept
<1> QED
  BY <1>4, <1>5 DEF FinishUpload

-----------------------------------------------------------------------------
(***************************************************************************)
(* Runs.                                                                   *)
(***************************************************************************)
\* A run that begins knows nothing yet; its object in memory is at the given state.
Begun(d, e, m) ==
  [IdleRun EXCEPT !.pc = "begin", !.ds = d, !.encode_only = e, !.mem = m]

\* The run after the call, before it read anything.
LEMMA BegunIsTyped ==
  ASSUME NEW d \in Sets, NEW e \in BOOLEAN, NEW m \in State
  PROVE  Begun(d, e, m) \in RunRecord
<1>1. IdleRun \in RunRecord
  BY IdleIsTyped
<1> QED
  BY <1>1 DEF Begun, RunRecord, PCs

\* A run begins: Process, and the actions of the admin that start one.
LEMMA ShapeBegun ==
  ASSUME GroupShape, Typed', NEW d \in Sets, run'.pc = "begin", run'.ds = d,
         run'.mem \in State, state'[d] # None, upload' = upload,
         \A x \in Sets : state'[x] = None => state[x] = None /\ row'[x] = row[x]
  PROVE  GroupShape'
<1>2. Pace'
  BY DEF Pace, Reading
<1>3. Left'
  BY DEF Left
<1>4. Absent'
  BY AbsentKept
<1> QED
  BY <1>2, <1>3, <1>4 DEF GroupShape

\* Process starts a run.
LEMMA ShapeProcess ==
  ASSUME GroupShape, UNCHANGED actors, NEW d \in Sets, Process(d)
  PROVE  GroupShape'
<1>1. /\ state' = [state EXCEPT ![d] = "ENCODING_IN_PROGRESS"]
      /\ UNCHANGED <<row, finding, settings, upload>> /\ disturbed' \in SUBSET Sets
  BY OvertakenAreSets, DisturbedAreSets DEF Process, Admitted, GroupShape
<1>2. PICK e \in BOOLEAN : run' = Begun(d, e, "ENCODING_IN_PROGRESS")
  BY DEF Process, StartRun, Begun
<1>3. "ENCODING_IN_PROGRESS" \in State
  BY DEF State
<1>4. /\ run' \in RunRecord
      /\ run'.pc = "begin" /\ run'.ds = d /\ run'.mem \in State
  <2>1. run' \in RunRecord
    BY <1>2, <1>3, BegunIsTyped
  <2>2. run'.pc = "begin" /\ run'.ds = d /\ run'.mem \in State
    BY <1>2, <1>3 DEF Begun, IdleRun
  <2> QED BY <2>1, <2>2
<1>5. Typed'
  BY <1>1, <1>3, <1>4 DEF GroupShape, Typed
<1>6. state'[d] # None /\ \A x \in Sets : state'[x] = None => state[x] = None
  BY <1>1, <1>3, NoneApart DEF GroupShape, Typed
<1> QED
  BY <1>1, <1>4, <1>5, <1>6, ShapeBegun

\* "Encode" starts a run.
LEMMA ShapeAdminEncode ==
  ASSUME GroupShape, UNCHANGED actors, NEW d \in Sets, AdminEncode(d)
  PROVE  GroupShape'
<1>1. /\ state' = [state EXCEPT ![d] = "ENCODING_IN_PROGRESS"] /\ row' = WithoutEmbeddings(d)
      /\ finding' \in SUBSET finding /\ UNCHANGED <<settings, upload>>
      /\ run' = Begun(d, TRUE, "ENCODING_IN_PROGRESS")
  BY DEF AdminEncode, StartRun, Begun
<1>2. disturbed' \in SUBSET Sets
  BY PartnersAreSets DEF AdminEncode, Disturb, GroupShape, Typed
<1>3. "ENCODING_IN_PROGRESS" \in State
  BY DEF State
<1>4. /\ run' \in RunRecord
      /\ run'.pc = "begin" /\ run'.ds = d /\ run'.mem \in State
  <2>1. run' \in RunRecord
    BY <1>1, <1>3, BegunIsTyped
  <2>2. run'.pc = "begin" /\ run'.ds = d /\ run'.mem \in State
    BY <1>1, <1>3 DEF Begun, IdleRun
  <2> QED BY <2>1, <2>2
<1>5. row' \in [Sets -> Rowset] /\ \A x \in Sets \ {d} : row'[x] = row[x]
  BY <1>1, EmbeddingsDropped DEF GroupShape
<1>6. Typed'
  BY <1>1, <1>2, <1>3, <1>4, <1>5 DEF GroupShape, Typed
<1>7. state'[d] # None /\ \A x \in Sets : state'[x] = None => state[x] = None /\ x # d
  BY <1>1, <1>3, NoneApart DEF GroupShape, Typed
<1> QED
  BY <1>1, <1>4, <1>5, <1>6, <1>7, ShapeBegun

\* "Deduplicate" starts a run.
LEMMA ShapeAdminDeduplicate ==
  ASSUME GroupShape, UNCHANGED actors, NEW d \in Sets, AdminDeduplicate(d)
  PROVE  GroupShape'
<1>1. /\ state' = [state EXCEPT ![d] = "ENCODING_IN_PROGRESS"]
      /\ finding' \in SUBSET finding /\ UNCHANGED <<row, settings, upload>>
      /\ run' = Begun(d, FALSE, "ENCODING_IN_PROGRESS")
  BY DEF AdminDeduplicate, StartRun, Begun
<1>2. disturbed' \in SUBSET Sets
  BY PartnersAreSets DEF AdminDeduplicate, Disturb, GroupShape, Typed
<1>3. "ENCODING_IN_PROGRESS" \in State
  BY DEF State
<1>4. /\ run' \in RunRecord
      /\ run'.pc = "begin" /\ run'.ds = d /\ run'.mem \in State
  <2>1. run' \in RunRecord
    BY <1>1, <1>3, BegunIsTyped
  <2>2. run'.pc = "begin" /\ run'.ds = d /\ run'.mem \in State
    BY <1>1, <1>3 DEF Begun, IdleRun
  <2> QED BY <2>1, <2>2
<1>6. Typed'
  BY <1>1, <1>2, <1>3, <1>4 DEF GroupShape, Typed
<1>7. state'[d] # None /\ \A x \in Sets : state'[x] = None => state[x] = None
  BY <1>1, <1>3, NoneApart DEF GroupShape, Typed
<1> QED
  BY <1>1, <1>4, <1>6, <1>7, ShapeBegun

\* A redelivered message starts the run over.
LEMMA ShapeRestart ==
  ASSUME GroupShape, UNCHANGED actors, Restart
  PROVE  GroupShape'
<1>1. /\ run.pc # "idle" /\ run' = Begun(run.ds, run.encode_only, state[run.ds])
      /\ UNCHANGED <<state, row, finding, settings, upload>>
  BY DEF Restart, Begun
<1>2. run.ds \in Sets /\ run.encode_only \in BOOLEAN
  BY <1>1 DEF GroupShape, Pace, Typed, RunRecord
<1>3. state[run.ds] \in State
  BY <1>2 DEF GroupShape, Absent, Typed, RunOf
<1>4. disturbed' \in SUBSET Sets
  BY <1>2 DEF Restart, Disturb, GroupShape, Typed
<1>5. /\ run' \in RunRecord
      /\ run'.pc = "begin" /\ run'.ds = run.ds /\ run'.mem \in State
  <2>1. run' \in RunRecord
    BY <1>1, <1>2, <1>3, BegunIsTyped
  <2>2. run'.pc = "begin" /\ run'.ds = run.ds /\ run'.mem \in State
    BY <1>1, <1>2, <1>3 DEF Begun, IdleRun
  <2> QED BY <2>1, <2>2
<1>6. Typed'
  BY <1>1, <1>4, <1>5 DEF GroupShape, Typed
<1> QED
  BY <1>1, <1>2, <1>3, <1>5, <1>6, NoneApart, ShapeBegun

\* Clear takes the rows from under a run, which is lost then.
LEMMA ShapeDeleteEncodings ==
  ASSUME GroupShape, Slots, UNCHANGED actors, DeleteEncodings
  PROVE  GroupShape'
<1> DEFINE d == clear.ds
           none == [k \in Keys |-> None]
<1>1. /\ d \in Sets /\ row' = [row EXCEPT ![d] = none] /\ finding' \in SUBSET finding
      /\ UNCHANGED <<state, settings, upload>>
      /\ run' = [run EXCEPT !.lost = run.lost \/ RunOf(d)]
  BY DEF DeleteEncodings, WithoutEncodings, Slots
<1>2. disturbed' \in SUBSET Sets
  BY <1>1 DEF DeleteEncodings, Disturb, GroupShape, Typed
<1>3. none \in Rowset
  BY DEF Rowset
<1> HIDE DEF none
<1>4. row' \in [Sets -> Rowset] /\ row'[d] = none /\ \A x \in Sets \ {d} : row'[x] = row[x]
  BY <1>1, <1>3 DEF GroupShape, Typed
<1>6. run.lost \/ RunOf(d) \in BOOLEAN
  BY DEF GroupShape, Typed, RunRecord, RunOf
<1>7. /\ run' \in RunRecord /\ run'.lost = (run.lost \/ RunOf(d))
      /\ run'.pc = run.pc /\ run'.ds = run.ds /\ run'.mem = run.mem /\ run'.todo = run.todo
      /\ run'.config = run.config
  BY <1>1, <1>6 DEF GroupShape, Typed, RunRecord
<1>8. Typed'
  BY <1>1, <1>2, <1>4, <1>7 DEF GroupShape, Typed
<1>9. Absent'
  <2> SUFFICES ASSUME NEW x \in Sets, state'[x] = None
               PROVE  Rows(x)' = {} /\ upload'.ds # x /\ ~RunOf(x)'
    BY DEF Absent
  <2>1. Rows(x) = {} /\ upload.ds # x /\ ~RunOf(x)
    BY <1>1 DEF GroupShape, Absent
  <2>2. \A k \in Keys : row'[x][k] = None
    BY <1>1, <1>4, <2>1 DEF Rows, none
  <2> QED BY <1>1, <1>7, <2>1, <2>2 DEF Rows, RunOf
<1>10. Pace'
  <2>1. run.pc = "idle" => run' = run
    <3> SUFFICES ASSUME run.pc = "idle" PROVE run' = run
      OBVIOUS
    <3>1. run.lost = FALSE /\ ~RunOf(d)
      BY <1>1, IdleIsTyped DEF GroupShape, Pace, RunOf
    <3> QED BY <1>1, <3>1 DEF GroupShape, Typed, RunRecord
  <2> QED BY <1>7, <2>1 DEF GroupShape, Pace, Config
<1>11. Left'
  <2> SUFFICES ASSUME run.pc = "encode", NEW k \in DOMAIN run.todo
               PROVE  /\ row'[run.ds][k] = None => run'.lost
                      /\ row'[run.ds][k] # None => row'[run.ds][k].embedding = None
    BY <1>7 DEF Left
  <2>1. run.ds \in Sets /\ k \in Keys
    BY TodoType DEF GroupShape, Pace, Typed, RunRecord
  <2>2. CASE run.ds = d
    <3>1. row'[run.ds][k] = None /\ run'.lost
      BY <1>4, <1>7, <2>1, <2>2 DEF RunOf, none
    <3> QED BY <3>1
  <2>3. CASE run.ds # d
    BY <1>4, <1>7, <2>1, <2>3 DEF GroupShape, Left
  <2> QED BY <2>2, <2>3
<1> QED
  BY <1>8, <1>9, <1>10, <1>11 DEF GroupShape

\* The steps of the run that touch no row and no finding.
LEMMA ShapeRun ==
  ASSUME GroupShape, UNCHANGED <<actors, row, upload, settings>>, run.pc # "idle",
         finding' \in SUBSET Finding, disturbed' \in SUBSET Sets,
         run' \in RunRecord, run'.ds = run.ds, run'.pc \notin {"idle", "encode"},
         state' = state \/ \E s \in State : state' = [state EXCEPT ![run.ds] = s],
         run'.mem \in State,
         run'.pc \in Reading => run'.config \in Config,
         run'.pc = "start_dedupe" => run'.mem = "ENCODED",
         run'.pc \in {"count", "compare", "deduped"} => run'.mem = "DEDUPLICATION_IN_PROGRESS"
  PROVE  GroupShape'
<1>1. run.ds \in Sets
  BY DEF GroupShape, Pace
<1>2. /\ state' \in [Sets -> State \cup {None}]
      /\ \A x \in Sets : state'[x] = None => state[x] = None
  BY <1>1, NoneApart DEF GroupShape, Typed
<1>3. Typed'
  BY <1>2 DEF GroupShape, Typed
<1>4. Absent'
  BY <1>2, AbsentKept
<1>5. Pace'
  BY <1>1 DEF Pace, Config
<1>6. Left'
  BY DEF Left
<1> QED
  BY <1>3, <1>4, <1>5, <1>6 DEF GroupShape

\* The end of a run, with an error or without, recorded or not.
LEMMA ShapeFinish ==
  ASSUME GroupShape, UNCHANGED actors, Finish \/ Fail \/ Killed
  PROVE  GroupShape'
<1>1. /\ run.pc # "idle" /\ run' = IdleRun
      /\ UNCHANGED <<row, finding, settings, upload, disturbed>>
  BY DEF Finish, Fail, Killed
<1>2. run.ds \in Sets
  BY <1>1 DEF GroupShape, Pace
<1>3. state' = state \/ \E s \in State : state' = [state EXCEPT ![run.ds] = s]
  BY DEF Finish, Fail, Killed, State
<1>4. /\ state' \in [Sets -> State \cup {None}]
      /\ \A x \in Sets : state'[x] = None => state[x] = None
  BY <1>2, <1>3, NoneApart DEF GroupShape, Typed
<1>5. /\ run' \in RunRecord /\ run'.pc = "idle" /\ \A x \in Sets : run'.ds # x
  BY <1>1, IdleIsTyped
<1>6. Typed'
  BY <1>1, <1>4, <1>5 DEF GroupShape, Typed
<1>7. Absent'
  BY <1>1, <1>4, <1>5, AbsentKept
<1>8. Pace' /\ Left'
  BY <1>1, <1>5 DEF Pace, Left, Reading, Config, IdleRun
<1> QED
  BY <1>6, <1>7, <1>8 DEF GroupShape

\* What set_state by the copy in memory does to the run and the row.
LEMMA AdvanceStep ==
  ASSUME GroupShape, run.pc # "idle", NEW target \in State, NEW next \in PCs \ {"idle", "encode"},
         Advance(target, next)
  PROVE  /\ UNCHANGED <<row, finding, settings, upload, disturbed>>
         /\ run' \in RunRecord /\ run'.ds = run.ds /\ run'.config = run.config
         /\ run'.lost = run.lost /\ run'.todo = run.todo /\ run'.count = run.count
         /\ run'.encode_only = run.encode_only
         /\ \/ /\ Allowed(run.mem, target) /\ Fits(run.ds, target)
               /\ state' = [state EXCEPT ![run.ds] = target]
               /\ run'.mem = target /\ run'.pc = next
            \/ /\ Allowed(run.mem, target) /\ ~Fits(run.ds, target) /\ state' = state
               /\ run'.mem = target /\ run'.pc = "error"
            \/ /\ ~Allowed(run.mem, target) /\ state' = state
               /\ run'.mem = run.mem /\ run'.pc = "error"
<1>1. run.ds \in Sets /\ run.mem \in State /\ run \in RunRecord
  BY DEF GroupShape, Typed, Pace
<1> DEFINE allowed == Allowed(run.mem, target)
           moved == allowed /\ Fits(run.ds, target)
           m == IF allowed THEN target ELSE run.mem
           p == IF moved THEN next ELSE "error"
<1>2. /\ run' = [run EXCEPT !.mem = m, !.pc = p]
      /\ state' = IF moved THEN [state EXCEPT ![run.ds] = target] ELSE state
      /\ UNCHANGED <<row, finding, settings, upload, disturbed>>
  BY DEF Advance
<1>3. m \in State /\ p \in PCs
  BY <1>1 DEF PCs
<1> HIDE DEF m, p
<1>4. /\ run' \in RunRecord /\ run'.mem = m /\ run'.pc = p /\ run'.ds = run.ds
      /\ run'.config = run.config /\ run'.lost = run.lost /\ run'.todo = run.todo
      /\ run'.count = run.count /\ run'.encode_only = run.encode_only
  BY <1>1, <1>2, <1>3 DEF RunRecord
<1>5. CASE moved
  BY <1>2, <1>4, <1>5 DEF m, p
<1>6. CASE allowed /\ ~moved
  BY <1>2, <1>4, <1>6 DEF m, p
<1>7. CASE ~allowed
  BY <1>2, <1>4, <1>7 DEF m, p
<1> QED
  BY <1>5, <1>6, <1>7

\* set_state(ENCODED).
LEMMA ShapeSetEncoded ==
  ASSUME GroupShape, UNCHANGED actors, SetEncoded
  PROVE  GroupShape'
<1> DEFINE next == IF run.encode_only THEN "done" ELSE "start_dedupe"
<1>1. run.pc = "encode" /\ Advance("ENCODED", next)
  BY DEF SetEncoded
<1>2. next \in PCs \ {"idle", "encode"} /\ next \in {"done", "start_dedupe"} /\ "ENCODED" \in State
  BY DEF PCs, State
<1>3. run.config \in Config /\ run.mem \in State
  BY <1>1 DEF GroupShape, Pace, Reading
<1> HIDE DEF next
<1>4. /\ UNCHANGED <<row, finding, settings, upload, disturbed>>
      /\ run' \in RunRecord /\ run'.ds = run.ds /\ run'.config = run.config
      /\ state' = state \/ \E s \in State : state' = [state EXCEPT ![run.ds] = s]
      /\ run'.mem \in State /\ run'.pc \in {next, "error"}
      /\ run'.pc = next => run'.mem = "ENCODED" \/ next = "error"
  BY <1>1, <1>2, <1>3, AdvanceStep
<1> QED
  BY <1>1, <1>2, <1>3, <1>4, ShapeRun DEF GroupShape, Typed

\* set_state(DEDUPLICATION_IN_PROGRESS).
LEMMA ShapeStartDedupe ==
  ASSUME GroupShape, UNCHANGED actors, StartDedupe
  PROVE  GroupShape'
<1>1. run.pc = "start_dedupe" /\ Advance("DEDUPLICATION_IN_PROGRESS", "count")
  BY DEF StartDedupe
<1>2. "count" \in PCs \ {"idle", "encode"} /\ "DEDUPLICATION_IN_PROGRESS" \in State
  BY DEF PCs, State
<1>3. run.config \in Config /\ run.mem \in State
  BY <1>1 DEF GroupShape, Pace, Reading
<1>4. /\ UNCHANGED <<row, finding, settings, upload, disturbed>>
      /\ run' \in RunRecord /\ run'.ds = run.ds /\ run'.config = run.config
      /\ state' = state \/ \E s \in State : state' = [state EXCEPT ![run.ds] = s]
      /\ run'.mem \in State /\ run'.pc \in {"count", "error"}
      /\ run'.pc = "count" => run'.mem = "DEDUPLICATION_IN_PROGRESS"
  BY <1>1, <1>2, <1>3, AdvanceStep
<1> QED
  BY <1>1, <1>3, <1>4, ShapeRun DEF GroupShape, Typed

\* set_state(DEDUPLICATED).
LEMMA ShapeSetDeduplicated ==
  ASSUME GroupShape, UNCHANGED actors, SetDeduplicated
  PROVE  GroupShape'
<1>1. run.pc = "deduped" /\ Advance("DEDUPLICATED", "done")
  BY DEF SetDeduplicated
<1>2. "done" \in PCs \ {"idle", "encode"} /\ "DEDUPLICATED" \in State
  BY DEF PCs, State
<1>3. run.mem \in State
  BY <1>1 DEF GroupShape, Pace
<1>4. /\ UNCHANGED <<row, finding, settings, upload, disturbed>>
      /\ run' \in RunRecord /\ run'.ds = run.ds
      /\ state' = state \/ \E s \in State : state' = [state EXCEPT ![run.ds] = s]
      /\ run'.mem \in State /\ run'.pc \in {"done", "error"}
  BY <1>1, <1>2, <1>3, AdvanceStep
<1> QED
  BY <1>1, <1>4, ShapeRun DEF GroupShape, Typed, Reading

\* A statement raises.
LEMMA ShapeRaise ==
  ASSUME GroupShape, UNCHANGED actors, Raise
  PROVE  GroupShape'
<1>1. /\ run.pc # "idle" /\ run' = [run EXCEPT !.pc = "error"]
      /\ UNCHANGED <<state, row, finding, settings, upload, disturbed>>
  BY DEF Raise
<1>2. /\ run' \in RunRecord /\ run'.pc = "error" /\ run'.ds = run.ds /\ run'.mem = run.mem
  BY <1>1 DEF GroupShape, Typed, RunRecord, PCs
<1>3. run.mem \in State
  BY <1>1 DEF GroupShape, Pace
<1> QED
  BY <1>1, <1>2, <1>3, ShapeRun DEF GroupShape, Typed, Reading

\* dedupe_all counts the embeddings.
LEMMA ShapeCountEmbeddings ==
  ASSUME GroupShape, UNCHANGED actors, CountEmbeddings
  PROVE  GroupShape'
<1> DEFINE n == Cardinality(encodings_with_embeddings(run.ds))
           p == IF n = 0 THEN "deduped" ELSE "compare"
<1>1. /\ run.pc = "count" /\ run' = [run EXCEPT !.pc = p, !.count = n]
      /\ UNCHANGED <<state, row, finding, settings, upload, disturbed>>
  BY DEF CountEmbeddings
<1>2. n \in 0..Cardinality(Keys) /\ p \in {"deduped", "compare"}
  BY EmbeddedIsFinite
<1> HIDE DEF n, p
<1>3. /\ run' \in RunRecord /\ run'.pc = p /\ run'.ds = run.ds /\ run'.mem = run.mem
      /\ run'.config = run.config
  BY <1>1, <1>2 DEF GroupShape, Typed, RunRecord, PCs
<1>4. run.mem \in State /\ run.mem = "DEDUPLICATION_IN_PROGRESS" /\ run.config \in Config
  BY <1>1 DEF GroupShape, Pace, Reading
<1> QED
  BY <1>1, <1>2, <1>3, <1>4, ShapeRun DEF GroupShape, Typed

\* A configuration comes from settings, and goes back to them.
LEMMA ConfigType ==
  ASSUME NEW c \in Config
  PROVE  \E s \in Settings : c = from_deduplication_set(s) /\ as_dict(c) = s
<1>1. PICK s \in Configs : c = from_deduplication_set(s)
  BY DEF Config
<1>2. s \in Settings
  BY GroupDataAssumption
<1> QED
  BY <1>1, <1>2, BackToSettings

\* encode_faces reads the rows it will encode.
LEMMA ShapeReadImages ==
  ASSUME GroupShape, UNCHANGED actors, ReadImages
  PROVE  GroupShape'
<1> DEFINE c == from_deduplication_set(settings)
           D == {k \in Rows(run.ds) : NeedsEncoding(row[run.ds][k])}
           todo == [k \in D |-> row[run.ds][k]]
<1>1. /\ run.pc = "begin"
      /\ run' = [run EXCEPT !.pc = "encode", !.config = c, !.lost = FALSE, !.todo = todo]
      /\ UNCHANGED <<state, row, finding, settings, upload, disturbed>>
  BY DEF ReadImages
<1>2. run.ds \in Sets /\ run.mem \in State /\ run \in RunRecord
  BY <1>1 DEF GroupShape, Pace, Typed
<1>3. c \in Config
  BY DEF GroupShape, Typed, Config
<1>4. D \in SUBSET Keys /\ todo \in [D -> EmptyRow]
  <2>1. ASSUME NEW k \in D PROVE k \in Keys /\ row[run.ds][k] \in EmptyRow
    <3>1. k \in Keys /\ row[run.ds][k] # None /\ row[run.ds][k].embedding = None
      BY DEF Rows, NeedsEncoding
    <3>2. row[run.ds][k] \in Row
      BY <1>2, <3>1 DEF GroupShape, Typed, Rowset
    <3> QED BY <3>1, <3>2 DEF EmptyRow
  <2> QED BY <2>1
<1>5. todo \in Todos /\ DOMAIN todo = D /\ \A k \in D : row[run.ds][k] # None /\ row[run.ds][k].embedding = None
  <2>1. todo \in Todos
    BY <1>4, TodoType
  <2> QED BY <2>1 DEF Rows, NeedsEncoding
<1> HIDE DEF c, D, todo
<1>6. /\ run' \in RunRecord /\ run'.pc = "encode" /\ run'.ds = run.ds /\ run'.mem = run.mem
      /\ run'.config = c /\ run'.todo = todo
  BY <1>1, <1>2, <1>3, <1>5 DEF RunRecord, PCs
<1>7. Typed'
  BY <1>1, <1>6 DEF GroupShape, Typed
<1>8. Absent'
  BY <1>1, <1>6, AbsentKept
<1>9. Pace'
  BY <1>2, <1>3, <1>6 DEF Pace, Config
<1>10. Left'
  BY <1>1, <1>5, <1>6 DEF Left
<1> QED
  BY <1>7, <1>8, <1>9, <1>10 DEF GroupShape

\* One image is written: its row takes what processing made of the copy that was read,
\* under the filename it has by now.
LEMMA EncodeStep ==
  ASSUME GroupShape, NEW k \in Keys, EncodeImage(k)
  PROVE  /\ run.pc = "encode" /\ run.ds \in Sets /\ k \in DOMAIN run.todo
         /\ UNCHANGED <<state, settings, upload, disturbed>>
         /\ run' \in RunRecord /\ run'.ds = run.ds /\ run'.mem = run.mem
         /\ run'.config = run.config /\ run'.lost = run.lost /\ run'.encode_only = run.encode_only
         /\ \/ /\ run.lost /\ run'.pc = "error" /\ UNCHANGED <<row, finding>>
            \/ /\ ~run.lost /\ run'.pc = "encode"
               /\ DOMAIN run'.todo = DOMAIN run.todo \ {k}
               /\ \A j \in DOMAIN run'.todo : run'.todo[j] = run.todo[j]
               /\ row[run.ds][k] # None /\ row[run.ds][k].embedding = None
               /\ row' \in [Sets -> Rowset] /\ \A x \in Sets \ {run.ds} : row'[x] = row[x]
               /\ \A j \in Keys \ {k} : row'[run.ds][j] = row[run.ds][j]
               /\ row'[run.ds][k] # None
               /\ row'[run.ds][k].filename = row[run.ds][k].filename
               /\ row'[run.ds][k].code # None
                    => row'[run.ds][k].code \in StatusCode /\ row'[run.ds][k].embedding = None
               /\ row'[run.ds][k].code = None
                    => row'[run.ds][k].embedding = [image |-> run.todo[k].filename,
                                                    settings |-> as_dict(run.config)]
               /\ finding' = IF row'[run.ds][k].code # None
                             THEN WithErrorFinding(run.ds, k, row'[run.ds][k].code) ELSE finding
<1> DEFINE d == run.ds
<1>1. /\ run.pc = "encode" /\ k \in DOMAIN run.todo
      /\ UNCHANGED <<state, settings, upload, disturbed>>
  BY DEF EncodeImage
<1>2. /\ d \in Sets /\ run.mem \in State /\ run \in RunRecord /\ run.config \in Config
      /\ run.todo \in Todos
  BY <1>1 DEF GroupShape, Pace, Typed, Reading, RunRecord
<1>3. CASE run.lost /\ run' = [run EXCEPT !.pc = "error"] /\ UNCHANGED <<row, finding>>
  <2>1. /\ run' \in RunRecord /\ run'.pc = "error" /\ run'.ds = run.ds /\ run'.mem = run.mem
        /\ run'.config = run.config /\ run'.lost = run.lost /\ run'.encode_only = run.encode_only
    BY <1>2, <1>3 DEF RunRecord, PCs
  <2> QED BY <1>1, <1>2, <1>3, <2>1
<1>4. ASSUME ~run.lost, NEW r \in process_encoding(run.todo[k], run.config, Errors),
             row' = [row EXCEPT ![d][k] = [r EXCEPT !.filename = row[d][k].filename]],
             finding' = IF r.code # None THEN WithErrorFinding(d, k, r.code) ELSE finding,
             run' = [run EXCEPT !.todo = [j \in DOMAIN @ \ {k} |-> @[j]]]
      PROVE  /\ run' \in RunRecord /\ run'.ds = run.ds /\ run'.mem = run.mem
             /\ run'.config = run.config /\ run'.lost = run.lost
             /\ run'.encode_only = run.encode_only /\ run'.pc = "encode"
             /\ DOMAIN run'.todo = DOMAIN run.todo \ {k}
             /\ \A j \in DOMAIN run'.todo : run'.todo[j] = run.todo[j]
             /\ row[d][k] # None /\ row[d][k].embedding = None
             /\ row' \in [Sets -> Rowset] /\ \A x \in Sets \ {d} : row'[x] = row[x]
             /\ \A j \in Keys \ {k} : row'[d][j] = row[d][j]
             /\ row'[d][k] # None
             /\ row'[d][k].filename = row[d][k].filename
             /\ row'[d][k].code # None
                  => row'[d][k].code \in StatusCode /\ row'[d][k].embedding = None
             /\ row'[d][k].code = None
                  => row'[d][k].embedding = [image |-> run.todo[k].filename,
                                             settings |-> as_dict(run.config)]
             /\ finding' = IF row'[d][k].code # None
                           THEN WithErrorFinding(d, k, row'[d][k].code) ELSE finding
  <2> DEFINE todo == [j \in DOMAIN run.todo \ {k} |-> run.todo[j]]
  <2>1. todo \in Todos /\ DOMAIN todo = DOMAIN run.todo \ {k}
        /\ \A j \in DOMAIN todo : todo[j] = run.todo[j]
    <3>1. DOMAIN run.todo \subseteq Keys /\ \A j \in DOMAIN run.todo : run.todo[j] \in EmptyRow
      BY <1>2, TodoType
    <3>2. todo \in [DOMAIN run.todo \ {k} -> EmptyRow] /\ DOMAIN run.todo \ {k} \in SUBSET Keys
      BY <3>1
    <3> QED BY <3>2, TodoType
  <2>2. run' = [run EXCEPT !.todo = todo]
    BY <1>4
  <2> HIDE DEF todo
  <2>3. /\ run' \in RunRecord /\ run'.ds = run.ds /\ run'.mem = run.mem
        /\ run'.config = run.config /\ run'.lost = run.lost
        /\ run'.encode_only = run.encode_only /\ run'.pc = "encode" /\ run'.todo = todo
    BY <1>1, <1>2, <2>1, <2>2 DEF RunRecord
  <2>4. row[d][k] # None /\ row[d][k].embedding = None /\ row[d][k] \in Row
    BY <1>1, <1>2, <1>4 DEF GroupShape, Left, Typed, Rowset
  <2>5. PICK s \in Settings : run.config = from_deduplication_set(s) /\ as_dict(run.config) = s
    BY <1>2, ConfigType
  <2>6. run.todo[k] \in EmptyRow /\ Errors \in SUBSET SYSTEM
    BY <1>1, <1>2, TodoType, GroupDataAssumption DEF Errors
  <2>7. /\ r \in Row
        /\ r.filename = run.todo[k].filename
        /\ r.code # None \/ r.embedding = [image |-> r.filename, settings |-> s]
        /\ r.code # None => r.code \in StatusCode /\ r.embedding = None
    BY <1>4, <2>5, <2>6, Processed
  <2> DEFINE new == [r EXCEPT !.filename = row[d][k].filename]
  <2>8. /\ new \in Row /\ new.code = r.code /\ new.embedding = r.embedding
        /\ new.filename = row[d][k].filename
    BY <2>4, <2>7 DEF Row
  <2>9. row' = [row EXCEPT ![d][k] = new]
    BY <1>4
  <2> HIDE DEF new
  <2>10. /\ row' \in [Sets -> Rowset] /\ \A x \in Sets \ {d} : row'[x] = row[x]
         /\ \A j \in Keys \ {k} : row'[d][j] = row[d][j]
         /\ row'[d][k] = new
    BY <1>2, <2>8, <2>9 DEF GroupShape, Typed, Rowset
  <2>11. finding' = IF row'[d][k].code # None
                    THEN WithErrorFinding(d, k, row'[d][k].code) ELSE finding
    BY <1>4, <2>8, <2>10
  <2>12. row'[d][k] # None
    BY <2>8, <2>10, NoneApart
  <2> QED BY <2>1, <2>3, <2>4, <2>5, <2>7, <2>8, <2>10, <2>11, <2>12
<1> QED
  BY <1>1, <1>2, <1>3, <1>4 DEF EncodeImage

\* The finding of an image that cannot take part.
LEMMA ErrorFindingType ==
  ASSUME Typed, NEW d \in Sets, NEW k \in Keys, NEW code \in StatusCode, run.config \in Config
  PROVE  WithErrorFinding(d, k, code) \in SUBSET Finding
<1>1. as_dict(run.config) \in Settings
  BY ConfigType
<1>2. <<d, k>> \in Encodings
  BY DEF Encodings
<1> QED
  BY <1>1, <1>2 DEF WithErrorFinding, Typed, Finding

\* The findings of a comparison.
LEMMA PairFindingType ==
  ASSUME Typed, NEW d \in Sets, NEW pairs \in SUBSET (Encodings \X Encodings), NEW c \in Config
  PROVE  WithPairs(d, pairs, c) \in SUBSET Finding
<1>1. as_dict(c) \in Settings
  BY ConfigType
<1>2. "DEDUPLICATE_SUCCESS" \in StatusCode
  BY DEF StatusCode
<1> QED
  BY <1>1, <1>2 DEF WithPairs, Typed, Finding

\* One image is saved.
LEMMA ShapeEncodeImage ==
  ASSUME GroupShape, UNCHANGED actors, NEW k \in Keys, EncodeImage(k)
  PROVE  GroupShape'
<1>1. run.config \in Config /\ run.mem \in State /\ run.ds \in Sets /\ run.pc = "encode"
      /\ UNCHANGED <<state, settings, upload, disturbed>>
      /\ run' \in RunRecord /\ run'.ds = run.ds /\ run'.mem = run.mem /\ run'.config = run.config
  BY EncodeStep DEF GroupShape, Pace, Reading
<1>2. CASE run.lost
  <2>1. run'.pc = "error" /\ UNCHANGED <<row, finding>>
    BY <1>2, EncodeStep
  <2> QED BY <1>1, <2>1, ShapeRun DEF GroupShape, Typed, Reading
<1>3. CASE ~run.lost
  <2>1. /\ run'.pc = "encode" /\ DOMAIN run'.todo = DOMAIN run.todo \ {k}
        /\ row' \in [Sets -> Rowset] /\ \A x \in Sets \ {run.ds} : row'[x] = row[x]
        /\ \A j \in Keys \ {k} : row'[run.ds][j] = row[run.ds][j]
        /\ run'.lost = run.lost
    BY <1>3, EncodeStep
  <2>2. finding' \in SUBSET Finding
    <3> DEFINE code == row'[run.ds][k].code
    <3>1. /\ code # None => code \in StatusCode
          /\ finding' = IF code # None THEN WithErrorFinding(run.ds, k, code) ELSE finding
      BY <1>3, EncodeStep
    <3> HIDE DEF code
    <3>2. code # None => WithErrorFinding(run.ds, k, code) \in SUBSET Finding
      BY <1>1, <3>1, ErrorFindingType DEF GroupShape
    <3>3. finding \in SUBSET Finding
      BY DEF GroupShape, Typed
    <3> QED BY <3>1, <3>2, <3>3
  <2>3. Typed'
    BY <1>1, <2>1, <2>2 DEF GroupShape, Typed
  <2>4. Absent'
    <3>1. state[run.ds] # None
      BY <1>1 DEF GroupShape, Absent, RunOf
    <3> QED BY <1>1, <2>1, <3>1, AbsentKept
  <2>5. Pace'
    BY <1>1, <2>1 DEF Pace, Config
  <2>6. Left'
    <3> SUFFICES ASSUME NEW j \in DOMAIN run'.todo
                 PROVE  /\ row'[run.ds][j] = None => run.lost
                        /\ row'[run.ds][j] # None => row'[run.ds][j].embedding = None
      BY <1>1, <2>1 DEF Left
    <3>1. j \in DOMAIN run.todo /\ j \in Keys /\ j # k
      BY <1>1, <2>1, TodoType DEF GroupShape, Typed, RunRecord
    <3> QED BY <1>1, <2>1, <3>1 DEF GroupShape, Left
  <2> QED BY <2>3, <2>4, <2>5, <2>6 DEF GroupShape
<1> QED
  BY <1>2, <1>3

\* What dedupe_all reports, and how it ends.
LEMMA CompareStep ==
  ASSUME GroupShape, Compare
  PROVE  /\ run.pc = "compare" /\ run.ds \in Sets /\ run.config \in Config
         /\ UNCHANGED <<state, row, settings, upload, disturbed>>
         /\ run' \in RunRecord /\ run'.ds = run.ds /\ run'.mem = run.mem
         /\ run'.config = run.config /\ run'.lost = run.lost
         /\ \/ run'.pc = "error" /\ finding' = finding
                /\ run.count # Cardinality(encodings_with_embeddings(run.ds))
            \/ /\ run'.pc = "deduped"
               /\ \E pairs \in SUBSET (Encodings \X Encodings) :
                    /\ finding' = WithPairs(run.ds, pairs, run.config)
                    /\ run.count = Cardinality(encodings_with_embeddings(run.ds))
                         => pairs = FoundPairs(run.ds, run.config)
<1> DEFINE d == run.ds
           n == Cardinality(encodings_with_embeddings(d))
<1>1. /\ run.pc = "compare" /\ UNCHANGED <<state, row, settings, upload, disturbed>>
  BY DEF Compare
<1>2. d \in Sets /\ run.config \in Config /\ run \in RunRecord
  BY <1>1 DEF GroupShape, Pace, Typed, Reading
<1>3. Own(d) \subseteq Encodings /\ Approved(d) \subseteq Encodings
  BY <1>2, EmbeddedIsFinite, ApprovedIsFinite DEF Own, Encodings
<1>4. ASSUME NEW p \in {"error", "deduped"}, run' = [run EXCEPT !.pc = p]
      PROVE  /\ run' \in RunRecord /\ run'.ds = run.ds /\ run'.mem = run.mem /\ run'.pc = p
             /\ run'.config = run.config /\ run'.lost = run.lost
  BY <1>2, <1>4 DEF RunRecord, PCs
<1>5. CASE /\ n = run.count /\ run' = [run EXCEPT !.pc = "deduped"]
           /\ finding' = WithPairs(d, FoundPairs(d, run.config), run.config)
  <2>1. FoundPairs(d, run.config) \in SUBSET (Encodings \X Encodings)
    BY <1>2, <1>3, FoundAreImages
  <2> QED BY <1>1, <1>2, <1>4, <1>5, <2>1
<1>6. CASE n # run.count /\ run' = [run EXCEPT !.pc = "error"] /\ UNCHANGED finding
  BY <1>1, <1>2, <1>4, <1>6
<1>7. CASE /\ n # run.count /\ run' = [run EXCEPT !.pc = "deduped"]
           /\ \E pairs \in SUBSET (Approved(d) \X Approved(d)) :
                finding' = WithPairs(d, pairs, run.config)
  <2>1. PICK pairs \in SUBSET (Approved(d) \X Approved(d)) :
                finding' = WithPairs(d, pairs, run.config)
    BY <1>7
  <2>2. pairs \in SUBSET (Encodings \X Encodings)
    BY <1>3
  <2> QED BY <1>1, <1>2, <1>4, <1>7, <2>1, <2>2
<1> QED
  BY <1>5, <1>6, <1>7 DEF Compare

\* The pairs are saved.
LEMMA ShapeCompare ==
  ASSUME GroupShape, UNCHANGED actors, Compare
  PROVE  GroupShape'
<1>1. /\ run.pc = "compare" /\ run.ds \in Sets /\ run.config \in Config
      /\ UNCHANGED <<state, row, settings, upload, disturbed>>
      /\ run' \in RunRecord /\ run'.ds = run.ds /\ run'.mem = run.mem
      /\ run'.config = run.config /\ run'.pc \in {"error", "deduped"}
  BY CompareStep
<1>2. finding' \in SUBSET Finding
  BY <1>1, CompareStep, PairFindingType DEF GroupShape, Typed
<1>3. run.mem = "DEDUPLICATION_IN_PROGRESS" /\ run.mem \in State
  BY <1>1 DEF GroupShape, Pace
<1> QED
  BY <1>1, <1>2, <1>3, ShapeRun DEF GroupShape, Typed

\* Every step keeps the shape of the data.
LEMMA ShapeStep ==
  GroupShape /\ Slots /\ [Next]_vars => GroupShape'
<1> SUFFICES ASSUME GroupShape, Slots, [Next]_vars PROVE GroupShape'
  OBVIOUS
<1>1. CASE UNCHANGED vars
  BY <1>1, ShapeReads DEF vars
<1>2. CASE Next
  <2>1. UNCHANGED actors
    BY <1>2 DEF Next
  <2>2. CASE \E d \in Sets :
          \/ Create(d) \/ BeginUpload(d) \/ Ready(d) \/ Process(d)
          \/ \E verdict \in {"APPROVED", "REJECTED"} : Judge(d, verdict)
          \/ AdminClearEmbeddings(d) \/ AdminRemoveFindings(d)
          \/ AdminEncode(d) \/ AdminDeduplicate(d)
          \/ CleanupFindings(d) \/ CleanupEncodings(d) \/ CleanupSet(d)
    BY <2>1, <2>2, ShapeCreate, ShapeBeginUpload, ShapeReady, ShapeProcess,
       ShapeJudge, ShapeAdminClearEmbeddings, ShapeAdminRemoveFindings, ShapeAdminEncode,
       ShapeAdminDeduplicate, ShapeCleanupFindings, ShapeCleanupEncodings, ShapeCleanupSet
  <2>3. CASE \E s \in Configs : AdminSettings(s)
    BY <2>1, <2>3, ShapeAdminSettings
  <2>4. CASE FinishUpload \/ DeleteEncodings \/ WriteEmpty \/ CommitSettings
    BY <2>1, <2>4, ShapeFinishUpload, ShapeDeleteEncodings, ShapeWriteEmpty, ShapeCommitSettings
  <2>6. CASE \/ \E d \in Sets : ReadClear(d) \/ \E endpoint \in DOMAIN Admits : BeginLate(d, endpoint)
             \/ \E s \in Configs : CheckSettings(s)
             \/ ReadActiveSet \/ RequestFails
    BY <2>1, <2>6, ShapeReads DEF ReadClear, BeginLate, CheckSettings, ReadActiveSet, RequestFails
  <2>5. CASE RunStep
    BY <2>1, <2>5, ShapeReadImages, ShapeEncodeImage, ShapeSetEncoded, ShapeStartDedupe,
       ShapeCountEmbeddings, ShapeCompare, ShapeSetDeduplicated, ShapeRaise, ShapeFinish,
       ShapeRestart DEF RunStep
  <2> QED BY <1>2, <2>2, <2>3, <2>4, <2>5, <2>6 DEF Next
<1> QED
  BY <1>1, <1>2

\* No request is under way at first.
LEMMA SlotsInit ==
  Init => Slots
BY DEF Init, Slots, IdleLate, IdleClear, IdleChange

\* What a step does to the requests under way, beside the upload.
LEMMA RequestSteps ==
  ASSUME [Next]_vars
  PROVE  /\ \/ late' \in {late, IdleLate}
            \/ \E d \in Sets : \E endpoint \in DOMAIN Admits : BeginLate(d, endpoint)
         /\ \/ clear' \in {clear, IdleClear}
            \/ \E d \in Sets : ReadClear(d)
            \/ DeleteEncodings
         /\ \/ change' \in {change, IdleChange}
            \/ \E s \in Configs : CheckSettings(s)
            \/ ReadActiveSet
<1>1. CASE UNCHANGED vars
  BY <1>1 DEF vars
<1>2. CASE \E d \in Sets :
          \/ Create(d) \/ BeginUpload(d)
          \/ AdminClearEmbeddings(d) \/ AdminRemoveFindings(d)
          \/ AdminEncode(d) \/ AdminDeduplicate(d)
          \/ CleanupFindings(d) \/ CleanupEncodings(d) \/ CleanupSet(d)
  BY <1>2 DEF Create, BeginUpload, AdminClearEmbeddings, AdminRemoveFindings, AdminEncode,
              AdminDeduplicate, CleanupFindings, CleanupEncodings, CleanupSet
<1>3. CASE \E d \in Sets :
          \/ Ready(d) \/ Process(d)
          \/ \E verdict \in {"APPROVED", "REJECTED"} : Judge(d, verdict)
  <2>1. late' \in {late, IdleLate} /\ UNCHANGED <<clear, change>>
    BY <1>3 DEF Ready, Process, Judge, Admitted
  <2> QED BY <2>1
<1>4. CASE \E d \in Sets : ReadClear(d) \/ \E endpoint \in DOMAIN Admits : BeginLate(d, endpoint)
  <2>1. CASE \E d \in Sets : ReadClear(d)
    <3>1. UNCHANGED <<late, change>>
      BY <2>1 DEF ReadClear
    <3> QED BY <2>1, <3>1
  <2>2. CASE \E d \in Sets : \E endpoint \in DOMAIN Admits : BeginLate(d, endpoint)
    <3>1. UNCHANGED <<clear, change>>
      BY <2>2 DEF BeginLate
    <3> QED BY <2>2, <3>1
  <2> QED BY <1>4, <2>1, <2>2
<1>5. CASE \E s \in Configs : CheckSettings(s) \/ AdminSettings(s)
  <2>1. CASE \E s \in Configs : AdminSettings(s)
    BY <2>1 DEF AdminSettings
  <2>2. CASE \E s \in Configs : CheckSettings(s)
    <3>1. UNCHANGED <<late, clear>>
      BY <2>2 DEF CheckSettings
    <3> QED BY <2>2, <3>1
  <2> QED BY <1>5, <2>1, <2>2
<1>6. CASE FinishUpload \/ WriteEmpty \/ CommitSettings \/ RequestFails
  BY <1>6 DEF FinishUpload, WriteEmpty, CommitSettings, RequestFails
<1>7. CASE DeleteEncodings \/ ReadActiveSet
  <2>1. CASE DeleteEncodings
    <3>1. UNCHANGED <<late, change>>
      BY <2>1 DEF DeleteEncodings
    <3> QED BY <2>1, <3>1
  <2>2. CASE ReadActiveSet
    <3>1. UNCHANGED <<late, clear>>
      BY <2>2 DEF ReadActiveSet
    <3> QED BY <2>2, <3>1
  <2> QED BY <1>7, <2>1, <2>2
<1>8. CASE RunStep
  BY <1>8 DEF RunStep, ReadImages, EncodeImage, SetEncoded, StartDedupe, CountEmbeddings, Compare,
              SetDeduplicated, Raise, Fail, Finish, Restart, Killed, Advance
<1> QED
  BY <1>1, <1>2, <1>3, <1>4, <1>5, <1>6, <1>7, <1>8 DEF Next

\* The requests under way keep their types, and a clear has not seen an approved set.
LEMMA SlotsStep ==
  GroupShape /\ Slots /\ [Next]_vars => Slots'
<1> SUFFICES ASSUME GroupShape, Slots, [Next]_vars PROVE Slots'
  OBVIOUS
<1>1. late' \in [ds : Sets \cup {None}, endpoint : DOMAIN Admits \cup {None}]
  <2>1. CASE \E d \in Sets : \E endpoint \in DOMAIN Admits : BeginLate(d, endpoint)
    BY <2>1 DEF BeginLate
  <2>2. CASE late' \in {late, IdleLate}
    BY <2>2 DEF Slots, IdleLate
  <2> QED BY <2>1, <2>2, RequestSteps
<1>2. /\ clear' \in [ds : Sets \cup {None}, seen : (State \ {"APPROVED"}) \cup {None},
                     deleted : BOOLEAN]
      /\ clear'.deleted => clear'.ds \in Sets
  <2>1. CASE clear' \in {clear, IdleClear}
    <3>1. IdleClear \in [ds : Sets \cup {None}, seen : (State \ {"APPROVED"}) \cup {None},
                         deleted : BOOLEAN]
          /\ ~IdleClear.deleted
      BY DEF IdleClear
    <3>2. CASE clear' = clear
      BY <3>2 DEF Slots
    <3>3. CASE clear' = IdleClear
      BY <3>1, <3>3
    <3> QED BY <2>1, <3>2, <3>3
  <2>2. CASE \E d \in Sets : ReadClear(d)
    <3>1. PICK d \in Sets : ReadClear(d)
      BY <2>2
    <3>2. state[d] \in State \ {"APPROVED"}
      BY <3>1 DEF ReadClear, GroupShape, Typed
    <3>3. clear' = [ds |-> d, seen |-> state[d], deleted |-> FALSE]
      BY <3>1 DEF ReadClear
    <3> QED BY <3>2, <3>3
  <2>3. CASE DeleteEncodings
    <3>1. clear.ds \in Sets /\ clear' = [clear EXCEPT !.deleted = TRUE, !.seen = None]
      BY <2>3 DEF DeleteEncodings, Slots
    <3> QED BY <3>1 DEF Slots
  <2> QED BY <2>1, <2>2, <2>3, RequestSteps
<1>3. /\ change' \in [pc : {"idle", "checked", "read"}, settings : Configs \cup {None},
                      ds : Sets \cup {None}]
      /\ change'.pc # "idle" => change'.settings \in Configs
  <2>1. CASE change' \in {change, IdleChange}
    BY <2>1 DEF Slots, IdleChange
  <2>2. CASE \E s \in Configs : CheckSettings(s)
    BY <2>2 DEF CheckSettings
  <2>3. CASE ReadActiveSet
    <3>1. PICK ds \in Sets \cup {None} : change' = [change EXCEPT !.pc = "read", !.ds = ds]
      BY <2>3 DEF ReadActiveSet
    <3>2. change.settings \in Configs
      BY <2>3 DEF ReadActiveSet, Slots
    <3> QED BY <3>1, <3>2 DEF Slots
  <2> QED BY <2>1, <2>2, <2>3, RequestSteps
<1> QED
  BY <1>1, <1>2, <1>3 DEF Slots

\* The shape implies the type invariant.
LEMMA ShapeIsTypeOK ==
  GroupShape /\ Slots => TypeOK
<1> SUFFICES ASSUME GroupShape, Slots PROVE TypeOK
  OBVIOUS
<1>1. \A d \in Sets, k \in Keys : row[d][k] # None => row[d][k] \in Row
  BY DEF GroupShape, Typed, Rowset
<1>2. DOMAIN run.todo \subseteq Keys
  BY TodoType DEF GroupShape, Typed, RunRecord
<1>3. clear \in [ds : Sets \cup {None}, seen : State \cup {None}, deleted : BOOLEAN]
  BY DEF Slots
<1> QED
  BY <1>1, <1>2, <1>3 DEF GroupShape, Slots, Typed, RunRecord, PCs, TypeOK

\* Every variable has its type, for any number of sets, images and settings: a row never has
\* an embedding and a status (the check constraint of Encoding), a run's object is in a state
\* of the model, and it works with settings of the group.
THEOREM GroupDataTypeCorrect ==
  Spec => []TypeOK
<1>1. Spec => [](GroupShape /\ Slots)
  BY ShapeInit, SlotsInit, ShapeStep, SlotsStep, PTL DEF Spec
<1> QED
  BY <1>1, ShapeIsTypeOK, PTL

-----------------------------------------------------------------------------
(***************************************************************************)
(* Reference data.                                                         *)
(***************************************************************************)
\* An upload that succeeds writes one row, whose embedding and status stay what they were.
UploadsRow(d) ==
  \E k \in Keys :
    /\ \A j \in Keys \ {k} : row'[d][j] = row[d][j]
    /\ row'[d][k] # None
    /\ row[d][k] = None => row'[d][k].embedding = None /\ row'[d][k].code = None
    /\ row[d][k] # None => /\ row'[d][k].embedding = row[d][k].embedding
                           /\ row'[d][k].code = row[d][k].code

\* The rest of an upload: nothing, or one row of one set.
LEMMA UploadStep ==
  ASSUME GroupShape, FinishUpload
  PROVE  /\ upload.ds \in Sets /\ UNCHANGED <<finding, settings, run>>
         /\ \/ UNCHANGED <<state, row, disturbed>>
            \/ /\ state' = IF upload.seen = "EMPTY"
                           THEN [state EXCEPT ![upload.ds] = "UPLOADING_IN_PROGRESS"] ELSE state
               /\ upload.seen = "EMPTY" => Fits(upload.ds, "UPLOADING_IN_PROGRESS")
               /\ \A y \in Sets \ {upload.ds} : row'[y] = row[y]
               /\ UploadsRow(upload.ds)
               /\ disturbed' = disturbed \cup IF Uploading(upload.ds) /\ ~RunOf(upload.ds) THEN {}
                                             ELSE {upload.ds} \cup Partners(upload.ds)
<1> DEFINE d == upload.ds
<1>1. d \in Sets /\ UNCHANGED <<finding, settings, run>>
  BY DEF FinishUpload, GroupShape, Typed
<1>2. ASSUME NEW k \in Keys, NEW i \in Offered[d][k],
             row' = [row EXCEPT ![d][k] =
                       IF @ = None
                       THEN [filename |-> i, embedding |-> None, code |-> None, scores |-> None]
                       ELSE [@ EXCEPT !.filename = i]]
      PROVE  (\A y \in Sets \ {d} : row'[y] = row[y]) /\ UploadsRow(d)
  <2> DEFINE new == IF row[d][k] = None
                    THEN [filename |-> i, embedding |-> None, code |-> None, scores |-> None]
                    ELSE [row[d][k] EXCEPT !.filename = i]
  <2>1. row[d][k] \in Row \cup {None} /\ i \in Images
    BY <1>1, GroupDataAssumption DEF GroupShape, Typed, Rowset
  <2>2. /\ new # None
        /\ row[d][k] = None => new.embedding = None /\ new.code = None
        /\ row[d][k] # None => new.embedding = row[d][k].embedding /\ new.code = row[d][k].code
    <3>1. new \in Row
      BY <2>1 DEF Row
    <3>2. /\ row[d][k] = None => new.embedding = None /\ new.code = None
          /\ row[d][k] # None => new.embedding = row[d][k].embedding /\ new.code = row[d][k].code
      BY <2>1 DEF Row
    <3> QED BY <3>1, <3>2, NoneApart
  <2>3. row' = [row EXCEPT ![d][k] = new]
    BY <1>2
  <2> HIDE DEF new
  <2>4. /\ \A y \in Sets \ {d} : row'[y] = row[y]
        /\ \A j \in Keys \ {k} : row'[d][j] = row[d][j]
        /\ row'[d][k] = new
    BY <1>1, <2>3 DEF GroupShape, Typed, Rowset
  <2> QED BY <2>2, <2>4 DEF UploadsRow
<1> QED
  BY <1>1, <1>2 DEF FinishUpload, Disturb

\* One embedding of one approved set in one step.
LEMMA ReferenceStep ==
  ASSUME GroupShape, Slots, [Next]_vars, NEW d \in Sets,
         state[d] = "APPROVED", state'[d] = "APPROVED", ~(DeleteEncodings /\ clear.ds = d),
         NEW k \in encodings_with_embeddings(d)
  PROVE  row'[d][k] # None /\ row'[d][k].embedding = row[d][k].embedding
<1>1. k \in Keys /\ row[d][k] # None /\ row[d][k].embedding # None
  BY DEF encodings_with_embeddings, Rows
<1>2. CASE row'[d] = row[d]
  BY <1>1, <1>2
<1>3. CASE UNCHANGED vars
  BY <1>2, <1>3 DEF vars
<1>4. CASE FinishUpload
  <2>1. CASE d = upload.ds /\ UploadsRow(d)
    BY <1>1, <2>1 DEF UploadsRow
  <2> QED BY <1>2, <1>4, <2>1, UploadStep
<1>5. ASSUME NEW e \in Sets, CleanupEncodings(e) \/ (DeleteEncodings /\ e = clear.ds)
      PROVE  row'[d] = row[d]
  <2>1. e # d
    BY <1>5 DEF CleanupEncodings, Old
  <2>2. row' = [row EXCEPT ![e] = [j \in Keys |-> None]]
    BY <1>5 DEF DeleteEncodings, CleanupEncodings
  <2> QED BY <2>1, <2>2 DEF GroupShape, Typed
<1>9. CASE DeleteEncodings
  <2>1. clear.ds \in Sets
    BY <1>9 DEF DeleteEncodings, Slots
  <2> QED BY <1>2, <1>5, <1>9, <2>1
<1>6. ASSUME NEW e \in Sets, row' = WithoutEmbeddings(e),
             \/ state' = [state EXCEPT ![e] = "READY"]
             \/ state' = [state EXCEPT ![e] = "ENCODING_IN_PROGRESS"]
      PROVE  row'[d] = row[d]
  <2>1. e # d
    BY <1>6 DEF GroupShape, Typed
  <2> QED BY <1>6, <2>1, EmbeddingsDropped DEF GroupShape
<1>7. ASSUME NEW j \in Keys, EncodeImage(j)
      PROVE  row'[d][k] = row[d][k]
  <2>1. CASE d # run.ds
    BY <1>1, <1>7, <2>1, EncodeStep
  <2>3. CASE d = run.ds /\ j # k
    <3>1. k \in Keys \ {j}
      BY <1>1, <2>3
    <3>2. row' = row \/ row'[run.ds][k] = row[run.ds][k]
      BY <1>7, <3>1, EncodeStep
    <3> QED BY <2>3, <3>2
  <2>2. CASE d = run.ds /\ j = k
    BY <1>1, <1>7, <2>2, EncodeStep
  <2> QED BY <2>1, <2>2, <2>3
<1>8. CASE Next
  <2>1. ASSUME NEW e \in Sets,
               \/ Create(e) \/ BeginUpload(e) \/ Ready(e) \/ Process(e) \/ ReadClear(e)
               \/ \E endpoint \in DOMAIN Admits : BeginLate(e, endpoint)
               \/ \E verdict \in {"APPROVED", "REJECTED"} : Judge(e, verdict)
               \/ AdminRemoveFindings(e) \/ AdminDeduplicate(e) \/ CleanupFindings(e) \/ CleanupSet(e)
        PROVE  row' = row
    BY <2>1 DEF Create, BeginUpload, Ready, Process, ReadClear, BeginLate, Judge,
                AdminRemoveFindings, AdminDeduplicate, CleanupFindings, CleanupSet
  <2>2. ASSUME NEW e \in Sets, AdminClearEmbeddings(e) \/ AdminEncode(e)
        PROVE  row'[d] = row[d]
    BY <1>6, <2>2 DEF AdminClearEmbeddings, AdminEncode
  <2>3. ASSUME \/ \E s \in Configs : CheckSettings(s) \/ AdminSettings(s)
               \/ WriteEmpty \/ ReadActiveSet \/ RequestFails
        PROVE  row' = row
    BY <2>3 DEF CheckSettings, AdminSettings, WriteEmpty, ReadActiveSet, RequestFails
  <2>5. ASSUME CommitSettings
        PROVE  row'[d] = row[d]
    <3>1. change.ds \in Sets \cup {None}
      BY DEF Slots
    <3> QED BY <1>6, <2>5, <3>1 DEF CommitSettings
  <2>4. ASSUME \/ ReadImages \/ SetEncoded \/ StartDedupe \/ CountEmbeddings \/ Compare
               \/ SetDeduplicated \/ Raise \/ Fail \/ Finish \/ Restart \/ Killed
        PROVE  row' = row
    BY <2>4 DEF ReadImages, SetEncoded, StartDedupe, CountEmbeddings, Compare,
                SetDeduplicated, Raise, Fail, Finish, Restart, Killed, Advance
  <2> QED BY <1>1, <1>2, <1>4, <1>5, <1>7, <1>8, <1>9, <2>1, <2>2, <2>3, <2>4, <2>5
          DEF Next, RunStep
<1> QED
  BY <1>3, <1>8

\* All of them.
LEMMA ReferenceData ==
  GroupShape /\ Slots /\ [Next]_vars =>
    \A d \in Sets :
      (state[d] = "APPROVED" /\ state'[d] = "APPROVED"
         /\ ~(clear.ds = d /\ clear.seen # "APPROVED")) =>
        \A k \in encodings_with_embeddings(d) :
          row'[d][k] # None /\ row'[d][k].embedding = row[d][k].embedding
<1>1. Slots => clear.seen # "APPROVED"
  <2>1. Slots => clear.seen \in (State \ {"APPROVED"}) \cup {None}
    BY DEF Slots
  <2> QED BY <2>1, NoneApart DEF State
<1> QED
  BY <1>1, ReferenceStep

\* The shape of the group's data is an invariant.
LEMMA ShapeInvariance ==
  Spec => [](GroupShape /\ Slots)
BY ShapeInit, SlotsInit, ShapeStep, SlotsStep, PTL DEF Spec

\* No step takes an embedding from an approved set that stays approved, but the deletion of
\* a clear request that read the set before its approval (views.py:257-260): a clear that
\* begins afterwards does not find the set, settings changes and the admin site take it out
\* of Approved, the cleanup deletes no image of it, and a run only writes to images without
\* an embedding.
THEOREM ReferenceDataHolds ==
  Spec => ReferenceDataStays
<1>1. GroupShape /\ Slots /\ [Next]_vars =>
        [\A d \in Sets :
           (state[d] = "APPROVED" /\ state'[d] = "APPROVED"
              /\ ~(clear.ds = d /\ clear.seen # "APPROVED")) =>
             \A k \in encodings_with_embeddings(d) :
               row'[d][k] # None /\ row'[d][k].embedding = row[d][k].embedding]_vars
  BY ReferenceData
<1> QED
  BY <1>1, ShapeInvariance, PTL DEF Spec, ReferenceDataStays
================================================================================
