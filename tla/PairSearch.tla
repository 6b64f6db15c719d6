------------------------------ MODULE PairSearch ------------------------------
(***************************************************************************)
(* The search for duplicates over the matrix of all embeddings: indices    *)
(* 0..n_current-1 are the images of the set, the indices from there to     *)
(* n_all-1 those of the approved sets.  The rows are cut into chunks; the  *)
(* matrix of distances of a chunk is compared with the threshold at once.  *)
(***************************************************************************)
EXTENDS Integers

Lesser(a, b) == IF a < b THEN a ELSE b

\* range(0, n_current, chunk_size)
Starts(n_current, chunk_size) == {s \in 0..(n_current - 1) : s % chunk_size = 0}

\* Mutant: the skip compares the row inside the chunk with the column.
ChunkPairsLocalIndex(start, n_current, n_all, chunk_size, near) ==
  { <<start + r, c>> : r \in 0..(Lesser(start + chunk_size, n_current) - start - 1),
                       c \in 0..(n_all - 1) }
    \cap { p \in near : ~(p[2] < n_current /\ p[1] - start >= p[2]) }

\* The pairs one chunk appends; near is the set of index pairs whose distance is within
\* the threshold and whose confidence reaches the one of the configuration.
ChunkPairs(start, n_current, n_all, chunk_size, near) ==
  { <<start + r, c>> : r \in 0..(Lesser(start + chunk_size, n_current) - start - 1),
                       c \in 0..(n_all - 1) }
    \cap { p \in near : ~(p[2] < n_current /\ p[1] >= p[2]) }

find_duplicate_pairs(n_current, n_all, chunk_size, near) ==
  UNION { ChunkPairs(start, n_current, n_all, chunk_size, near) :
            start \in Starts(n_current, chunk_size) }

\* What the loop stands for: every image of the set against the later ones of the set
\* and against all the approved ones.
AllPairs(n_current, n_all, near) ==
  { p \in near : p[1] \in 0..(n_current - 1) /\ p[2] \in 0..(n_all - 1) /\ p[1] < p[2] }
================================================================================
