---------------------------- MODULE MCFileStore -----------------------------
(***************************************************************************)
(* FileStore with two keys that share a file and one that does not.        *)
(***************************************************************************)
EXTENDS FileStore, TLC

CONSTANTS k1, k2, k3, n1, n2, d1

SharedName == [k \in Key |-> IF k = k3 THEN n2 ELSE n1]

\* What a program with a newer schema, and one before schemas, wrote.  (Of
\* another format there are the torn files.)
OtherPrograms == {Bytes(FormatVersion, d1, d1, CurrentSchema + 1),
                  Bytes(FormatVersion, d1, d1, 0)}

\* Threads are alike, and so are the two keys of one file.
Alike == Permutations(Thread) \cup Permutations({k1, k2})
=============================================================================
