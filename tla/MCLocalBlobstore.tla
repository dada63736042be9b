-------------------------- MODULE MCLocalBlobstore --------------------------
(***************************************************************************)
(* Small instances of LocalBlobstore: two files and a directory, contents  *)
(* of one and of two buffers.                                              *)
(***************************************************************************)
EXTENDS LocalBlobstore, TLC

CONSTANTS k1, k2, d, c1, c2, p1, p2, p3

Do(kind, k, s, c) == [kind |-> kind, key |-> k, source |-> s, content |-> c]

SomeJobs ==
  {Do("put", k1, k1, c2), Do("copy", k2, k1, NoContent)}
  \cup {Do(m, k1, k1, NoContent) : m \in {"get", "stat", "delete"}}
  \cup {Do("deleteDir", d, d, NoContent)}

CopyToSelf == {Do("copy", k1, k1, NoContent)}

Tree == [k \in Key |-> IF k = d THEN {k1, k2} ELSE {}]

Lengths == c1 :> 1 @@ c2 :> 2

OneFile == {[k \in Key |-> IF k = k1 THEN c1 ELSE NoContent]}

AnyCall == Permutations(Call)
=============================================================================
