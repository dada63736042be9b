-------------------------- MODULE MCRemoteBlobstore -------------------------
(***************************************************************************)
(* Small instances of RemoteBlobstore: a directory with two or three keys  *)
(* listed a key at a time, contents of one and of two blocks.              *)
(***************************************************************************)
EXTENDS RemoteBlobstore, TLC

CONSTANTS k1, k2, d, c1, c2, p1, p2, p3

Do(kind, k, s, c) == [kind |-> kind, key |-> k, source |-> s, content |-> c]

AllJobs ==
  {Do("put", k1, k1, c2), Do("put", k1, k1, c1), Do("put", k2, k2, c2), Do("copy", k2, k1, NoContent)}
  \cup {Do(m, k1, k1, NoContent) : m \in {"get", "stat", "delete"}}
  \cup {Do("deleteDir", d, d, NoContent)}

OneCopy == {Do("copy", k2, k1, NoContent)}

Tree == [k \in Key |-> IF k = d THEN {k1, k2} ELSE {}]
InOrder == [k \in Key |-> IF k = d THEN <<k1, k2>> ELSE <<>>]

BlockCounts == c1 :> 1 @@ c2 :> 2

SomeFiles == {[k \in Key |-> Absent], [k \in Key |-> IF k = k1 THEN c2 ELSE Absent],
              [k \in Key |-> IF k = d THEN Absent ELSE c1]}

AnyCall == Permutations(Call)
=============================================================================
