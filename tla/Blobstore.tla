----------------------------- MODULE Blobstore -----------------------------
(***************************************************************************)
(* The Blobstore interface (blobstore.go) as the handlers use it: what a   *)
(* call may return and what it may leave in the store.  It is the contract *)
(* every backend is held to; an operation is one step, which is the        *)
(* grain at which a handler can tell calls apart.                          *)
(*                                                                         *)
(* Results: "nil" is success, "notFound" a *NotFoundError, "noSpace" a     *)
(* *NoSpaceLeftError and "error" any other error value.                    *)
(***************************************************************************)
EXTENDS Resources

CONSTANTS
  Redirects, \* keys whose backend answers reads with a signed URL
  Misreports \* <<method, result>>: the backend gives that result for failures too

Result == {"nil", "notFound", "noSpace", "error"}

\* The methods of which some backend does so: Copy (azure, webdav), Exists
\* (webdav), Get (webdav, alibaba, openstack) and DeleteDir (alibaba).
Misleading ==
  {<<"copy", "nil">>, <<"copy", "notFound">>, <<"stat", "notFound">>,
   <<"get", "notFound">>, <<"deleteDir", "nil">>}

ASSUME BlobstoreAssumption ==
  /\ Redirects \subseteq Key
  /\ Misreports \subseteq Misleading

\* What may have happened when a method returns e: the operations below are
\* about what happened.
Meant(method, e) == IF <<method, e>> \in Misreports THEN {e, "error"} ELSE {e}

VARIABLE blob

BlobTypeOK == blob \in [Key -> Stored]

Exists(k) == blob[k] # Absent

\* What an unsuccessful write may leave behind: the old bits, a part of the
\* new ones (a truncated file, an empty first block), or all of them when
\* only the answer was lost.  Running out of space never writes all of them.
Leftovers(k, c, result) ==
  {blob[k], Torn} \cup (IF result = "noSpace" THEN {} ELSE {c})

Put(k, c, result) ==
  \/ /\ result = "nil"
     /\ blob' = [blob EXCEPT ![k] = c]
  \/ /\ result \in {"noSpace", "error"}
     /\ \E v \in Leftovers(k, c, result) : blob' = [blob EXCEPT ![k] = v]

Copy(src, dest, result) ==
  \/ /\ result = "notFound"
     /\ ~Exists(src)
     /\ UNCHANGED blob
  \/ /\ Exists(src)
     /\ Put(dest, blob[src], result)
  \/ /\ result \in {"noSpace", "error"}
     /\ \E v \in {blob[dest], Torn} : blob' = [blob EXCEPT ![dest] = v]

Delete(k, result) ==
  \/ /\ result = "nil"
     /\ blob' = [blob EXCEPT ![k] = Absent]
  \/ /\ result = "notFound"
     /\ ~Exists(k)
     /\ UNCHANGED blob
  \/ /\ result = "error"
     /\ \E v \in {blob[k], Absent} : blob' = [blob EXCEPT ![k] = v]

\* The keys of a subset of a directory disappear together.
Removed(ks) == [k \in Key |-> IF k \in ks THEN Absent ELSE blob[k]]

DeleteDir(k, result) ==
  \/ /\ result = "nil"
     /\ blob' = Removed(Under[k])
  \/ /\ result = "notFound"
     /\ \A u \in Under[k] : ~Exists(u)
     /\ UNCHANGED blob
  \/ /\ result = "error"
     /\ \E part \in SUBSET Under[k] : blob' = Removed(part)
=============================================================================
