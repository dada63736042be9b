--------------------------- MODULE BlobstoreCalls ---------------------------
(***************************************************************************)
(* What a caller may rely on when several calls to a Blobstore are under   *)
(* way.  A running call may disturb the keys it writes, and no others.     *)
(* When it returns, the contract of Blobstore holds between what was       *)
(* stored at that moment and what is stored then, except for keys that     *)
(* another call wrote while it ran, and of a call whose answer misreports  *)
(* its failure the contract of one that failed.                            *)
(***************************************************************************)
EXTENDS Blobstore, Calls

VARIABLES
  wrote, \* wrote[p]: p may have written already
  got,   \* got[p]: the resource a Get has read to its end
  misled \* the calls that failed and returned what Misreports has

cvars == <<blob, calls, wrote, got, misled>>

CInit ==
  /\ CallsInit
  /\ wrote = [p \in Call |-> FALSE]
  /\ got = [p \in Call |-> Absent]
  /\ misled = {}

\* The contract of p's method, for the result e.
Does(p, e) ==
  CASE Is(p, {"put"})    -> Put(job[p].key, job[p].content, e)
    [] Is(p, {"copy"})   -> Copy(job[p].source, job[p].key, e)
    [] Is(p, {"delete"}) -> Delete(job[p].key, e)
    [] Is(p, {"stat", "get"}) ->
         /\ e = "nil" => Exists(job[p].key)
         /\ e = "notFound" => ~Exists(job[p].key)
         /\ UNCHANGED blob

\* A call whose resource others write, or a copy of a torn resource, part of
\* which can look like anything, only keeps to what it may write.
Clashes(p) ==
  /\ Uses(p) \cap contended[p] # {} \/ (Is(p, {"copy"}) /\ blob[job[p].source] = Torn)
  /\ blob' \in [Key -> Stored]
  /\ \A k \in Key \ Writes(p) : blob'[k] = blob[k]

\* Of a directory, the keys nobody else writes are removed and others are
\* removed or not.
Clears(p, e) ==
  LET own == Under[job[p].key] \ contended[p]
  IN /\ \E ks \in SUBSET Writes(p) : blob' = Removed(ks)
     /\ e = "nil" => \A k \in own : blob'[k] = Absent
     /\ e = "notFound" => \A k \in own : ~Exists(k)
     /\ e # "noSpace"

Keeps(p, e) ==
  IF Is(p, {"deleteDir"}) THEN Clears(p, e) ELSE Does(p, e) \/ Clashes(p)

Begin(p) ==
  /\ Begins(p)
  /\ UNCHANGED <<blob, wrote, got, misled>>

\* An effect that a call has before it returns is one it could have left
\* behind when it failed.
Disturb(p) ==
  /\ Running(p)
  /\ Keeps(p, "error")
  /\ wrote' = [wrote EXCEPT ![p] = TRUE]
  /\ UNCHANGED <<calls, got, misled>>

\* A call that has written does not say that there was nothing to do, a copy
\* onto itself does not read what it wrote, and what ran out of space is torn.
Ends(p, e) ==
  /\ Running(p)
  /\ Keeps(p, e)
  /\ wrote[p] => /\ e # "notFound"
                 /\ e = "nil" /\ Is(p, {"copy"}) => job[p].source # job[p].key
                 /\ e = "noSpace" => blob'[job[p].key] = Torn \/ Clashes(p)
  /\ wrote' = [wrote EXCEPT ![p] = FALSE]
  /\ IF Is(p, {"get"}) /\ e = "nil"
       THEN \E v \in Stored : /\ got' = [got EXCEPT ![p] = v]
                              /\ job[p].key \in contended[p] \/ v = blob[job[p].key]
       ELSE UNCHANGED got
  /\ UNCHANGED <<job, contended>>

\* The answer e may stand for a failure.
Return(p, e) ==
  \E did \in Meant(job[p].kind, e) :
    /\ Ends(p, did)
    /\ answer' = [answer EXCEPT ![p] = e]
    /\ misled' = IF did = e THEN misled ELSE misled \cup {p}

CKill ==
  /\ Killed
  /\ wrote' = [p \in Call |-> FALSE]
  /\ UNCHANGED <<blob, got, misled>>

CNext ==
  \/ \E p \in Call : Begin(p) \/ Disturb(p) \/ \E e \in Result : Return(p, e)
  \/ CKill

CSpec == CInit /\ [][CNext]_cvars
=============================================================================
