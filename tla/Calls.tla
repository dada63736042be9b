------------------------------- MODULE Calls -------------------------------
(***************************************************************************)
(* Calls to a blobstore that run side by side: what each one is, how far   *)
(* it is, and which keys others write while it runs.                       *)
(***************************************************************************)
EXTENDS Resources

CONSTANTS
  Call, \* calls to the blobstore
  Jobs  \* the methods and arguments that are called

Job == [kind : {"put", "copy", "get", "stat", "delete", "deleteDir"},
        key : Key, source : Key, content : Content \cup {NoContent}]

ASSUME CallsAssumption ==
  /\ Jobs \subseteq Job
  /\ \A j \in Jobs : /\ j.kind = "put" <=> j.content \in Content
                     /\ j.kind # "deleteDir" => Under[j.key] = {}

VARIABLES
  job,      \* job[p]: what p calls
  answer,   \* answer[p]: "idle", "running", the result, or "killed"
  contended \* contended[p]: the keys other calls write while p runs

calls == <<job, answer, contended>>

CallsTypeOK ==
  /\ job \in [Call -> Jobs]
  /\ answer \in [Call -> {"idle", "running", "killed", "nil", "notFound", "noSpace", "error"}]
  /\ contended \in [Call -> SUBSET Key]

CallsInit ==
  /\ job \in [Call -> Jobs]
  /\ answer = [p \in Call |-> "idle"]
  /\ contended = [p \in Call |-> {}]

Is(p, kinds) == job[p].kind \in kinds
Running(p) == answer[p] = "running"

\* The keys p changes, and those its result depends on.
Writes(p) == CASE Is(p, {"put", "copy", "delete"}) -> {job[p].key}
               [] Is(p, {"deleteDir"})             -> Under[job[p].key]
               [] OTHER                            -> {}
Uses(p) == {job[p].key, job[p].source} \cup Under[job[p].key]

Begins(p) ==
  /\ answer[p] = "idle"
  /\ answer' = [answer EXCEPT ![p] = "running"]
  /\ contended' = [q \in Call |->
       IF q = p THEN UNION {Writes(r) : r \in {s \in Call : Running(s)}}
       ELSE contended[q] \cup (IF Running(q) THEN Writes(p) ELSE {})]
  /\ UNCHANGED job

Killed ==
  /\ answer' = [p \in Call |-> IF Running(p) THEN "killed" ELSE answer[p]]
  /\ UNCHANGED <<job, contended>>
=============================================================================
