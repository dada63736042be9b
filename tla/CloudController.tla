-------------------------- MODULE CloudController --------------------------
(***************************************************************************)
(* The Cloud Controller's package records and the only way the             *)
(* bits-service changes them: CCUpdater.update, one HTTP request with a    *)
(* state in its payload (ccupdater/ccupdater.go).  The Cloud Controller is *)
(* not in this repository; what it does is read off from what update makes *)
(* of its answers.  It refuses to update a package whose state is in       *)
(* Closed, it answers 404 for a package it no longer has, and with         *)
(* CCFaults it may be unreachable or fail.                                 *)
(***************************************************************************)
EXTENDS Bits

CONSTANTS
  Closed,   \* the package states in which an update is answered 422
  CCFaults  \* requests and answers can be lost, and a 5xx can be answered

PackageState == {"AWAITING_UPLOAD", "PROCESSING_UPLOAD", "READY", "FAILED", "GONE"}
Package == [state : PackageState, checksum : Content \cup {NoContent}]

\* What a Notify* method returns: nil, a *NotFoundError, a
\* *StateForbiddenError or any other error.
UpdateResult == {"nil", "notFound", "stateForbidden", "error"}

ASSUME CloudControllerAssumption ==
  /\ Closed \subseteq {"READY", "FAILED"}
  /\ CCFaults \in BOOLEAN

VARIABLE package

PackageTypeOK == package \in [Key -> Package]

InState(k, s) == package[k].state = s
Open(k) == ~InState(k, "GONE") /\ package[k].state \notin Closed

Record(k, s, c) == package' = [package EXCEPT ![k] = [state |-> s, checksum |-> c]]

\* update(guid, payload): a transport error is an error, 404 a NotFoundError,
\* 422 a StateForbiddenError, and every other status is taken for success.
update(k, s, c, result) ==
  \/ /\ Open(k)
     /\ result = "nil"
     /\ Record(k, s, c)
  \/ /\ InState(k, "GONE")
     /\ result = "notFound"
     /\ UNCHANGED package
  \/ /\ package[k].state \in Closed
     /\ result = "stateForbidden"
     /\ UNCHANGED package
  \/ /\ CCFaults
     /\ result \in {"nil", "error"}
     /\ UNCHANGED package
  \/ /\ CCFaults
     /\ Open(k)
     /\ result = "error"
     /\ Record(k, s, c)

\* The Cloud Controller deletes a package; its users never upload to it again.
ForgetPackage(k) ==
  /\ ~InState(k, "GONE")
  /\ Record(k, "GONE", NoContent)
=============================================================================
