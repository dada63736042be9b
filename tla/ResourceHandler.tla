-------------------------- MODULE ResourceHandler --------------------------
(***************************************************************************)
(* The requests the ResourceHandlers (resource_handler.go) serve at the    *)
(* same time: each is a goroutine of its own, they share the blobstores    *)
(* and, for packages, the Cloud Controller's records.  A step is what a    *)
(* handler does up to and including its next call to the blobstore or to   *)
(* the Cloud Controller; between two steps every other request may run,    *)
(* and the process may be killed.                                          *)
(***************************************************************************)
EXTENDS Naturals, Blobstore, CloudController

CONSTANTS
  Req,        \* requests, one goroutine each
  NoReq,      \* no request
  NoSource,   \* a copy whose body has no source_guid, or an empty one
  Ops,        \* what clients ask of the handlers: their routes and inputs
  Notified,   \* keys whose handler has a CCUpdater; the others' is a NullUpdater
  MaxRetries, \* bounds the retries that fit into retryPolicy's second
  MaxCrashes  \* bounds how often the process is killed

Kind == {"upload", "digest", "copy", "get", "head", "delete", "deleteDir"}

\* source is the source_guid of a copy; content is what is uploaded, or the
\* entity tag a GET presents.
Op == [kind : Kind, key : Key, content : Content \cup {NoContent},
       source : Key \cup {NoSource}, async : BOOLEAN]

ASSUME HandlerAssumption ==
  /\ NoReq \notin Req /\ NoSource \notin Key
  /\ Ops \subseteq Op
  /\ \A o \in Ops : o.kind \in {"upload", "digest"} => o.content \in Content
  /\ Notified \subseteq Key
  /\ MaxRetries \in Nat /\ MaxCrashes \in Nat

VARIABLES
  op,      \* op[r]: what r asks for
  pc,      \* pc[r]: where the goroutine working for r is
  resp,    \* resp[r]: the status code written to r's client
  retries, \* retries[r]: Puts of r that were tried again
  temp,    \* requests whose temporary file is on disk
  crashes, \* how often the process was killed
  \* Observations, read by the properties only:
  told,    \* told[r]: the last state r sent to the Cloud Controller
  stored,  \* requests whose Put or Copy succeeded
  writer,  \* writer[k]: the request that last called a write of key k
  misled   \* requests whose backend misreported a failure to the handler

handlerVars == <<op, pc, resp, retries, temp, crashes>>
observations == <<told, stored, writer, misled>>
vars == <<handlerVars, observations, blob, package>>

NoReply == 0

PC == {"idle", "arrived", "staged", "put", "notifyReady", "reportFull",
       "reportError", "delete", "done", "killed"}

Reporting == {"reportFull", "reportError"}

TypeOK ==
  /\ BlobTypeOK
  /\ PackageTypeOK
  /\ op \in [Req -> Ops]
  /\ pc \in [Req -> PC]
  /\ resp \in [Req -> Nat]
  /\ retries \in [Req -> 0..MaxRetries]
  /\ temp \subseteq Req
  /\ crashes \in 0..MaxCrashes
  /\ told \in [Req -> {"none", "PROCESSING_UPLOAD", "READY", "FAILED"}]
  /\ stored \subseteq Req
  /\ writer \in [Key -> Req \cup {NoReq}]
  /\ misled \subseteq Req

Init ==
  /\ blob = [k \in Key |-> Absent]
  /\ package = [k \in Key |-> [state |-> "AWAITING_UPLOAD", checksum |-> NoContent]]
  /\ op \in [Req -> Ops]
  /\ pc = [r \in Req |-> "idle"]
  /\ resp = [r \in Req |-> NoReply]
  /\ retries = [r \in Req |-> 0]
  /\ temp = {}
  /\ crashes = 0
  /\ told = [r \in Req |-> "none"]
  /\ stored = {}
  /\ writer = [k \in Key |-> NoReq]
  /\ misled = {}

-----------------------------------------------------------------------------

IsKind(r, kinds) == op[r].kind \in kinds

Goto(r, l) == pc' = [pc EXCEPT ![r] = l] /\ UNCHANGED resp

\* The handler writes a status code and returns.
Finish(r, code) ==
  /\ pc' = [pc EXCEPT ![r] = "done"]
  /\ resp' = [resp EXCEPT ![r] = code]

\* The status code for the error (or nil) a call returned; an error without
\* a case of its own is a panic, which PanicMiddleware answers with 500.
writeResponseBasedOn(e, statusCode) ==
  CASE e = "nil"      -> statusCode
    [] e = "notFound" -> 404
    [] e = "noSpace"  -> 507
    [] e = "error"    -> 500

\* A request's write of the keys ks reached the blobstore.
Wrote(r, ks) == writer' = [k \in Key |-> IF k \in ks THEN r ELSE writer[k]]

\* What may have happened when the method answers e.  The backend that does
\* not redirect is local, which does not misreport.
Outcomes(r, method, e) ==
  IF op[r].key \in Redirects THEN Meant(method, e) ELSE {e}

Hears(r, e, did) == misled' = IF did = e THEN misled ELSE misled \cup {r}

\* The updater of the key's handler: a CCUpdater, or a NullUpdater that
\* returns nil.
Notify(r, s, c, e) ==
  /\ IF op[r].key \in Notified
       THEN update(op[r].key, s, c, e)
       ELSE e = "nil" /\ UNCHANGED package
  /\ told' = [told EXCEPT ![r] = s]

-----------------------------------------------------------------------------
(* Arrival, and the refusals of a request before it has had any effect.     *)

Arrive(r) ==
  /\ pc[r] = "idle"
  /\ Goto(r, "arrived")
  /\ UNCHANGED <<op, retries, temp, crashes, observations, blob, package>>

\* The answers to a body that cannot be used: too large or of unknown
\* length, no form file, no Digest, bad JSON or zip, app-stash entries that
\* are missing, no space in the app-stash, an unreadable body.
RefusalCodes(kind) ==
  IF kind = "upload" THEN {400, 413, 422, 500, 507} ELSE {400, 413, 500}

RefuseBody(r) ==
  /\ pc[r] = "arrived"
  /\ IsKind(r, {"upload", "digest", "copy"})
  /\ \E code \in RefusalCodes(op[r].kind) : Finish(r, code)
  /\ UNCHANGED <<op, retries, temp, crashes, observations, blob, package>>

\* Writing the temporary file or reading it back for its checksums fails:
\* the handler panics and the file stays.
StagingFails(r) ==
  /\ pc[r] = "arrived"
  /\ IsKind(r, {"upload"})
  /\ Finish(r, 500)
  /\ temp' = temp \cup {r}
  /\ UNCHANGED <<op, retries, crashes, observations, blob, package>>

StageUpload(r) ==
  /\ pc[r] = "arrived"
  /\ IsKind(r, {"upload"})
  /\ Goto(r, "staged")
  /\ temp' = temp \cup {r}
  /\ UNCHANGED <<op, retries, crashes, observations, blob, package>>

-----------------------------------------------------------------------------
(* AddOrReplace: announcing the upload, storing it, reporting the outcome.  *)

\* handleNotificationError: a refused announcement ends the request.
handleNotificationError(e) ==
  CASE e = "stateForbidden" -> 400
    [] e = "notFound"       -> 404
    [] e = "error"          -> 500

\* Mutated form: no return after handleNotificationError.
AnnounceWithoutReturn(r) ==
  /\ pc[r] = "staged"
  /\ \E e \in UpdateResult :
       /\ Notify(r, "PROCESSING_UPLOAD", NoContent, e)
       /\ pc' = [pc EXCEPT ![r] = "put"]
       /\ resp' = IF e = "nil" THEN resp ELSE [resp EXCEPT ![r] = handleNotificationError(e)]
  /\ UNCHANGED <<op, retries, temp, crashes, stored, writer, misled, blob>>

NotifyProcessingUpload(r) ==
  /\ pc[r] = "staged"
  /\ \E e \in UpdateResult :
       /\ Notify(r, "PROCESSING_UPLOAD", NoContent, e)
       /\ \/ e = "nil" /\ Goto(r, "put")
          \/ e # "nil" /\ Finish(r, handleNotificationError(e))
  /\ UNCHANGED <<op, retries, temp, crashes, stored, writer, misled, blob>>

\* With async=true the handler replies while uploadResource runs in a
\* goroutine of its own, whose progress pc[r] is.
AcceptAsync(r) ==
  /\ IsKind(r, {"upload"}) /\ op[r].async
  /\ pc[r] \in {"put", "notifyReady", "done"} \cup Reporting
  /\ resp[r] = NoReply
  /\ resp' = [resp EXCEPT ![r] = 202]
  /\ UNCHANGED <<op, pc, retries, temp, crashes, observations, blob, package>>

\* AddOrReplaceWithDigestInHeader keeps the body in memory and goes straight
\* to the Put.
ReadDigestBody(r) ==
  /\ pc[r] = "arrived"
  /\ IsKind(r, {"digest"})
  /\ Goto(r, "put")
  /\ UNCHANGED <<op, retries, temp, crashes, observations, blob, package>>

\* Mutated form: the temporary file is opened once, outside the retried
\* function, so that a second Put reads on from where the first stopped.
PutWithoutRewind(r) ==
  /\ pc[r] = "put"
  /\ Put(op[r].key, IF retries[r] = 0 THEN op[r].content ELSE Torn, "nil")
  /\ stored' = stored \cup {r}
  /\ Wrote(r, {op[r].key})
  /\ \/ IsKind(r, {"upload"}) /\ Goto(r, "notifyReady")
     \/ IsKind(r, {"digest"}) /\ Finish(r, 201)
  /\ UNCHANGED <<op, retries, temp, crashes, told, misled, package>>

PutSucceeds(r) ==
  /\ pc[r] = "put"
  /\ Put(op[r].key, op[r].content, "nil")
  /\ stored' = stored \cup {r}
  /\ Wrote(r, {op[r].key})
  /\ \/ IsKind(r, {"upload"}) /\ Goto(r, "notifyReady")
     \/ IsKind(r, {"digest"}) /\ Finish(r, writeResponseBasedOn("nil", 201))
  /\ UNCHANGED <<op, retries, temp, crashes, told, misled, package>>

\* Mutated form: one retry too many.
PutIsRetriedOnceMore(r) ==
  /\ pc[r] = "put"
  /\ retries[r] <= MaxRetries
  /\ retries' = [retries EXCEPT ![r] = @ + 1]
  /\ Put(op[r].key, op[r].content, "error")
  /\ Wrote(r, {op[r].key})
  /\ UNCHANGED <<op, pc, resp, temp, crashes, told, stored, misled, package>>

\* Mutated form: MaxElapsedTime = 0, a policy that never stops.
PutIsRetriedForever(r) ==
  /\ pc[r] = "put"
  /\ Put(op[r].key, op[r].content, "error")
  /\ Wrote(r, {op[r].key})
  /\ UNCHANGED <<op, pc, resp, retries, temp, crashes, told, stored, misled, package>>

\* A failed Put is tried again while the retry policy allows it.
PutIsRetried(r) ==
  /\ pc[r] = "put"
  /\ retries[r] < MaxRetries
  /\ retries' = [retries EXCEPT ![r] = @ + 1]
  /\ Put(op[r].key, op[r].content, "error")
  /\ Wrote(r, {op[r].key})
  /\ UNCHANGED <<op, pc, resp, temp, crashes, told, stored, misled, package>>

\* Mutated form: the error of the Put is shadowed, and nil is looked at.
PutFailsUnnoticed(r) ==
  /\ pc[r] = "put"
  /\ \E e \in {"noSpace", "error"} : Put(op[r].key, op[r].content, e)
  /\ \/ IsKind(r, {"upload"}) /\ Goto(r, "notifyReady")
     \/ IsKind(r, {"digest"}) /\ Finish(r, 201)
  /\ Wrote(r, {op[r].key})
  /\ UNCHANGED <<op, retries, temp, crashes, told, stored, misled, package>>

\* Mutated form: a failed Put returns before notifyUploadFailed.
PutFailsSilently(r) ==
  /\ pc[r] = "put"
  /\ \E e \in {"noSpace", "error"} :
       /\ Put(op[r].key, op[r].content, e)
       /\ Finish(r, writeResponseBasedOn(e, 201))
  /\ Wrote(r, {op[r].key})
  /\ UNCHANGED <<op, retries, temp, crashes, told, stored, misled, package>>

\* The last Put failed: the policy's time is over, or the error is permanent.
PutFails(r) ==
  /\ pc[r] = "put"
  /\ \E e \in {"noSpace", "error"} :
       /\ Put(op[r].key, op[r].content, e)
       /\ \/ /\ IsKind(r, {"upload"})
             /\ Goto(r, IF e = "noSpace" THEN "reportFull" ELSE "reportError")
          \/ /\ IsKind(r, {"digest"})
             /\ Finish(r, writeResponseBasedOn(e, 201))
  /\ Wrote(r, {op[r].key})
  /\ UNCHANGED <<op, retries, temp, crashes, told, stored, misled, package>>

\* The temporary file cannot be opened, which is permanent.
OpenTempFileFails(r) ==
  /\ pc[r] = "put"
  /\ IsKind(r, {"upload"})
  /\ Goto(r, "reportError")
  /\ UNCHANGED <<op, retries, temp, crashes, observations, blob, package>>

\* Mutated form: no deferred os.Remove.
EndUploadKeepsFile(r, code) ==
  /\ UNCHANGED temp
  /\ IF op[r].async THEN Goto(r, "done") ELSE Finish(r, code)

\* uploadResource returns: its deferred os.Remove runs, and the error it
\* returns is written to the client, unless the reply is AcceptAsync's.
EndUpload(r, code) ==
  /\ temp' = temp \ {r}
  /\ IF op[r].async THEN Goto(r, "done") ELSE Finish(r, code)

\* Mutated form: when READY cannot be delivered, FAILED is sent instead.
NotifyReadyOrFailed(r) ==
  /\ pc[r] = "notifyReady"
  /\ \E e \in UpdateResult :
       /\ Notify(r, "READY", op[r].content, e)
       /\ \/ e = "nil" /\ EndUpload(r, 201)
          \/ e # "nil" /\ Goto(r, "reportError") /\ UNCHANGED temp
  /\ UNCHANGED <<op, retries, crashes, stored, writer, misled, blob>>

\* Any error of this notification reaches writeResponseBasedOn wrapped, so
\* that not even a NotFoundError has a case there.
NotifyUploadSucceeded(r) ==
  /\ pc[r] = "notifyReady"
  /\ \E e \in UpdateResult :
       /\ Notify(r, "READY", op[r].content, e)
       /\ EndUpload(r, writeResponseBasedOn(IF e = "nil" THEN e ELSE "error", 201))
  /\ UNCHANGED <<op, retries, crashes, stored, writer, misled, blob>>

\* Mutated form: the error that is returned is the notification's.
NotifyFailedReturnsNotifyError(r) ==
  /\ pc[r] \in Reporting
  /\ \E e \in UpdateResult :
       /\ Notify(r, "FAILED", NoContent, e)
       /\ EndUpload(r, writeResponseBasedOn(e, 201))
  /\ UNCHANGED <<op, retries, crashes, stored, writer, misled, blob>>

\* The error of this notification is logged only; the reply is about the Put.
NotifyUploadFailed(r) ==
  /\ pc[r] \in Reporting
  /\ \E e \in UpdateResult : Notify(r, "FAILED", NoContent, e)
  /\ EndUpload(r, writeResponseBasedOn(
                    IF pc[r] = "reportFull" THEN "noSpace" ELSE "error", 201))
  /\ UNCHANGED <<op, retries, crashes, stored, writer, misled, blob>>

-----------------------------------------------------------------------------
(* The other operations of the handler.                                     *)

CopySourceGuid(r) ==
  /\ pc[r] = "arrived"
  /\ IsKind(r, {"copy"})
  /\ op[r].source # NoSource
  /\ \E e \in Result : \E did \in Outcomes(r, "copy", e) :
       /\ Copy(op[r].source, op[r].key, did)
       /\ Finish(r, writeResponseBasedOn(e, 201))
       /\ Wrote(r, IF did = "notFound" THEN {} ELSE {op[r].key})
       /\ stored' = IF did = "nil" THEN stored \cup {r} ELSE stored
       /\ Hears(r, e, did)
  /\ UNCHANGED <<op, retries, temp, crashes, told, package>>

\* Without a source_guid the handler returns and has written nothing:
\* net/http then sends the status of a handler that succeeded.
CopyWithoutSource(r) ==
  /\ pc[r] = "arrived"
  /\ IsKind(r, {"copy"})
  /\ op[r].source = NoSource
  /\ Finish(r, 200)
  /\ UNCHANGED <<op, retries, temp, crashes, observations, blob, package>>

\* What GET and HEAD find.  A backend that redirects signs a URL whether or
\* not the resource exists; webdav asks its server first, as Exists does.
Finds(r, e) ==
  /\ e = "nil" => Exists(op[r].key) \/ op[r].key \in Redirects
  /\ e = "notFound" => ~Exists(op[r].key)

\* A body is compared with the entity tag the client presents.
ReadCode(r, e) ==
  IF e # "nil" THEN writeResponseBasedOn(e, 200)
  ELSE IF op[r].key \in Redirects THEN 302
  ELSE IF op[r].kind = "get" /\ blob[op[r].key] = op[r].content THEN 304
  ELSE 200

Read(r) ==
  /\ pc[r] = "arrived"
  /\ IsKind(r, {"get", "head"})
  /\ \E e \in {"nil", "notFound", "error"} : \E did \in Outcomes(r, "stat", e) :
       /\ Finds(r, did)
       /\ Finish(r, ReadCode(r, e))
       /\ Hears(r, e, did)
  /\ UNCHANGED <<op, retries, temp, crashes, told, stored, writer, blob, package>>

\* Delete asks whether the resource exists; an error panics ...
DeleteChecks(r) ==
  /\ pc[r] = "arrived"
  /\ IsKind(r, {"delete"})
  /\ \E e \in {"nil", "notFound", "error"} : \E did \in Outcomes(r, "stat", e) :
       /\ did = "nil" => Exists(op[r].key)
       /\ did = "notFound" => ~Exists(op[r].key)
       /\ \/ e = "nil" /\ Goto(r, "delete")
          \/ e # "nil" /\ Finish(r, writeResponseBasedOn(e, 204))
       /\ Hears(r, e, did)
  /\ UNCHANGED <<op, retries, temp, crashes, told, stored, writer, blob, package>>

\* ... and deletes it in a second call, when it may be gone or new.
DeleteRemoves(r) ==
  /\ pc[r] = "delete"
  /\ \E e \in Result :
       /\ Delete(op[r].key, e)
       /\ Finish(r, writeResponseBasedOn(e, 204))
       /\ Wrote(r, IF e = "notFound" THEN {} ELSE {op[r].key})
  /\ UNCHANGED <<op, retries, temp, crashes, told, stored, misled, package>>

RemoveDir(r) ==
  /\ pc[r] = "arrived"
  /\ IsKind(r, {"deleteDir"})
  /\ \E e \in Result : \E did \in Outcomes(r, "deleteDir", e) :
       /\ DeleteDir(op[r].key, did)
       /\ Finish(r, IF e = "notFound" THEN 204 ELSE writeResponseBasedOn(e, 204))
       /\ Wrote(r, IF did = "notFound" THEN {} ELSE Under[op[r].key])
       /\ Hears(r, e, did)
  /\ UNCHANGED <<op, retries, temp, crashes, told, stored, package>>

-----------------------------------------------------------------------------

\* Some goroutine still works for r.
Live(r) == \/ pc[r] \notin {"idle", "done", "killed"}
           \/ pc[r] = "done" /\ resp[r] = NoReply

\* The process is killed: its goroutines are gone, while the files, the bits
\* and the records are as they were.  A kill in the middle of a Put is this
\* step after a PutIsRetried, whose leftovers are the same.
Crash ==
  /\ crashes < MaxCrashes
  /\ crashes' = crashes + 1
  /\ pc' = [r \in Req |-> IF Live(r) THEN "killed" ELSE pc[r]]
  /\ UNCHANGED <<op, resp, retries, temp, observations, blob, package>>

PackageForgotten ==
  /\ \E k \in Notified : ForgetPackage(k)
  /\ UNCHANGED <<handlerVars, observations, blob>>

\* The steps of the goroutine that works for r.
Work(r) ==
  \/ RefuseBody(r) \/ StagingFails(r) \/ StageUpload(r)
  \/ NotifyProcessingUpload(r) \/ ReadDigestBody(r)
  \/ PutSucceeds(r) \/ PutIsRetried(r) \/ PutFails(r) \/ OpenTempFileFails(r)
  \/ NotifyUploadSucceeded(r) \/ NotifyUploadFailed(r)
  \/ CopySourceGuid(r) \/ CopyWithoutSource(r) \/ Read(r)
  \/ DeleteChecks(r) \/ DeleteRemoves(r) \/ RemoveDir(r)

Next ==
  \/ \E r \in Req : Arrive(r) \/ Work(r) \/ AcceptAsync(r)
  \/ Crash
  \/ PackageForgotten

Spec == Init /\ [][Next]_vars

\* Goroutines are scheduled, and every call to the blobstore or to the Cloud
\* Controller returns; clients, crashes and deletions owe nothing.
Fairness == \A r \in Req : WF_vars(Work(r)) /\ WF_vars(AcceptAsync(r))

FairSpec == Spec /\ Fairness

-----------------------------------------------------------------------------
(* Safety.                                                                  *)

UploadOf(r, k) == op[r].kind = "upload" /\ op[r].key = k

\* What the Cloud Controller is told is true: a package is READY only with
\* the checksums of an upload whose Put returned nil, and FAILED only because
\* of an upload that never stored anything, however the uploads of the
\* package interleave and whatever is lost (uploadResource).
VerdictsAreTrue ==
  \A k \in Key :
    /\ InState(k, "READY") =>
         \E r \in stored : /\ UploadOf(r, k)
                           /\ told[r] = "READY"
                           /\ package[k].checksum = op[r].content
    /\ InState(k, "FAILED") =>
         \E r \in Req \ stored : UploadOf(r, k) /\ told[r] = "FAILED"

\* The handler of r was answered e by a backend that answers so for failures
\* too, and it had failed.
Misled(r, e) == r \in misled /\ <<op[r].kind, e>> \in Misreports

\* The last writer of a key, once its Put returned nil, finds there exactly
\* what it sent, retries and torn writes before notwithstanding; once a copy
\* was made it finds something; once told that its deletion is done, it finds
\* nothing, unless the backend's DeleteDir does not report failures
\* (alibaba's).  So the bits of a READY package differ from its checksums
\* only if another request wrote later.  Calls are one step here: what is
\* true of writes of one key that overlap, LocalBlobstore and RemoteBlobstore
\* tell.
LastWriteIsIntact ==
  \A k \in Key : \A r \in Req :
    writer[k] = r =>
      /\ r \in stored =>
           IF IsKind(r, {"copy"}) THEN Exists(k) ELSE blob[k] = op[r].content
      /\ resp[r] = 204 => blob[k] = Absent \/ Misled(r, "nil")

\* A request refused with a 4xx has sent no verdict, and has written no bits
\* unless it is a copy whose backend says "not found" after it has emptied
\* the destination (webdav's).  In particular one the Cloud Controller
\* refused (400, 404) left the package's bits alone.
RefusedLeavesNoTrace ==
  \A r \in Req : resp[r] \in 400..499 =>
    /\ told[r] \notin {"READY", "FAILED"}
    /\ (\E k \in Key : writer[k] = r) => IsKind(r, {"copy"}) /\ Misled(r, "notFound")

\* 201 is written only for a request that stored its bits, or for a copy
\* whose backend answers nil for one it did not make (azure's); and for an
\* upload only after the Cloud Controller was sent READY.
CreatedMeansStored ==
  \A r \in Req : resp[r] = 201 =>
    /\ r \in stored \/ (IsKind(r, {"copy"}) /\ Misled(r, "nil"))
    /\ IsKind(r, {"upload"}) => told[r] = "READY"

\* A temporary file exists as long as uploadResource may open it, and is left
\* behind only by an upload that ended before uploadResource took over or
\* whose process was killed.
TempFileLifetime ==
  \A r \in Req :
    /\ IsKind(r, {"upload"}) /\ pc[r] \in {"put", "notifyReady"} \cup Reporting
         => r \in temp
    /\ r \in temp /\ pc[r] = "done" => resp[r] \in {400, 404, 500}
                                    /\ told[r] \in {"none", "PROCESSING_UPLOAD"}

\* A package stays PROCESSING_UPLOAD only while an upload that will report an
\* outcome is under way, unless the process was killed or a call was lost.
ProcessingHasOwner ==
  \A k \in Key : ~CCFaults /\ InState(k, "PROCESSING_UPLOAD") =>
    \E r \in Req : /\ UploadOf(r, k)
                   /\ told[r] = "PROCESSING_UPLOAD"
                   /\ pc[r] \in {"put", "notifyReady", "killed"} \cup Reporting

-----------------------------------------------------------------------------
(* The inductive strengthening of the safety properties: what is known of   *)
(* a request at each point of its handler.                                  *)

Untouched(r) == \A k \in Key : writer[k] # r

AtUploadResource(r) == pc[r] \in {"put", "notifyReady"} \cup Reporting

\* A request that is going to call Put has a content to put.
PutsContent == \A r \in Req : pc[r] \in {"staged", "put"} => IsKind(r, {"upload", "digest"})

\* What is true of a request while it is at a point of its handler.
AtPoint(r) ==
  /\ pc[r] \in {"idle", "arrived", "staged", "delete"} =>
       resp[r] = NoReply /\ told[r] = "none" /\ r \notin stored /\ Untouched(r)
  /\ AtUploadResource(r) => resp[r] \in {NoReply, 202}
  /\ AtUploadResource(r) /\ IsKind(r, {"upload"}) => told[r] = "PROCESSING_UPLOAD"
  /\ pc[r] \in {"staged", "notifyReady"} \cup Reporting => IsKind(r, {"upload"})
  /\ pc[r] = "delete" => IsKind(r, {"delete"})
  /\ pc[r] \in {"put"} \cup Reporting => r \notin stored
  /\ pc[r] = "notifyReady" => r \in stored
  /\ resp[r] \notin {NoReply, 202} => pc[r] = "done"

\* A verdict is sent by an upload only, last, and according to its Put.
Truthful(r) ==
  /\ told[r] # "none" => IsKind(r, {"upload"})
  /\ told[r] \in {"READY", "FAILED"} => pc[r] \in {"done", "killed"}
  /\ told[r] = "READY" => r \in stored
  /\ told[r] = "FAILED" => r \notin stored

\* Only the temporary file of an upload that got that far is on disk.
TempOwned(r) ==
  /\ r \in temp => IsKind(r, {"upload"}) /\ pc[r] \notin {"idle", "arrived"}
  /\ IsKind(r, {"upload"}) /\ pc[r] = "staged" => r \in temp

Progress == \A r \in Req : AtPoint(r) /\ Truthful(r) /\ TempOwned(r)

\* Uploads write their own key and no other.
WriterOwnsKey ==
  \A k \in Key : \A r \in Req :
    writer[k] = r /\ IsKind(r, {"upload", "digest"}) => op[r].key = k

\* A NullUpdater never touches a package.
NullUpdaterIsNull == \A k \in Key \ Notified : InState(k, "AWAITING_UPLOAD")

IndInv ==
  /\ TypeOK /\ PutsContent /\ Progress /\ WriterOwnsKey /\ NullUpdaterIsNull
  /\ VerdictsAreTrue /\ LastWriteIsIntact /\ RefusedLeavesNoTrace
  /\ CreatedMeansStored /\ TempFileLifetime /\ ProcessingHasOwner

-----------------------------------------------------------------------------
(* Liveness.                                                                *)

\* Every request is answered unless the process is killed.
EveryRequestIsAnswered ==
  \A r \in Req : pc[r] = "arrived" ~> resp[r] # NoReply \/ pc[r] = "killed"

\* A package that was announced gets a verdict, when no call is lost and the
\* process is not killed (uploadResource, on each of its paths).
AnnouncedUploadsGetVerdict ==
  \A k \in Key :
    InState(k, "PROCESSING_UPLOAD") ~>
      package[k].state \in {"READY", "FAILED", "GONE"} \/ crashes > 0

-----------------------------------------------------------------------------
(* Refinement: the handlers keep the promise of UploadPromise.              *)

\* How far the upload of r is, for the Cloud Controller.
PhaseOf(r) ==
  IF ~IsKind(r, {"upload"})                 THEN "other"
  ELSE IF pc[r] \in {"idle", "arrived", "staged"} THEN "new"
  ELSE IF pc[r] = "put"                     THEN "taken"
  ELSE IF pc[r] = "notifyReady"             THEN "stored"
  ELSE IF pc[r] \in Reporting               THEN "failed"
  ELSE IF pc[r] = "killed"                  THEN "dead"
  ELSE IF told[r] \in {"READY", "FAILED"}   THEN "reported"
  ELSE "refused"

Promise == INSTANCE UploadPromise WITH
  ask <- op, phase <- [r \in Req |-> PhaseOf(r)], bits <- blob, record <- package

\* Every step of the handlers is a step the promise allows, or none at all:
\* no verdict before the Put is decided, none twice, none for a refused
\* upload, and no write after a verdict.
KeepsPromise == Promise!PSpec

-----------------------------------------------------------------------------
(* What the documents and comments of the repository say, and the code does *)
(* not do.                                                                  *)

\* "Cannot update an existing package." (handleNotificationError): an upload
\* never changes the bits of a package that is READY.
ReadyBitsAreNotReplaced ==
  [][\A k \in Key : InState(k, "READY") /\ blob'[k] # blob[k] =>
       \A r \in Req : writer'[k] = r => ~IsKind(r, {"upload"})]_vars
=============================================================================
