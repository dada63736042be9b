----------------------- MODULE ResourceHandler_proofs -----------------------
(***************************************************************************)
(* Theorems about ResourceHandler for any keys, contents, requests, bounds *)
(* and Cloud Controller, with or without an updater.                       *)
(***************************************************************************)
EXTENDS ResourceHandler, TLAPS

USE DEF NoReply

-----------------------------------------------------------------------------
(* What the calls do.                                                       *)

\* A Put writes its key only, and exactly its content when it returns nil.
LEMMA PutFrame ==
  ASSUME BlobTypeOK, NEW k \in Key, NEW c \in Stored, NEW e, Put(k, c, e)
  PROVE  /\ BlobTypeOK'
         /\ \A j \in Key : j # k => blob'[j] = blob[j]
         /\ e = "nil" => blob'[k] = c
         /\ e \in {"nil", "noSpace", "error"}
         /\ blob'[k] \in {blob[k], Torn, c}
         /\ blob' = [blob EXCEPT ![k] = blob'[k]]
  BY DEF Put, Leftovers, BlobTypeOK, Stored

\* A Copy writes its destination only, and nothing when the source is missing.
LEMMA CopyFrame ==
  ASSUME BlobTypeOK, NEW s \in Key, NEW d \in Key, NEW e, Copy(s, d, e)
  PROVE  /\ BlobTypeOK'
         /\ \A j \in Key : j # d => blob'[j] = blob[j]
         /\ e = "notFound" => blob' = blob
         /\ e = "nil" => blob'[d] # Absent
         /\ e \in Result
  <1>1. CASE e = "notFound" /\ UNCHANGED blob
    BY <1>1 DEF BlobTypeOK, Result
  <1>2. CASE Exists(s) /\ Put(d, blob[s], e)
    <2>1. blob[s] \in Stored
      BY DEF BlobTypeOK
    <2>2. e \in {"nil", "noSpace", "error"}
      BY <1>2 DEF Put
    <2>3. QED
      BY <1>2, <2>1, <2>2, PutFrame DEF Result, Exists
  <1>3. CASE /\ e \in {"noSpace", "error"}
             /\ \E v \in {blob[d], Torn} : blob' = [blob EXCEPT ![d] = v]
    BY <1>3 DEF BlobTypeOK, Stored, Result
  <1>4. QED
    BY <1>1, <1>2, <1>3 DEF Copy

\* A Delete removes its key only.
LEMMA DeleteFrame ==
  ASSUME BlobTypeOK, NEW k \in Key, NEW e, Delete(k, e)
  PROVE  /\ BlobTypeOK'
         /\ \A j \in Key : j # k => blob'[j] = blob[j]
         /\ e = "nil" => blob'[k] = Absent
         /\ e = "notFound" => blob' = blob
         /\ e \in Result
  BY DEF Delete, BlobTypeOK, Stored, Result

\* A DeleteDir removes keys below its directory only, all of them when it
\* returns nil.
LEMMA DeleteDirFrame ==
  ASSUME BlobTypeOK, NEW k \in Key, NEW e, DeleteDir(k, e)
  PROVE  /\ BlobTypeOK'
         /\ \A j \in Key : j \notin Under[k] => blob'[j] = blob[j]
         /\ e = "nil" => \A j \in Under[k] : blob'[j] = Absent
         /\ e = "notFound" => blob' = blob
         /\ e \in Result
  <1>1. Under[k] \subseteq Key
    BY ResourcesAssumption
  <1>2. QED
    BY <1>1 DEF DeleteDir, Removed, BlobTypeOK, Stored, Result

\* An update writes the record it names, or leaves the packages alone; when
\* calls are not lost, a nil answer means that it was written, and a record
\* in state PROCESSING_UPLOAD is never refused.
LEMMA UpdateFrame ==
  ASSUME PackageTypeOK, NEW k \in Key, NEW s \in PackageState,
         NEW c \in Content \cup {NoContent}, NEW e, update(k, s, c, e)
  PROVE  /\ PackageTypeOK'
         /\ e \in UpdateResult
         /\ UNCHANGED package \/ Record(k, s, c)
         /\ ~CCFaults /\ e = "nil" => Record(k, s, c)
         /\ ~CCFaults /\ e # "nil" =>
              UNCHANGED package /\ ~InState(k, "PROCESSING_UPLOAD")
  BY CloudControllerAssumption
     DEF update, Open, InState, Record, PackageTypeOK, Package, PackageState, UpdateResult

\* The handler's notification, with whichever updater.
LEMMA NotifyFrame ==
  ASSUME TypeOK, NEW r \in Req, NEW s \in {"PROCESSING_UPLOAD", "READY", "FAILED"},
         NEW c \in Content \cup {NoContent}, NEW e, Notify(r, s, c, e)
  PROVE  /\ PackageTypeOK'
         /\ e \in UpdateResult
         /\ UNCHANGED package \/ (op[r].key \in Notified /\ Record(op[r].key, s, c))
         /\ op[r].key \in Notified /\ ~CCFaults /\ e = "nil" => Record(op[r].key, s, c)
         /\ op[r].key \in Notified /\ ~CCFaults /\ e # "nil" =>
              UNCHANGED package /\ ~InState(op[r].key, "PROCESSING_UPLOAD")
         /\ told' = [told EXCEPT ![r] = s]
  <1>1. op[r].key \in Key /\ PackageTypeOK
    BY HandlerAssumption DEF TypeOK, Op
  <1>2. CASE op[r].key \in Notified
    <2>1. update(op[r].key, s, c, e)
      BY <1>2 DEF Notify
    <2>2. s \in PackageState
      BY DEF PackageState
    <2>3. QED
      BY <1>1, <1>2, <2>1, <2>2, UpdateFrame DEF Notify
  <1>3. CASE op[r].key \notin Notified
    BY <1>1, <1>3 DEF Notify, UpdateResult, PackageTypeOK
  <1>4. QED
    BY <1>2, <1>3

\* What happened is what the backend answered, or a failure it misreported.
LEMMA OutcomeFacts ==
  ASSUME NEW r \in Req, NEW method, NEW e \in Result, NEW did \in Outcomes(r, method, e)
  PROVE  /\ did \in Result
         /\ did # e => did = "error" /\ <<method, e>> \in Misreports
  BY BlobstoreAssumption DEF Outcomes, Meant, Misleading, Result

\* No backend says falsely that a directory is not there.
LEMMA DirMissesAreTrue ==
  ASSUME NEW r \in Req, NEW did \in Outcomes(r, "deleteDir", "notFound")
  PROVE  did = "notFound"
  BY BlobstoreAssumption DEF Outcomes, Meant, Misleading

\* The status codes a handler can write.
LEMMA Codes ==
  /\ \A s \in Nat :
       /\ writeResponseBasedOn("nil", s) = s
       /\ writeResponseBasedOn("notFound", s) = 404
       /\ writeResponseBasedOn("noSpace", s) = 507
       /\ writeResponseBasedOn("error", s) = 500
  /\ \A e \in UpdateResult \ {"nil"} : handleNotificationError(e) \in {400, 404, 500}
  /\ \A kind \in Kind : RefusalCodes(kind) \subseteq {400, 413, 422, 500, 507}
  /\ \A r \in Req : \A e \in {"nil", "notFound", "error"} :
       ReadCode(r, e) \in {200, 302, 304, 404, 500}
  BY DEF writeResponseBasedOn, handleNotificationError, UpdateResult, RefusalCodes, ReadCode

\* Every request has a key, and those that write have a content.
LEMMA OpFacts ==
  ASSUME TypeOK, NEW r \in Req
  PROVE  /\ op[r].key \in Key
         /\ op[r].kind \in Kind
         /\ op[r].content \in Content \cup {NoContent}
         /\ op[r].source # NoSource => op[r].source \in Key
         /\ op[r].async \in BOOLEAN
         /\ IsKind(r, {"upload", "digest"}) => op[r].content \in Content
  BY HandlerAssumption DEF TypeOK, Op, IsKind

-----------------------------------------------------------------------------
(* Type correctness.                                                        *)

\* Only uploads and digests get to a Put.
LEMMA NextPutsContent == TypeOK /\ PutsContent /\ [Next]_vars => PutsContent'
  <1> SUFFICES ASSUME TypeOK, PutsContent, [Next]_vars
               PROVE  PutsContent'
    OBVIOUS
  <1> USE DEF PutsContent, IsKind, Goto, Finish, TypeOK
  <1>1. ASSUME NEW r \in Req, RefuseBody(r) \/ StagingFails(r) \/ StageUpload(r)
                              \/ NotifyProcessingUpload(r) \/ ReadDigestBody(r)
        PROVE  PutsContent'
    BY <1>1 DEF RefuseBody, StagingFails, StageUpload, NotifyProcessingUpload, ReadDigestBody
  <1>2. ASSUME NEW r \in Req, PutSucceeds(r) \/ PutIsRetried(r) \/ PutFails(r)
                              \/ OpenTempFileFails(r)
        PROVE  PutsContent'
    BY <1>2 DEF PutSucceeds, PutIsRetried, PutFails, OpenTempFileFails
  <1>3. ASSUME NEW r \in Req, NotifyUploadSucceeded(r) \/ NotifyUploadFailed(r)
        PROVE  PutsContent'
    BY <1>3 DEF NotifyUploadSucceeded, NotifyUploadFailed, EndUpload
  <1>4. ASSUME NEW r \in Req, CopySourceGuid(r) \/ CopyWithoutSource(r) \/ Read(r)
                              \/ DeleteChecks(r) \/ DeleteRemoves(r) \/ RemoveDir(r)
        PROVE  PutsContent'
    BY <1>4 DEF CopySourceGuid, CopyWithoutSource, Read, DeleteChecks, DeleteRemoves, RemoveDir
  <1>5. ASSUME NEW r \in Req, Arrive(r) \/ AcceptAsync(r)
        PROVE  PutsContent'
    BY <1>5 DEF Arrive, AcceptAsync
  <1>6. CASE Crash \/ PackageForgotten \/ UNCHANGED vars
    BY <1>6 DEF Crash, PackageForgotten, vars, handlerVars
  <1>7. QED
    BY <1>1, <1>2, <1>3, <1>4, <1>5, <1>6 DEF Next, Work

\* Every step of a request's goroutine keeps the types.
LEMMA WorkTypeOK ==
  ASSUME TypeOK, PutsContent, NEW r \in Req, Work(r)
  PROVE  TypeOK'
  <1> USE DEF Goto, Finish, PC
  <1>0. /\ op[r].key \in Key /\ BlobTypeOK /\ PackageTypeOK
        /\ pc[r] = "put" => op[r].content \in Stored
    BY OpFacts DEF TypeOK, PutsContent, Stored
  <1>1. CASE RefuseBody(r)
    <2>1. RefusalCodes(op[r].kind) \subseteq Nat
      BY DEF RefusalCodes
    <2>2. QED
      BY <1>0, <1>1, <2>1 DEF RefuseBody, TypeOK, BlobTypeOK, PackageTypeOK, observations
  <1>2. CASE StagingFails(r)
    BY <1>2 DEF StagingFails, TypeOK, BlobTypeOK, PackageTypeOK, observations
  <1>3. CASE StageUpload(r)
    BY <1>3 DEF StageUpload, TypeOK, BlobTypeOK, PackageTypeOK, observations
  <1>4. CASE NotifyProcessingUpload(r)
    <2>1. PICK e \in UpdateResult :
            /\ Notify(r, "PROCESSING_UPLOAD", NoContent, e)
            /\ \/ e = "nil" /\ Goto(r, "put")
               \/ e # "nil" /\ Finish(r, handleNotificationError(e))
      BY <1>4 DEF NotifyProcessingUpload
    <2>2. PackageTypeOK' /\ told' = [told EXCEPT ![r] = "PROCESSING_UPLOAD"]
      BY <2>1, NotifyFrame
    <2>3. e # "nil" => handleNotificationError(e) \in Nat
      BY Codes
    <2>4. QED
      BY <1>4, <2>1, <2>2, <2>3 DEF NotifyProcessingUpload, TypeOK, BlobTypeOK
  <1>5. CASE ReadDigestBody(r)
    BY <1>5 DEF ReadDigestBody, TypeOK, BlobTypeOK, PackageTypeOK, observations
  <1>6. CASE PutSucceeds(r)
    <2>1. BlobTypeOK'
      BY <1>0, <1>6, PutFrame DEF PutSucceeds
    <2>2. QED
      BY <1>0, <1>6, <2>1, Codes DEF PutSucceeds, Wrote, TypeOK, PackageTypeOK
  <1>7. CASE PutIsRetried(r)
    <2>1. BlobTypeOK'
      BY <1>0, <1>7, PutFrame DEF PutIsRetried
    <2>2. QED
      BY <1>0, <1>7, <2>1, HandlerAssumption DEF PutIsRetried, Wrote, TypeOK, PackageTypeOK
  <1>8. CASE PutFails(r)
    <2>1. PICK e \in {"noSpace", "error"} :
            /\ Put(op[r].key, op[r].content, e)
            /\ \/ Goto(r, IF e = "noSpace" THEN "reportFull" ELSE "reportError")
               \/ Finish(r, writeResponseBasedOn(e, 201))
      BY <1>8 DEF PutFails
    <2>2. BlobTypeOK'
      BY <1>0, <1>8, <2>1, PutFrame DEF PutFails
    <2>3. QED
      BY <1>0, <1>8, <2>1, <2>2, Codes DEF PutFails, Wrote, TypeOK, PackageTypeOK
  <1>9. CASE OpenTempFileFails(r)
    BY <1>9 DEF OpenTempFileFails, TypeOK, BlobTypeOK, PackageTypeOK, observations
  <1>10. CASE NotifyUploadSucceeded(r)
    <2>1. PICK e \in UpdateResult :
            /\ Notify(r, "READY", op[r].content, e)
            /\ EndUpload(r, writeResponseBasedOn(IF e = "nil" THEN e ELSE "error", 201))
      BY <1>10 DEF NotifyUploadSucceeded
    <2>2. PackageTypeOK' /\ told' = [told EXCEPT ![r] = "READY"]
      BY <2>1, NotifyFrame, OpFacts
    <2>3. writeResponseBasedOn(IF e = "nil" THEN e ELSE "error", 201) \in Nat
      BY Codes
    <2>4. QED
      BY <1>10, <2>1, <2>2, <2>3 DEF NotifyUploadSucceeded, EndUpload, TypeOK, BlobTypeOK
  <1>11. CASE NotifyUploadFailed(r)
    <2>1. PICK e \in UpdateResult : Notify(r, "FAILED", NoContent, e)
      BY <1>11 DEF NotifyUploadFailed
    <2>2. PackageTypeOK' /\ told' = [told EXCEPT ![r] = "FAILED"]
      BY <2>1, NotifyFrame
    <2>3. writeResponseBasedOn(IF pc[r] = "reportFull" THEN "noSpace" ELSE "error", 201) \in Nat
      BY Codes
    <2>4. QED
      BY <1>11, <2>2, <2>3 DEF NotifyUploadFailed, EndUpload, TypeOK, BlobTypeOK
  <1>12. CASE CopySourceGuid(r)
    <2>1. PICK e \in Result, did \in Result :
            /\ did \in Outcomes(r, "copy", e)
            /\ Copy(op[r].source, op[r].key, did)
            /\ Finish(r, writeResponseBasedOn(e, 201))
            /\ Wrote(r, IF did = "notFound" THEN {} ELSE {op[r].key})
            /\ stored' = IF did = "nil" THEN stored \cup {r} ELSE stored
            /\ Hears(r, e, did)
      BY <1>12, OutcomeFacts DEF CopySourceGuid
    <2>2. op[r].source \in Key
      BY <1>12, OpFacts DEF CopySourceGuid
    <2>3. BlobTypeOK' /\ writeResponseBasedOn(e, 201) \in Nat
      BY <1>0, <2>1, <2>2, CopyFrame, Codes DEF Result
    <2>4. QED
      BY <1>12, <2>1, <2>3 DEF CopySourceGuid, Wrote, Hears, TypeOK, PackageTypeOK
  <1>13. CASE CopyWithoutSource(r)
    BY <1>13 DEF CopyWithoutSource, TypeOK, BlobTypeOK, PackageTypeOK, observations
  <1>14. CASE Read(r)
    <2>1. \A e \in {"nil", "notFound", "error"} : ReadCode(r, e) \in Nat
      BY Codes
    <2>2. QED
      BY <1>14, <2>1 DEF Read, Hears, TypeOK, BlobTypeOK, PackageTypeOK
  <1>15. CASE DeleteChecks(r)
    <2>1. \A e \in {"nil", "notFound", "error"} : writeResponseBasedOn(e, 204) \in Nat
      BY Codes
    <2>2. QED
      BY <1>15, <2>1 DEF DeleteChecks, Hears, TypeOK, BlobTypeOK, PackageTypeOK
  <1>16. CASE DeleteRemoves(r)
    <2>1. PICK e \in Result :
            /\ Delete(op[r].key, e)
            /\ Finish(r, writeResponseBasedOn(e, 204))
            /\ Wrote(r, IF e = "notFound" THEN {} ELSE {op[r].key})
      BY <1>16 DEF DeleteRemoves
    <2>2. BlobTypeOK' /\ writeResponseBasedOn(e, 204) \in Nat
      BY <1>0, <2>1, DeleteFrame, Codes DEF Result
    <2>3. QED
      BY <1>16, <2>1, <2>2 DEF DeleteRemoves, Wrote, TypeOK, PackageTypeOK
  <1>17. CASE RemoveDir(r)
    <2>1. PICK e \in Result, did \in Result :
            /\ did \in Outcomes(r, "deleteDir", e)
            /\ DeleteDir(op[r].key, did)
            /\ Finish(r, IF e = "notFound" THEN 204 ELSE writeResponseBasedOn(e, 204))
            /\ Wrote(r, IF did = "notFound" THEN {} ELSE Under[op[r].key])
            /\ Hears(r, e, did)
      BY <1>17, OutcomeFacts DEF RemoveDir
    <2>2. BlobTypeOK' /\ writeResponseBasedOn(e, 204) \in Nat
      BY <1>0, <2>1, DeleteDirFrame, Codes DEF Result
    <2>3. QED
      BY <1>17, <2>1, <2>2 DEF RemoveDir, Wrote, Hears, TypeOK, PackageTypeOK
  <1>18. QED
    BY <1>1, <1>2, <1>3, <1>4, <1>5, <1>6, <1>7, <1>8, <1>9, <1>10, <1>11, <1>12,
       <1>13, <1>14, <1>15, <1>16, <1>17 DEF Work

\* The steps outside the goroutines keep the types.
LEMMA OtherTypeOK ==
  ASSUME TypeOK
  PROVE  /\ \A r \in Req : Arrive(r) \/ AcceptAsync(r) => TypeOK'
         /\ Crash \/ PackageForgotten \/ UNCHANGED vars => TypeOK'
  <1>1. ASSUME NEW r \in Req, Arrive(r)
        PROVE  TypeOK'
    BY <1>1 DEF Arrive, Goto, PC, TypeOK, BlobTypeOK, PackageTypeOK, observations
  <1>2. ASSUME NEW r \in Req, AcceptAsync(r)
        PROVE  TypeOK'
    BY <1>2 DEF AcceptAsync, TypeOK, BlobTypeOK, PackageTypeOK, observations
  <1>3. CASE Crash
    BY <1>3, HandlerAssumption DEF Crash, PC, TypeOK, BlobTypeOK, PackageTypeOK, observations
  <1>4. CASE PackageForgotten
    <2>1. PackageTypeOK'
      BY <1>4, HandlerAssumption
         DEF PackageForgotten, ForgetPackage, Record, TypeOK, PackageTypeOK,
             Package, PackageState
    <2>2. QED
      BY <1>4, <2>1 DEF PackageForgotten, TypeOK, BlobTypeOK, handlerVars, observations
  <1>5. CASE UNCHANGED vars
    BY <1>5 DEF vars, handlerVars, observations, TypeOK, BlobTypeOK, PackageTypeOK
  <1>6. QED
    BY <1>1, <1>2, <1>3, <1>4, <1>5

LEMMA InitTypeOK == Init => TypeOK /\ PutsContent
  BY HandlerAssumption
     DEF Init, TypeOK, BlobTypeOK, PackageTypeOK, Package, PackageState, Stored, PC, PutsContent

LEMMA NextTypeOK == TypeOK /\ PutsContent /\ [Next]_vars => TypeOK' /\ PutsContent'
  BY WorkTypeOK, OtherTypeOK, NextPutsContent DEF Next

\* The state of the handlers has the shape TypeOK says in every behaviour.
THEOREM TypeCorrect == Spec => []TypeOK
  BY InitTypeOK, NextTypeOK, PTL DEF Spec

-----------------------------------------------------------------------------
(* What a step of one request leaves alone of the others.                   *)

\* A goroutine changes the variables of its own request only, and the bits
\* it may have changed are marked as its own.
LEMMA WorkFrame ==
  ASSUME TypeOK, PutsContent, NEW r \in Req, Work(r)
  PROVE  /\ op' = op
         /\ \A q \in Req \ {r} : /\ pc'[q] = pc[q] /\ resp'[q] = resp[q]
                                 /\ told'[q] = told[q]
                                 /\ q \in stored' <=> q \in stored
                                 /\ q \in temp' <=> q \in temp
                                 /\ q \in misled' <=> q \in misled
         /\ \A k \in Key : /\ writer'[k] \in {writer[k], r}
                           /\ writer'[k] # r => blob'[k] = blob[k]
  <1> USE DEF Goto, Finish, TypeOK
  <1>0. /\ op[r].key \in Key /\ BlobTypeOK
        /\ pc[r] = "put" => op[r].content \in Stored
        /\ op[r].source # NoSource => op[r].source \in Key
    BY OpFacts DEF PutsContent, Stored
  <1>1. CASE RefuseBody(r) \/ StagingFails(r) \/ StageUpload(r) \/ ReadDigestBody(r)
             \/ OpenTempFileFails(r) \/ CopyWithoutSource(r)
    BY <1>1 DEF RefuseBody, StagingFails, StageUpload, ReadDigestBody, OpenTempFileFails,
                CopyWithoutSource, observations
  <1>2. CASE NotifyProcessingUpload(r)
    BY <1>2 DEF NotifyProcessingUpload, Notify
  <1>3. CASE PutSucceeds(r)
    BY <1>0, <1>3, PutFrame DEF PutSucceeds, Wrote
  <1>4. CASE PutIsRetried(r)
    BY <1>0, <1>4, PutFrame DEF PutIsRetried, Wrote
  <1>5. CASE PutFails(r)
    BY <1>0, <1>5, PutFrame DEF PutFails, Wrote
  <1>6. CASE NotifyUploadSucceeded(r)
    BY <1>6 DEF NotifyUploadSucceeded, Notify, EndUpload
  <1>7. CASE NotifyUploadFailed(r)
    BY <1>7 DEF NotifyUploadFailed, Notify, EndUpload
  <1>8. CASE CopySourceGuid(r)
    BY <1>0, <1>8, CopyFrame DEF CopySourceGuid, Wrote, Hears
  <1>9. CASE DeleteRemoves(r)
    BY <1>0, <1>9, DeleteFrame DEF DeleteRemoves, Wrote
  <1>10. CASE RemoveDir(r)
    BY <1>0, <1>10, DeleteDirFrame DEF RemoveDir, Wrote, Hears
  <1>11. CASE Read(r) \/ DeleteChecks(r)
    BY <1>11 DEF Read, DeleteChecks, Hears
  <1>12. QED
    BY <1>1, <1>2, <1>3, <1>4, <1>5, <1>6, <1>7, <1>8, <1>9, <1>10, <1>11 DEF Work

-----------------------------------------------------------------------------
(* Progress: what is known of a request at each point.                      *)

\* A goroutine's own request is where its handler says it is.
LEMMA WorkAtPoint ==
  ASSUME TypeOK, PutsContent, Progress, NEW r \in Req, Work(r)
  PROVE  AtPoint(r)' /\ Truthful(r)' /\ TempOwned(r)'
  <1> USE DEF Goto, Finish, AtPoint, Truthful, TempOwned, AtUploadResource,
              Reporting, Untouched, IsKind, TypeOK
  <1>0. AtPoint(r) /\ Truthful(r) /\ TempOwned(r)
        /\ (pc[r] \in {"staged", "put"} => IsKind(r, {"upload", "digest"}))
    BY DEF Progress, PutsContent
  <1>1. CASE RefuseBody(r)
    <2>1. PICK code \in RefusalCodes(op[r].kind) : Finish(r, code)
      BY <1>1 DEF RefuseBody
    <2>2. code \notin {NoReply, 202}
      BY OpFacts, Codes
    <2>3. QED
      BY <1>0, <1>1, <2>1, <2>2 DEF RefuseBody, observations
  <1>2. CASE StagingFails(r) \/ StageUpload(r) \/ ReadDigestBody(r)
    BY <1>0, <1>2 DEF StagingFails, StageUpload, ReadDigestBody, observations
  <1>3. CASE NotifyProcessingUpload(r)
    BY <1>0, <1>3, Codes DEF NotifyProcessingUpload, Notify
  <1>4. CASE PutSucceeds(r)
    BY <1>0, <1>4, Codes DEF PutSucceeds
  <1>5. CASE PutIsRetried(r)
    BY <1>0, <1>5 DEF PutIsRetried
  <1>6. CASE PutFails(r)
    BY <1>0, <1>6, Codes DEF PutFails
  <1>7. CASE OpenTempFileFails(r)
    BY <1>0, <1>7 DEF OpenTempFileFails, observations
  <1>8. CASE NotifyUploadSucceeded(r)
    BY <1>0, <1>8, Codes DEF NotifyUploadSucceeded, Notify, EndUpload
  <1>9. CASE NotifyUploadFailed(r)
    BY <1>0, <1>9, Codes DEF NotifyUploadFailed, Notify, EndUpload
  <1>10. CASE CopySourceGuid(r)
    BY <1>0, <1>10 DEF CopySourceGuid
  <1>11. CASE CopyWithoutSource(r)
    BY <1>0, <1>11 DEF CopyWithoutSource, observations
  <1>12. CASE Read(r)
    BY <1>0, <1>12 DEF Read
  <1>13. CASE DeleteChecks(r)
    BY <1>0, <1>13 DEF DeleteChecks, observations
  <1>14. CASE DeleteRemoves(r)
    BY <1>0, <1>14 DEF DeleteRemoves
  <1>15. CASE RemoveDir(r)
    BY <1>0, <1>15 DEF RemoveDir
  <1>16. QED
    BY <1>1, <1>2, <1>3, <1>4, <1>5, <1>6, <1>7, <1>8, <1>9, <1>10, <1>11, <1>12,
       <1>13, <1>14, <1>15 DEF Work

\* The part of the safety properties that is about one request alone.
Answered(r) ==
  /\ resp[r] \in 400..499 =>
       /\ told[r] \notin {"READY", "FAILED"}
       /\ Untouched(r) \/ (IsKind(r, {"copy"}) /\ Misled(r, "notFound"))
  /\ resp[r] = 201 =>
       /\ r \in stored \/ (IsKind(r, {"copy"}) /\ Misled(r, "nil"))
       /\ IsKind(r, {"upload"}) => told[r] = "READY"
  /\ IsKind(r, {"upload"}) /\ AtUploadResource(r) => r \in temp
  /\ r \in temp /\ pc[r] = "done" => resp[r] \in {400, 404, 500}
                                  /\ told[r] \in {"none", "PROCESSING_UPLOAD"}

LEMMA AnsweredIsSafe ==
  (RefusedLeavesNoTrace /\ CreatedMeansStored /\ TempFileLifetime)
    <=> \A r \in Req : Answered(r)
  BY DEF RefusedLeavesNoTrace, CreatedMeansStored, TempFileLifetime, Answered,
         Untouched, AtUploadResource

\* A goroutine's answer is about what it did.
LEMMA WorkAnswered ==
  ASSUME TypeOK, PutsContent, Progress, NEW r \in Req, Answered(r), Work(r)
  PROVE  Answered(r)'
  <1> USE DEF Goto, Finish, Answered, AtUploadResource, Reporting, Untouched, IsKind, TypeOK
  <1>0. AtPoint(r) /\ Truthful(r) /\ TempOwned(r)
    BY DEF Progress
  <1> USE DEF AtPoint, Truthful, TempOwned
  <1>1. CASE RefuseBody(r) \/ StagingFails(r) \/ StageUpload(r) \/ ReadDigestBody(r)
             \/ OpenTempFileFails(r) \/ CopyWithoutSource(r)
    <2>1. RefusalCodes(op[r].kind) \subseteq {400, 413, 422, 500, 507}
      BY OpFacts, Codes
    <2>2. CASE RefuseBody(r)
      BY <1>0, <2>1, <2>2 DEF RefuseBody, observations
    <2>3. CASE StagingFails(r) \/ StageUpload(r) \/ ReadDigestBody(r)
               \/ OpenTempFileFails(r) \/ CopyWithoutSource(r)
      BY <1>0, <2>3 DEF StagingFails, StageUpload, ReadDigestBody, OpenTempFileFails,
                        CopyWithoutSource, observations
    <2>4. QED
      BY <1>1, <2>2, <2>3
  <1>2. CASE NotifyProcessingUpload(r)
    BY <1>0, <1>2, Codes DEF NotifyProcessingUpload, Notify
  <1>3. CASE PutSucceeds(r)
    BY <1>0, <1>3, Codes DEF PutSucceeds
  <1>4. CASE PutIsRetried(r)
    BY <1>0, <1>4 DEF PutIsRetried
  <1>5. CASE PutFails(r)
    BY <1>0, <1>5, Codes DEF PutFails
  <1>6. CASE NotifyUploadSucceeded(r)
    BY <1>0, <1>6, Codes DEF NotifyUploadSucceeded, Notify, EndUpload
  <1>7. CASE NotifyUploadFailed(r)
    BY <1>0, <1>7, Codes DEF NotifyUploadFailed, Notify, EndUpload
  <1>8. CASE CopySourceGuid(r)
    <2> HIDE DEF Finish, Answered, Untouched, AtUploadResource, Reporting, TypeOK,
                 AtPoint, Truthful, TempOwned
    <2>1. PICK e \in Result, did \in Result :
            /\ did \in Outcomes(r, "copy", e)
            /\ Finish(r, writeResponseBasedOn(e, 201))
            /\ Wrote(r, IF did = "notFound" THEN {} ELSE {op[r].key})
            /\ stored' = IF did = "nil" THEN stored \cup {r} ELSE stored
            /\ Hears(r, e, did)
      BY <1>8, OutcomeFacts DEF CopySourceGuid
    <2>2. /\ resp'[r] \in {201, 404, 500, 507}
          /\ resp'[r] = 404 => e = "notFound"
          /\ resp'[r] = 201 => e = "nil"
      BY <2>1, Codes DEF Result, Finish, TypeOK
    <2>3. pc[r] = "arrived" /\ pc'[r] = "done" /\ op[r].kind = "copy"
          /\ UNCHANGED <<op, temp, told>>
      BY <1>8, <2>1 DEF CopySourceGuid, Finish, IsKind, TypeOK
    <2>4. did # e => Misled(r, e)'
      BY <2>1, <2>3, OutcomeFacts DEF Misled, Hears
    <2>5. resp'[r] = 404 => Untouched(r)' \/ Misled(r, "notFound")'
      <3>1. ASSUME e = "notFound", did = e
            PROVE  Untouched(r)'
        BY <1>0, <2>1, <2>3, <3>1 DEF Wrote, Untouched, TypeOK, AtPoint
      <3>2. QED
        BY <2>2, <2>4, <3>1
    <2>6. resp'[r] = 201 => r \in stored' \/ Misled(r, "nil")'
      BY <2>1, <2>2, <2>4
    <2>7. QED
      BY <1>0, <2>2, <2>3, <2>5, <2>6
         DEF Answered, AtUploadResource, Reporting, IsKind, AtPoint, Truthful, TempOwned
  <1>9. CASE DeleteRemoves(r)
    <2> HIDE DEF Finish, Answered, Untouched, AtUploadResource, Reporting, TypeOK,
                 AtPoint, Truthful, TempOwned
    <2>1. PICK e \in Result :
            /\ Finish(r, writeResponseBasedOn(e, 204))
            /\ Wrote(r, IF e = "notFound" THEN {} ELSE {op[r].key})
      BY <1>9 DEF DeleteRemoves
    <2>2. resp'[r] \in {204, 404, 500, 507} /\ (resp'[r] = 404 => e = "notFound")
      BY <2>1, Codes DEF Result, Finish, TypeOK
    <2>3. pc[r] = "delete" /\ pc'[r] = "done"
          /\ UNCHANGED <<op, temp, told, stored>>
      BY <1>9, <2>1 DEF DeleteRemoves, Finish, TypeOK
    <2>4. resp'[r] = 404 => Untouched(r)'
      BY <1>0, <2>1, <2>2, <2>3 DEF Wrote, Untouched, TypeOK, AtPoint, Truthful
    <2>5. QED
      BY <1>0, <2>2, <2>3, <2>4
         DEF Answered, AtUploadResource, Reporting, TypeOK, AtPoint, Truthful, TempOwned
  <1>10. CASE RemoveDir(r)
    <2>1. resp'[r] \in {204, 500, 507}
      BY <1>10, Codes DEF RemoveDir, Result
    <2>2. QED
      BY <1>0, <1>10, <2>1 DEF RemoveDir
  <1>11. CASE Read(r)
    <2>1. resp'[r] \in {200, 302, 304, 404, 500}
      BY <1>11, Codes DEF Read
    <2>2. QED
      BY <1>0, <1>11, <2>1 DEF Read
  <1>12. CASE DeleteChecks(r)
    <2>1. resp'[r] \in {resp[r], 404, 500}
      BY <1>12, Codes DEF DeleteChecks
    <2>2. QED
      BY <1>0, <1>12, <2>1 DEF DeleteChecks
  <1>13. QED
    BY <1>1, <1>2, <1>3, <1>4, <1>5, <1>6, <1>7, <1>8, <1>9, <1>10, <1>11, <1>12 DEF Work

\* What is known of one request, together.
Known(r) == AtPoint(r) /\ Truthful(r) /\ TempOwned(r) /\ Answered(r)

LEMMA NextKnown ==
  ASSUME TypeOK, PutsContent, \A r \in Req : Known(r), [Next]_vars
  PROVE  \A r \in Req : Known(r)'
  <1>0. Progress
    BY DEF Progress, Known
  <1> USE DEF AtPoint, Truthful, TempOwned, Answered, Known, AtUploadResource, Reporting,
              Untouched, IsKind, Misled
  <1>1. ASSUME NEW r \in Req, Work(r), NEW q \in Req
        PROVE  Known(q)'
    <2>1. CASE q = r
      <3>1. Answered(r)
        OBVIOUS
      <3>2. AtPoint(r)' /\ Truthful(r)' /\ TempOwned(r)'
        BY <1>0, <1>1, WorkAtPoint
      <3>3. Answered(r)'
        BY <1>0, <1>1, <3>1, WorkAnswered
      <3>4. QED
        BY <2>1, <3>2, <3>3
    <2>2. CASE q # r
      <3>1. /\ op' = op
            /\ pc'[q] = pc[q] /\ resp'[q] = resp[q] /\ told'[q] = told[q]
            /\ q \in stored' <=> q \in stored
            /\ q \in temp' <=> q \in temp
            /\ q \in misled' <=> q \in misled
        BY <1>1, <2>2, WorkFrame
      <3>2. Untouched(q) => Untouched(q)'
        BY <1>1, <2>2, WorkFrame
      <3>3. QED
        BY <3>1, <3>2
    <2>3. QED
      BY <2>1, <2>2
  <1>2. ASSUME NEW r \in Req, Arrive(r) \/ AcceptAsync(r), NEW q \in Req
        PROVE  Known(q)'
    BY <1>2 DEF Arrive, AcceptAsync, Goto, observations, TypeOK
  <1>3. ASSUME Crash, NEW q \in Req
        PROVE  Known(q)'
    BY <1>3 DEF Crash, Live, observations, TypeOK
  <1>4. ASSUME PackageForgotten \/ UNCHANGED vars, NEW q \in Req
        PROVE  Known(q)'
    BY <1>4 DEF PackageForgotten, vars, handlerVars, observations
  <1>5. QED
    BY <1>1, <1>2, <1>3, <1>4 DEF Next

-----------------------------------------------------------------------------
(* The bits: who wrote them, and what they are.                             *)

\* A goroutine that leaves its mark on a key has written there, in this step
\* or before; an upload writes its own key.
LEMMA WorkWrites ==
  ASSUME TypeOK, PutsContent, Progress, NEW r \in Req, Work(r), NEW k \in Key,
         writer'[k] = r, IsKind(r, {"upload", "digest"})
  PROVE  writer[k] = r \/ op[r].key = k
  <1>0. AtPoint(r)
    BY DEF Progress
  <1> USE DEF TypeOK, Wrote, IsKind, AtPoint
  <1>1. CASE PutSucceeds(r) \/ PutIsRetried(r) \/ PutFails(r)
    BY <1>1 DEF PutSucceeds, PutIsRetried, PutFails
  <1>2. CASE CopySourceGuid(r) \/ DeleteRemoves(r) \/ RemoveDir(r)
    BY <1>0, <1>2 DEF CopySourceGuid, DeleteRemoves, RemoveDir
  <1>3. CASE NotifyProcessingUpload(r) \/ NotifyUploadSucceeded(r) \/ NotifyUploadFailed(r)
    BY <1>3 DEF NotifyProcessingUpload, NotifyUploadSucceeded, NotifyUploadFailed
  <1>4. CASE RefuseBody(r) \/ StagingFails(r) \/ StageUpload(r) \/ ReadDigestBody(r)
             \/ OpenTempFileFails(r) \/ CopyWithoutSource(r) \/ Read(r) \/ DeleteChecks(r)
    BY <1>4 DEF RefuseBody, StagingFails, StageUpload, ReadDigestBody, OpenTempFileFails,
                CopyWithoutSource, Read, DeleteChecks, observations
  <1>5. QED
    BY <1>1, <1>2, <1>3, <1>4 DEF Work

LEMMA NextWriterOwnsKey ==
  ASSUME TypeOK, PutsContent, Progress, WriterOwnsKey, [Next]_vars
  PROVE  WriterOwnsKey'
  <1>1. ASSUME NEW r \in Req, Work(r)
        PROVE  WriterOwnsKey'
    <2> SUFFICES ASSUME NEW k \in Key, NEW q \in Req, writer'[k] = q,
                        IsKind(q, {"upload", "digest"})'
                 PROVE  op'[q].key = k
      BY DEF WriterOwnsKey
    <2>1. op' = op /\ writer'[k] \in {writer[k], r}
      BY <1>1, WorkFrame
    <2>2. IsKind(q, {"upload", "digest"})
      BY <2>1 DEF IsKind
    <2>3. writer[k] = q \/ op[q].key = k
      BY <1>1, <2>1, <2>2, WorkWrites
    <2>4. QED
      BY <2>1, <2>2, <2>3 DEF WriterOwnsKey
  <1>2. ASSUME NEW r \in Req, Arrive(r) \/ AcceptAsync(r)
        PROVE  WriterOwnsKey'
    BY <1>2 DEF Arrive, AcceptAsync, observations, WriterOwnsKey, IsKind
  <1>3. CASE Crash \/ PackageForgotten \/ UNCHANGED vars
    BY <1>3 DEF Crash, PackageForgotten, vars, handlerVars, observations, WriterOwnsKey, IsKind
  <1>4. QED
    BY <1>1, <1>2, <1>3 DEF Next

\* What LastWriteIsIntact says of one key and one request.
Intact(k, r) ==
  /\ r \in stored => IF IsKind(r, {"copy"}) THEN Exists(k) ELSE blob[k] = op[r].content
  /\ resp[r] = 204 => blob[k] = Absent \/ Misled(r, "nil")

\* After a step of its own, the last writer of a key finds what it sent.
LEMMA WorkIntact ==
  ASSUME TypeOK, PutsContent, Progress, WriterOwnsKey, LastWriteIsIntact,
         NEW r \in Req, Work(r), NEW k \in Key, writer'[k] = r
  PROVE  Intact(k, r)'
  <1>0. /\ AtPoint(r) /\ op[r].key \in Key /\ BlobTypeOK
        /\ pc[r] = "put" => IsKind(r, {"upload", "digest"}) /\ op[r].content \in Stored
        /\ op[r].source # NoSource => op[r].source \in Key
    BY OpFacts DEF Progress, PutsContent, TypeOK, Stored
  <1>a. writer[k] = r => Intact(k, r)
    BY DEF LastWriteIsIntact, Intact
  <1> USE DEF Goto, Finish, Wrote, Intact, Exists, IsKind, Misled, TypeOK
  <1>1. CASE RefuseBody(r) \/ Read(r) \/ DeleteChecks(r)
    BY <1>0, <1>1 DEF RefuseBody, Read, DeleteChecks, observations, AtPoint, Untouched
  <1>2. CASE StagingFails(r) \/ StageUpload(r) \/ ReadDigestBody(r)
             \/ OpenTempFileFails(r) \/ CopyWithoutSource(r)
    BY <1>0, <1>2, <1>a DEF StagingFails, StageUpload, ReadDigestBody, OpenTempFileFails,
                CopyWithoutSource, observations
  <1>3. CASE NotifyProcessingUpload(r)
    BY <1>0, <1>3, <1>a, Codes DEF NotifyProcessingUpload, Notify
  <1>4. CASE PutSucceeds(r)
    <2>1. op[r].key = k
      BY <1>0, <1>4 DEF PutSucceeds, WriterOwnsKey
    <2>2. blob'[k] = op[r].content
      BY <1>0, <1>4, <2>1, PutFrame DEF PutSucceeds
    <2>3. resp'[r] # 204
      BY <1>0, <1>4, Codes DEF PutSucceeds, AtPoint, AtUploadResource
    <2>4. QED
      BY <1>4, <2>2, <2>3 DEF PutSucceeds
  <1>5. CASE PutIsRetried(r)
    BY <1>0, <1>5 DEF PutIsRetried, AtPoint, AtUploadResource
  <1>6. CASE PutFails(r)
    <2>1. r \notin stored' /\ resp'[r] # 204
      BY <1>0, <1>6, Codes DEF PutFails, AtPoint, AtUploadResource
    <2>2. QED
      BY <2>1
  <1>7. CASE NotifyUploadSucceeded(r)
    <2>1. resp'[r] # 204
      BY <1>0, <1>7, Codes DEF NotifyUploadSucceeded, EndUpload, AtPoint, AtUploadResource
    <2>2. QED
      BY <1>7, <1>a, <2>1 DEF NotifyUploadSucceeded
  <1>8. CASE NotifyUploadFailed(r)
    <2>1. resp'[r] # 204
      BY <1>0, <1>8, Codes DEF NotifyUploadFailed, EndUpload, AtPoint, AtUploadResource
    <2>2. QED
      BY <1>8, <1>a, <2>1 DEF NotifyUploadFailed
  <1>9. CASE CopySourceGuid(r)
    <2>1. PICK e \in Result, did \in Result :
            /\ Copy(op[r].source, op[r].key, did)
            /\ Wrote(r, IF did = "notFound" THEN {} ELSE {op[r].key})
            /\ stored' = IF did = "nil" THEN stored \cup {r} ELSE stored
      BY <1>9, OutcomeFacts DEF CopySourceGuid
    <2>2. resp'[r] # 204
      BY <1>9, Codes DEF CopySourceGuid, Result
    <2>3. r \notin stored /\ op[r].key = k /\ op'[r].kind = "copy"
      BY <1>0, <1>9, <2>1 DEF CopySourceGuid, AtPoint, Untouched
    <2>4. did = "nil" => blob'[k] # Absent
      BY <1>0, <1>9, <2>1, <2>3, CopyFrame DEF CopySourceGuid
    <2>5. QED
      BY <2>1, <2>2, <2>3, <2>4
  <1>10. CASE DeleteRemoves(r)
    <2>1. PICK e \in Result :
            /\ Delete(op[r].key, e)
            /\ Finish(r, writeResponseBasedOn(e, 204))
            /\ Wrote(r, IF e = "notFound" THEN {} ELSE {op[r].key})
      BY <1>10 DEF DeleteRemoves
    <2>2. resp'[r] = 204 => e = "nil"
      BY <2>1, <1>10, Codes DEF Result, DeleteRemoves
    <2>3. op[r].key = k
      BY <1>0, <1>10, <2>1 DEF DeleteRemoves, AtPoint, Untouched
    <2>4. e = "nil" => blob'[k] = Absent
      BY <1>0, <2>1, <2>3, DeleteFrame
    <2>5. r \notin stored'
      BY <1>0, <1>10 DEF DeleteRemoves, AtPoint
    <2>6. QED
      BY <2>2, <2>4, <2>5
  <1>11. CASE RemoveDir(r)
    <2>1. PICK e \in Result, did \in Result :
            /\ did \in Outcomes(r, "deleteDir", e)
            /\ DeleteDir(op[r].key, did)
            /\ Finish(r, IF e = "notFound" THEN 204 ELSE writeResponseBasedOn(e, 204))
            /\ Wrote(r, IF did = "notFound" THEN {} ELSE Under[op[r].key])
            /\ Hears(r, e, did)
      BY <1>11, OutcomeFacts DEF RemoveDir
    <2>2. resp'[r] = 204 => e \in {"nil", "notFound"}
      BY <2>1, <1>11, Codes DEF Result, RemoveDir
    <2>3. did # "notFound" /\ k \in Under[op[r].key]
      BY <1>0, <1>11, <2>1 DEF RemoveDir, AtPoint, Untouched
    <2>4. did = "nil" => blob'[k] = Absent
      BY <1>0, <2>1, <2>3, DeleteDirFrame
    <2>5. did # e => Misled(r, e)'
      BY <1>11, <2>1, OutcomeFacts DEF RemoveDir, Hears
    <2>6. e = "notFound" => did = e
      <3>1. did \in Outcomes(r, "deleteDir", e)
        BY <2>1
      <3>2. QED
        BY <3>1, DirMissesAreTrue, Zenon
    <2>7. r \notin stored'
      BY <1>0, <1>11 DEF RemoveDir, AtPoint
    <2>8. resp'[r] = 204 => blob'[k] = Absent \/ Misled(r, "nil")'
      <3> HIDE DEF Misled
      <3>1. QED
        BY <2>2, <2>3, <2>4, <2>5, <2>6
    <2>9. QED
      BY <2>7, <2>8
  <1>12. QED
    BY <1>1, <1>2, <1>3, <1>4, <1>5, <1>6, <1>7, <1>8, <1>9, <1>10, <1>11 DEF Work

LEMMA NextIntact ==
  ASSUME TypeOK, PutsContent, Progress, WriterOwnsKey, LastWriteIsIntact, [Next]_vars
  PROVE  LastWriteIsIntact'
  <1>1. ASSUME NEW r \in Req, Work(r)
        PROVE  LastWriteIsIntact'
    <2> SUFFICES ASSUME NEW k \in Key, NEW q \in Req, writer'[k] = q
                 PROVE  Intact(k, q)'
      BY DEF LastWriteIsIntact, Intact
    <2>1. CASE q = r
      BY <1>1, <2>1, WorkIntact
    <2>2. CASE q # r
      <3>1. /\ op' = op /\ resp'[q] = resp[q]
            /\ q \in stored' <=> q \in stored
            /\ q \in misled' <=> q \in misled
            /\ writer[k] = q /\ blob'[k] = blob[k]
        BY <1>1, <2>2, WorkFrame
      <3>2. QED
        BY <3>1 DEF LastWriteIsIntact, Intact, Exists, Misled, IsKind
    <2>3. QED
      BY <2>1, <2>2
  <1>2. ASSUME NEW r \in Req, Arrive(r) \/ AcceptAsync(r)
        PROVE  LastWriteIsIntact'
    BY <1>2 DEF Arrive, AcceptAsync, Goto, observations, LastWriteIsIntact, Exists, Misled,
                IsKind, TypeOK
  <1>3. CASE Crash \/ PackageForgotten \/ UNCHANGED vars
    BY <1>3 DEF Crash, PackageForgotten, vars, handlerVars, observations,
                LastWriteIsIntact, Exists, Misled, IsKind
  <1>4. QED
    BY <1>1, <1>2, <1>3 DEF Next

-----------------------------------------------------------------------------
(* The packages: what the Cloud Controller records, and why.                *)

\* A record changes one package.
LEMMA RecordFrame ==
  ASSUME PackageTypeOK, NEW j \in Key, NEW s, NEW c, Record(j, s, c), NEW k \in Key
  PROVE  /\ k = j => package'[k].state = s /\ package'[k].checksum = c
         /\ k # j => package'[k] = package[k]
  BY DEF Record, PackageTypeOK

\* Work is not over.
LEMMA WorkIsLive ==
  ASSUME NEW r \in Req, Work(r)
  PROVE  pc[r] \notin {"idle", "done", "killed"}
  BY DEF Work, RefuseBody, StagingFails, StageUpload, NotifyProcessingUpload, ReadDigestBody,
         PutSucceeds, PutIsRetried, PutFails, OpenTempFileFails, NotifyUploadSucceeded,
         NotifyUploadFailed, Reporting, CopySourceGuid, CopyWithoutSource, Read,
         DeleteChecks, DeleteRemoves, RemoveDir

\* A goroutine records nothing, or what its upload has come to.
LEMMA WorkRecords ==
  ASSUME TypeOK, PutsContent, Progress, NEW r \in Req, Work(r)
  PROVE  \/ UNCHANGED package
         \/ /\ op[r].key \in Notified /\ IsKind(r, {"upload"})
            /\ \/ Record(op[r].key, "PROCESSING_UPLOAD", NoContent)
               \/ /\ Record(op[r].key, "READY", op[r].content)
                  /\ told'[r] = "READY" /\ r \in stored'
               \/ /\ Record(op[r].key, "FAILED", NoContent)
                  /\ told'[r] = "FAILED" /\ r \notin stored'
  <1>0. AtPoint(r)
    BY DEF Progress
  <1>1. CASE NotifyProcessingUpload(r)
    <2>1. PICK e \in UpdateResult : Notify(r, "PROCESSING_UPLOAD", NoContent, e)
      BY <1>1 DEF NotifyProcessingUpload
    <2>2. IsKind(r, {"upload"})
      BY <1>0, <1>1 DEF NotifyProcessingUpload, AtPoint
    <2>3. QED
      BY <2>1, <2>2, NotifyFrame
  <1>2. CASE NotifyUploadSucceeded(r)
    <2>1. PICK e \in UpdateResult : Notify(r, "READY", op[r].content, e)
      BY <1>2 DEF NotifyUploadSucceeded
    <2>2. IsKind(r, {"upload"}) /\ r \in stored'
      BY <1>0, <1>2 DEF NotifyUploadSucceeded, AtPoint
    <2>3. told'[r] = "READY"
      BY <2>1, OpFacts, NotifyFrame DEF TypeOK
    <2>4. QED
      BY <2>1, <2>2, <2>3, OpFacts, NotifyFrame
  <1>3. CASE NotifyUploadFailed(r)
    <2>1. PICK e \in UpdateResult : Notify(r, "FAILED", NoContent, e)
      BY <1>3 DEF NotifyUploadFailed
    <2>2. IsKind(r, {"upload"}) /\ r \notin stored'
      BY <1>0, <1>3 DEF NotifyUploadFailed, AtPoint
    <2>3. told'[r] = "FAILED"
      BY <2>1, NotifyFrame DEF TypeOK
    <2>4. QED
      BY <2>1, <2>2, <2>3, NotifyFrame
  <1>4. CASE RefuseBody(r) \/ StagingFails(r) \/ StageUpload(r) \/ ReadDigestBody(r)
             \/ OpenTempFileFails(r) \/ CopyWithoutSource(r) \/ Read(r) \/ DeleteChecks(r)
    BY <1>4 DEF RefuseBody, StagingFails, StageUpload, ReadDigestBody, OpenTempFileFails,
                CopyWithoutSource, Read, DeleteChecks
  <1>5. CASE \/ PutSucceeds(r) \/ PutIsRetried(r) \/ PutFails(r)
             \/ CopySourceGuid(r) \/ DeleteRemoves(r) \/ RemoveDir(r)
    BY <1>5 DEF PutSucceeds, PutIsRetried, PutFails, CopySourceGuid, DeleteRemoves, RemoveDir
  <1>6. QED
    BY <1>1, <1>2, <1>3, <1>4, <1>5 DEF Work

\* A verdict that was sent stands: its request does nothing more.
LEMMA WorkKeepsVerdicts ==
  ASSUME TypeOK, PutsContent, Progress, NEW r \in Req, Work(r),
         NEW q \in Req, told[q] \in {"READY", "FAILED"}
  PROVE  told'[q] = told[q] /\ (q \in stored' <=> q \in stored)
  <1>1. pc[q] \in {"done", "killed"}
    BY DEF Progress, Truthful
  <1>2. q # r
    BY <1>1, WorkIsLive
  <1>3. QED
    BY <1>2, WorkFrame

LEMMA NextVerdicts ==
  ASSUME TypeOK, PutsContent, Progress, VerdictsAreTrue, [Next]_vars
  PROVE  VerdictsAreTrue'
  <1>1. ASSUME NEW r \in Req, Work(r)
        PROVE  VerdictsAreTrue'
    <2>0. op' = op /\ op[r].key \in Key
      BY <1>1, WorkFrame, OpFacts
    <2>1. ASSUME NEW k \in Key, package'[k].state = "READY"
          PROVE  \E q \in stored' : UploadOf(q, k)' /\ told'[q] = "READY"
                                    /\ package'[k].checksum = op'[q].content
      <3>1. CASE package'[k] = package[k]
        <4>1. PICK q \in stored : UploadOf(q, k) /\ told[q] = "READY"
                                  /\ package[k].checksum = op[q].content
          BY <2>1, <3>1 DEF VerdictsAreTrue, InState
        <4>2. q \in stored' /\ told'[q] = "READY"
          BY <1>1, <4>1, WorkKeepsVerdicts DEF TypeOK
        <4>3. QED
          BY <2>0, <3>1, <4>1, <4>2 DEF UploadOf
      <3>2. CASE package'[k] # package[k]
        <4>1. /\ k = op[r].key /\ IsKind(r, {"upload"})
              /\ told'[r] = "READY" /\ r \in stored'
              /\ package'[k].checksum = op[r].content
          BY <1>1, <2>0, <2>1, <3>2, WorkRecords, RecordFrame DEF TypeOK
        <4>2. QED
          BY <2>0, <4>1 DEF UploadOf, IsKind
      <3>3. QED
        BY <3>1, <3>2
    <2>2. ASSUME NEW k \in Key, package'[k].state = "FAILED"
          PROVE  \E q \in Req \ stored' : UploadOf(q, k)' /\ told'[q] = "FAILED"
      <3>1. CASE package'[k] = package[k]
        <4>1. PICK q \in Req \ stored : UploadOf(q, k) /\ told[q] = "FAILED"
          BY <2>2, <3>1 DEF VerdictsAreTrue, InState
        <4>2. q \notin stored' /\ told'[q] = "FAILED"
          BY <1>1, <4>1, WorkKeepsVerdicts
        <4>3. QED
          BY <2>0, <4>1, <4>2 DEF UploadOf
      <3>2. CASE package'[k] # package[k]
        <4>1. /\ k = op[r].key /\ IsKind(r, {"upload"})
              /\ told'[r] = "FAILED" /\ r \notin stored'
          BY <1>1, <2>0, <2>2, <3>2, WorkRecords, RecordFrame DEF TypeOK
        <4>2. QED
          BY <2>0, <4>1 DEF UploadOf, IsKind
      <3>3. QED
        BY <3>1, <3>2
    <2>3. QED
      BY <2>1, <2>2 DEF VerdictsAreTrue, InState
  <1>2. ASSUME NEW r \in Req, Arrive(r) \/ AcceptAsync(r)
        PROVE  VerdictsAreTrue'
    BY <1>2 DEF Arrive, AcceptAsync, observations, VerdictsAreTrue, InState, UploadOf
  <1>3. CASE Crash \/ UNCHANGED vars
    BY <1>3 DEF Crash, vars, handlerVars, observations, VerdictsAreTrue, InState, UploadOf
  <1>4. CASE PackageForgotten
    BY <1>4 DEF PackageForgotten, ForgetPackage, Record, handlerVars, observations,
                VerdictsAreTrue, InState, UploadOf, TypeOK, PackageTypeOK
  <1>5. QED
    BY <1>1, <1>2, <1>3, <1>4 DEF Next

LEMMA NextNullUpdaterIsNull ==
  ASSUME TypeOK, PutsContent, Progress, NullUpdaterIsNull, [Next]_vars
  PROVE  NullUpdaterIsNull'
  <1> SUFFICES ASSUME NEW k \in Key \ Notified
               PROVE  package'[k] = package[k]
    BY DEF NullUpdaterIsNull, InState
  <1>1. ASSUME NEW r \in Req, Work(r)
        PROVE  package'[k] = package[k]
    <2>1. CASE UNCHANGED package
      BY <2>1
    <2>2. CASE /\ op[r].key \in Notified
               /\ \E s, c : Record(op[r].key, s, c)
      BY <2>2, OpFacts, RecordFrame DEF TypeOK
    <2>3. QED
      BY <1>1, <2>1, <2>2, WorkRecords
  <1>2. ASSUME NEW r \in Req, Arrive(r) \/ AcceptAsync(r)
        PROVE  UNCHANGED package
    BY <1>2 DEF Arrive, AcceptAsync
  <1>3. Crash \/ UNCHANGED vars => UNCHANGED package
    BY DEF Crash, vars
  <1>4. PackageForgotten => package'[k] = package[k]
    BY HandlerAssumption, RecordFrame DEF PackageForgotten, ForgetPackage, TypeOK
  <1>5. QED
    BY <1>1, <1>2, <1>3, <1>4 DEF Next

\* r is the upload that package k waits for.
Owner(r, k) ==
  /\ UploadOf(r, k)
  /\ told[r] = "PROCESSING_UPLOAD"
  /\ pc[r] \in {"put", "notifyReady", "killed"} \cup Reporting

\* When no call is lost, a goroutine that ends its ownership takes the
\* package out of PROCESSING_UPLOAD, and one that puts it there owns it.
LEMMA WorkOwner ==
  ASSUME TypeOK, PutsContent, Progress, NEW r \in Req, Work(r), ~CCFaults,
         NEW k \in Notified, package'[k].state = "PROCESSING_UPLOAD",
         Owner(r, k) \/ package'[k] # package[k]
  PROVE  Owner(r, k)'
  <1>0. AtPoint(r) /\ op[r].key \in Key /\ op' = op /\ k \in Key
    BY WorkFrame, OpFacts, HandlerAssumption DEF Progress
  <1>k. op[r].key \in Notified
    BY WorkRecords DEF Owner, UploadOf
  <1> USE DEF Goto, Finish, Owner, UploadOf, Reporting
  <1>1. CASE NotifyProcessingUpload(r)
    <2>1. PICK e \in UpdateResult :
            /\ Notify(r, "PROCESSING_UPLOAD", NoContent, e)
            /\ \/ e = "nil" /\ Goto(r, "put")
               \/ e # "nil" /\ Finish(r, handleNotificationError(e))
      BY <1>1 DEF NotifyProcessingUpload
    <2>2. pc[r] = "staged" /\ IsKind(r, {"upload"}) /\ ~Owner(r, k)
      BY <1>0, <1>1 DEF NotifyProcessingUpload, AtPoint
    <2>a. package'[k] # package[k]
      BY <2>2
    <2>b. e = "nil" /\ Record(op[r].key, "PROCESSING_UPLOAD", NoContent)
      BY <2>1, <2>a, NotifyFrame, <1>k
    <2>3. e = "nil" /\ k = op[r].key
      BY <1>0, <2>a, <2>b, RecordFrame DEF TypeOK
    <2>4. told'[r] = "PROCESSING_UPLOAD"
      BY <2>1, NotifyFrame DEF TypeOK
    <2>5. QED
      BY <1>0, <2>1, <2>2, <2>3, <2>4 DEF IsKind, TypeOK
  <1>2. CASE NotifyUploadSucceeded(r)
    <2>1. PICK e \in UpdateResult : Notify(r, "READY", op[r].content, e)
      BY <1>2 DEF NotifyUploadSucceeded
    <2>2. CASE e = "nil"
      <3>1. Record(op[r].key, "READY", op[r].content)
        BY <2>1, <2>2, OpFacts, NotifyFrame, <1>k
      <3>2. k # op[r].key /\ package'[k] = package[k]
        BY <1>0, <3>1, RecordFrame DEF TypeOK
      <3>3. QED
        BY <3>2
    <2>3. CASE e # "nil"
      <3>1. UNCHANGED package /\ ~InState(op[r].key, "PROCESSING_UPLOAD")
        BY <2>1, <2>3, OpFacts, NotifyFrame, <1>k
      <3>2. k = op[r].key
        BY <3>1
      <3>3. QED
        BY <3>1, <3>2 DEF InState
    <2>4. QED
      BY <2>2, <2>3
  <1>3. CASE NotifyUploadFailed(r)
    <2>1. PICK e \in UpdateResult : Notify(r, "FAILED", NoContent, e)
      BY <1>3 DEF NotifyUploadFailed
    <2>2. CASE e = "nil"
      <3>1. Record(op[r].key, "FAILED", NoContent)
        BY <2>1, <2>2, OpFacts, NotifyFrame, <1>k
      <3>2. k # op[r].key /\ package'[k] = package[k]
        BY <1>0, <3>1, RecordFrame DEF TypeOK
      <3>3. QED
        BY <3>2
    <2>3. CASE e # "nil"
      <3>1. UNCHANGED package /\ ~InState(op[r].key, "PROCESSING_UPLOAD")
        BY <2>1, <2>3, OpFacts, NotifyFrame, <1>k
      <3>2. k = op[r].key
        BY <3>1
      <3>3. QED
        BY <3>1, <3>2 DEF InState
    <2>4. QED
      BY <2>2, <2>3
  <1>4. CASE PutSucceeds(r) \/ PutIsRetried(r) \/ PutFails(r) \/ OpenTempFileFails(r)
    BY <1>0, <1>4 DEF PutSucceeds, PutIsRetried, PutFails, OpenTempFileFails, observations,
                      IsKind, TypeOK
  <1>5. CASE RefuseBody(r) \/ StagingFails(r) \/ StageUpload(r) \/ ReadDigestBody(r)
             \/ CopyWithoutSource(r) \/ Read(r) \/ DeleteChecks(r)
             \/ CopySourceGuid(r) \/ DeleteRemoves(r) \/ RemoveDir(r)
    BY <1>5 DEF RefuseBody, StagingFails, StageUpload, ReadDigestBody, CopyWithoutSource,
                Read, DeleteChecks, CopySourceGuid, DeleteRemoves, RemoveDir
  <1>6. QED
    BY <1>1, <1>2, <1>3, <1>4, <1>5 DEF Work

LEMMA NextOwner ==
  ASSUME TypeOK, PutsContent, Progress, NullUpdaterIsNull, ProcessingHasOwner, [Next]_vars
  PROVE  ProcessingHasOwner'
  <1> SUFFICES ASSUME ~CCFaults, NEW k \in Key, package'[k].state = "PROCESSING_UPLOAD"
               PROVE  \E r \in Req : Owner(r, k)'
    BY DEF ProcessingHasOwner, InState, Owner
  <1>0. k \in Notified
    BY NextNullUpdaterIsNull DEF NullUpdaterIsNull, InState
  <1>a. ASSUME package'[k] = package[k]
        PROVE  \E p \in Req : Owner(p, k)
    BY <1>a DEF ProcessingHasOwner, InState, Owner
  <1>1. ASSUME NEW r \in Req, Work(r)
        PROVE  \E q \in Req : Owner(q, k)'
    <2>1. CASE package'[k] # package[k]
      BY <1>0, <1>1, <2>1, WorkOwner
    <2>2. CASE package'[k] = package[k]
      <3>1. PICK p \in Req : Owner(p, k)
        BY <1>a, <2>2
      <3>2. CASE p = r
        BY <1>0, <1>1, <3>1, <3>2, WorkOwner
      <3>3. CASE p # r
        <4>1. op' = op /\ told'[p] = told[p] /\ pc'[p] = pc[p]
          BY <1>1, <3>3, WorkFrame
        <4>2. QED
          BY <3>1, <4>1 DEF Owner, UploadOf
      <3>4. QED
        BY <3>2, <3>3
    <2>3. QED
      BY <2>1, <2>2
  <1>2. ASSUME NEW r \in Req, Arrive(r) \/ AcceptAsync(r)
        PROVE  \E q \in Req : Owner(q, k)'
    <2>1. PICK p \in Req : Owner(p, k)
      BY <1>2, <1>a DEF Arrive, AcceptAsync
    <2>2. Owner(p, k)'
      BY <1>2, <2>1 DEF Arrive, AcceptAsync, Goto, observations, Owner, UploadOf, Reporting, TypeOK
    <2>3. QED
      BY <2>2
  <1>3. CASE Crash \/ UNCHANGED vars
    <2>1. PICK p \in Req : Owner(p, k)
      BY <1>3, <1>a DEF Crash, vars
    <2>2. Owner(p, k)'
      BY <1>3, <2>1 DEF Crash, vars, handlerVars, observations, Owner, UploadOf, Reporting
    <2>3. QED
      BY <2>2
  <1>4. CASE PackageForgotten
    <2>1. package'[k] = package[k]
      BY <1>4 DEF PackageForgotten, ForgetPackage, Record, TypeOK, PackageTypeOK
    <2>2. PICK p \in Req : Owner(p, k)
      BY <2>1, <1>a
    <2>3. Owner(p, k)'
      BY <1>4, <2>2 DEF PackageForgotten, handlerVars, observations, Owner, UploadOf
    <2>4. QED
      BY <2>3
  <1>5. QED
    BY <1>1, <1>2, <1>3, <1>4 DEF Next

-----------------------------------------------------------------------------
(* The inductive invariant, and the theorems that follow from it.           *)

LEMMA InitIndInv == Init => IndInv
  <1> SUFFICES ASSUME Init
               PROVE  IndInv
    OBVIOUS
  <1>1. TypeOK /\ PutsContent
    BY InitTypeOK
  <1>2. Progress
    BY HandlerAssumption
       DEF Init, Progress, AtPoint, Truthful, TempOwned, AtUploadResource, Reporting, Untouched
  <1>3. WriterOwnsKey /\ LastWriteIsIntact
    BY HandlerAssumption DEF Init, WriterOwnsKey, LastWriteIsIntact
  <1>4. NullUpdaterIsNull /\ VerdictsAreTrue /\ ProcessingHasOwner
    BY DEF Init, NullUpdaterIsNull, VerdictsAreTrue, ProcessingHasOwner, InState
  <1>5. RefusedLeavesNoTrace /\ CreatedMeansStored /\ TempFileLifetime
    BY DEF Init, RefusedLeavesNoTrace, CreatedMeansStored, TempFileLifetime, Reporting
  <1>6. QED
    BY <1>1, <1>2, <1>3, <1>4, <1>5 DEF IndInv

LEMMA NextIndInv == IndInv /\ [Next]_vars => IndInv'
  <1> SUFFICES ASSUME IndInv, [Next]_vars
               PROVE  IndInv'
    OBVIOUS
  <1>1. TypeOK' /\ PutsContent'
    BY NextTypeOK DEF IndInv
  <1>2. \A r \in Req : Known(r)
    BY AnsweredIsSafe DEF IndInv, Progress, Known
  <1>3. \A r \in Req : Known(r)'
    BY <1>2, NextKnown DEF IndInv
  <1>4. Progress' /\ \A r \in Req : Answered(r)'
    BY <1>3 DEF Progress, Known
  <1>5. (RefusedLeavesNoTrace /\ CreatedMeansStored /\ TempFileLifetime)'
    BY <1>4 DEF RefusedLeavesNoTrace, CreatedMeansStored, TempFileLifetime, Answered,
                Untouched, AtUploadResource
  <1>6. WriterOwnsKey' /\ LastWriteIsIntact'
    BY NextWriterOwnsKey, NextIntact DEF IndInv
  <1>7. NullUpdaterIsNull' /\ VerdictsAreTrue' /\ ProcessingHasOwner'
    BY NextNullUpdaterIsNull, NextVerdicts, NextOwner DEF IndInv
  <1>8. QED
    BY <1>1, <1>4, <1>5, <1>6, <1>7 DEF IndInv

\* The invariant holds of every behaviour of the handlers, whatever is lost,
\* fails or is killed (ResourceHandler).
THEOREM Inductive == Spec => []IndInv
  BY InitIndInv, NextIndInv, PTL DEF Spec

\* A package is READY or FAILED because of an upload that stored its bits or
\* that did not, whatever the interleaving and whatever is lost.
THEOREM VerdictsCorrect == Spec => []VerdictsAreTrue
  BY Inductive, PTL DEF IndInv

\* The last successful write or deletion of a key is what is found there.
THEOREM LastWriteCorrect == Spec => []LastWriteIsIntact
  BY Inductive, PTL DEF IndInv

\* A refused request has had no effect.
THEOREM RefusalCorrect == Spec => []RefusedLeavesNoTrace
  BY Inductive, PTL DEF IndInv

\* A 201 is true.
THEOREM CreatedCorrect == Spec => []CreatedMeansStored
  BY Inductive, PTL DEF IndInv

\* Temporary files outlive their upload only as TempFileLifetime says.
THEOREM TempFilesCorrect == Spec => []TempFileLifetime
  BY Inductive, PTL DEF IndInv

\* A package that is PROCESSING_UPLOAD waits for somebody.
THEOREM OwnerCorrect == Spec => []ProcessingHasOwner
  BY Inductive, PTL DEF IndInv

-----------------------------------------------------------------------------
(* The refinement: each step of the handlers is a step of UploadPromise.    *)

Phases == [r \in Req |-> PhaseOf(r)]

\* A goroutine moves its own request to another phase, and no other's.
LEMMA WorkPhases ==
  ASSUME TypeOK, PutsContent, NEW r \in Req, Work(r)
  PROVE  Phases' = [Phases EXCEPT ![r] = PhaseOf(r)']
  <1>1. ASSUME NEW q \in Req, q # r
        PROVE  PhaseOf(q)' = PhaseOf(q)
    <2>1. op' = op /\ pc'[q] = pc[q] /\ told'[q] = told[q]
      BY <1>1, WorkFrame
    <2>2. QED
      BY <2>1 DEF PhaseOf, IsKind, Reporting
  <1>2. QED
    BY <1>1 DEF Phases

\* What a goroutine does for an upload is a step of the promise.
LEMMA UploadPromised ==
  ASSUME TypeOK, PutsContent, Progress, NEW r \in Req, Work(r), IsKind(r, {"upload"})
  PROVE  \/ /\ PhaseOf(r)' = PhaseOf(r) /\ UNCHANGED <<blob, package>>
         \/ Promise!Refuse(r) \/ Promise!TakeOn(r) \/ Promise!WriteAgain(r)
         \/ Promise!GiveUp(r) \/ Promise!Store(r)
         \/ Promise!ReportReady(r) \/ Promise!ReportFailed(r)
  <1>0. /\ AtPoint(r) /\ Truthful(r) /\ op' = op /\ BlobTypeOK
        /\ op[r].key \in Key /\ op[r].content \in Content
        /\ Phases' = [Phases EXCEPT ![r] = PhaseOf(r)']
        /\ Phases \in [Req -> {PhaseOf(q) : q \in Req}] /\ Phases[r] = PhaseOf(r)
        /\ IsKind(r, {"upload"})'
    BY OpFacts, WorkFrame, WorkPhases DEF Progress, TypeOK, IsKind, Phases
  <1> USE DEF Promise!Move, Promise!MayRecord, Promise!Writes
  <1>1. CASE RefuseBody(r) \/ StagingFails(r)
    <2>1. /\ PhaseOf(r) = "new" /\ PhaseOf(r)' = "refused"
          /\ UNCHANGED <<blob, package>>
      BY <1>0, <1>1 DEF RefuseBody, StagingFails, Finish, PhaseOf, AtPoint, observations,
                        Reporting, TypeOK
    <2>2. Promise!Refuse(r)
      BY <1>0, <2>1 DEF Promise!Refuse, Phases
    <2>3. QED
      BY <2>2
  <1>2. CASE StageUpload(r)
    BY <1>0, <1>2 DEF StageUpload, Goto, PhaseOf, TypeOK
  <1>3. CASE NotifyProcessingUpload(r)
    <2>1. PICK e \in UpdateResult :
            /\ Notify(r, "PROCESSING_UPLOAD", NoContent, e)
            /\ \/ e = "nil" /\ Goto(r, "put")
               \/ e # "nil" /\ Finish(r, handleNotificationError(e))
      BY <1>3 DEF NotifyProcessingUpload
    <2>2. /\ UNCHANGED package \/ Record(op[r].key, "PROCESSING_UPLOAD", NoContent)
          /\ told'[r] = "PROCESSING_UPLOAD" /\ UNCHANGED blob /\ pc[r] = "staged"
      BY <1>3, <2>1, NotifyFrame DEF NotifyProcessingUpload, TypeOK
    <2>3. /\ PhaseOf(r) = "new"
          /\ PhaseOf(r)' = IF e = "nil" THEN "taken" ELSE "refused"
      BY <1>0, <2>1, <2>2 DEF Goto, Finish, PhaseOf, Reporting, TypeOK
    <2>4. Promise!TakeOn(r) \/ Promise!Refuse(r)
      BY <1>0, <2>2, <2>3 DEF Promise!TakeOn, Promise!Refuse, Record, Phases
    <2>5. QED
      BY <2>4
  <1>4. CASE PutSucceeds(r)
    <2>1. PhaseOf(r) = "taken" /\ PhaseOf(r)' = "stored" /\ UNCHANGED package
      BY <1>0, <1>4 DEF PutSucceeds, Goto, PhaseOf, IsKind, TypeOK
    <2>2. blob' = [blob EXCEPT ![op[r].key] = op[r].content]
      BY <1>0, <1>4 DEF PutSucceeds, Put
    <2>3. Promise!Store(r)
      BY <1>0, <2>1, <2>2 DEF Promise!Store, Phases
    <2>4. QED
      BY <2>3
  <1>5. CASE PutIsRetried(r)
    <2>1. PhaseOf(r) = "taken" /\ PhaseOf(r)' = "taken" /\ UNCHANGED package
      BY <1>0, <1>5 DEF PutIsRetried, PhaseOf
    <2>2. Promise!Writes(r)
      BY <1>0, <1>5, PutFrame DEF PutIsRetried, Stored
    <2>3. Promise!WriteAgain(r)
      BY <1>0, <2>1, <2>2 DEF Promise!WriteAgain, Phases
    <2>4. QED
      BY <2>3
  <1>6. CASE PutFails(r)
    <2>1. PhaseOf(r) = "taken" /\ PhaseOf(r)' = "failed" /\ UNCHANGED package
      BY <1>0, <1>6 DEF PutFails, Goto, PhaseOf, IsKind, Reporting, TypeOK
    <2>2. Promise!Writes(r)
      BY <1>0, <1>6, PutFrame DEF PutFails, Stored
    <2>3. Promise!GiveUp(r)
      BY <1>0, <2>1, <2>2 DEF Promise!GiveUp, Phases
    <2>4. QED
      BY <2>3
  <1>7. CASE OpenTempFileFails(r)
    <2>1. PhaseOf(r) = "taken" /\ PhaseOf(r)' = "failed" /\ UNCHANGED <<blob, package>>
      BY <1>0, <1>7 DEF OpenTempFileFails, Goto, PhaseOf, Reporting, TypeOK
    <2>2. Promise!Writes(r)
      BY <1>0, <2>1 DEF BlobTypeOK
    <2>3. Promise!GiveUp(r)
      BY <1>0, <2>1, <2>2 DEF Promise!GiveUp, Phases
    <2>4. QED
      BY <2>3
  <1>8. CASE NotifyUploadSucceeded(r)
    <2>1. PICK e \in UpdateResult : Notify(r, "READY", op[r].content, e)
      BY <1>8 DEF NotifyUploadSucceeded
    <2>2. /\ UNCHANGED package \/ Record(op[r].key, "READY", op[r].content)
          /\ told'[r] = "READY"
      BY <1>0, <2>1, NotifyFrame DEF TypeOK
    <2>3. PhaseOf(r) = "stored" /\ PhaseOf(r)' = "reported" /\ UNCHANGED blob
      BY <1>0, <1>8, <2>2 DEF NotifyUploadSucceeded, EndUpload, Goto, Finish, PhaseOf,
                              Reporting, TypeOK
    <2>4. Promise!ReportReady(r)
      BY <1>0, <2>2, <2>3 DEF Promise!ReportReady, Record, Phases
    <2>5. QED
      BY <2>4
  <1>9. CASE NotifyUploadFailed(r)
    <2>1. PICK e \in UpdateResult : Notify(r, "FAILED", NoContent, e)
      BY <1>9 DEF NotifyUploadFailed
    <2>2. /\ UNCHANGED package \/ Record(op[r].key, "FAILED", NoContent)
          /\ told'[r] = "FAILED"
      BY <1>0, <2>1, NotifyFrame DEF TypeOK
    <2>3. PhaseOf(r) = "failed" /\ PhaseOf(r)' = "reported" /\ UNCHANGED blob
      BY <1>0, <1>9, <2>2 DEF NotifyUploadFailed, EndUpload, Goto, Finish, PhaseOf,
                              Reporting, TypeOK
    <2>4. Promise!ReportFailed(r)
      BY <1>0, <2>2, <2>3 DEF Promise!ReportFailed, Record, Phases
    <2>5. QED
      BY <2>4
  <1>10. CASE \/ ReadDigestBody(r) \/ CopySourceGuid(r) \/ CopyWithoutSource(r) \/ Read(r)
              \/ DeleteChecks(r) \/ DeleteRemoves(r) \/ RemoveDir(r)
    BY <1>0, <1>10 DEF ReadDigestBody, CopySourceGuid, CopyWithoutSource, Read,
                       DeleteChecks, DeleteRemoves, RemoveDir, AtPoint, IsKind
  <1>11. QED
    BY <1>1, <1>2, <1>3, <1>4, <1>5, <1>6, <1>7, <1>8, <1>9, <1>10 DEF Work

\* So is what it does for any other request.
LEMMA OtherPromised ==
  ASSUME TypeOK, PutsContent, Progress, NEW r \in Req, Work(r), ~IsKind(r, {"upload"})
  PROVE  Promise!OtherWrite
  <1>1. op' = op /\ PhaseOf(r) = "other" /\ PhaseOf(r)' = "other"
    BY WorkFrame DEF PhaseOf, IsKind
  <1>2. Phases[r] = "other" /\ Phases' = Phases
    BY <1>1, WorkPhases DEF Phases
  <1>3. UNCHANGED package
    BY WorkRecords
  <1>4. QED
    BY <1>1, <1>2, <1>3 DEF Promise!OtherWrite, Phases

LEMMA NextPromised ==
  ASSUME TypeOK, PutsContent, Progress, [Next]_vars
  PROVE  [Promise!PNext]_(Promise!pvars)
  <1>1. ASSUME NEW r \in Req, Work(r)
        PROVE  [Promise!PNext]_(Promise!pvars)
    <2>1. CASE IsKind(r, {"upload"})
      <3>1. CASE PhaseOf(r)' = PhaseOf(r) /\ UNCHANGED <<blob, package>>
        <4>1. Phases' = Phases /\ op' = op
          BY <1>1, <3>1, WorkPhases, WorkFrame DEF Phases
        <4>2. QED
          BY <3>1, <4>1 DEF Promise!pvars, Phases
      <3>2. QED
        BY <1>1, <2>1, <3>1, UploadPromised DEF Promise!PNext
    <2>2. CASE ~IsKind(r, {"upload"})
      BY <1>1, <2>2, OtherPromised DEF Promise!PNext
    <2>3. QED
      BY <2>1, <2>2
  <1>2. ASSUME NEW r \in Req, Arrive(r) \/ AcceptAsync(r)
        PROVE  UNCHANGED Promise!pvars
    <2>1. ASSUME NEW q \in Req
          PROVE  PhaseOf(q)' = PhaseOf(q)
      BY <1>2 DEF Arrive, AcceptAsync, Goto, observations, PhaseOf, IsKind, Reporting, TypeOK
    <2>2. QED
      BY <1>2, <2>1 DEF Arrive, AcceptAsync, Promise!pvars
  <1>3. CASE Crash
    <2> DEFINE dead == {r \in Req : Live(r) /\ IsKind(r, {"upload"})}
    <2>1. ASSUME NEW q \in Req
          PROVE  PhaseOf(q)' = IF q \in dead THEN "dead" ELSE PhaseOf(q)
      BY <1>3 DEF Crash, Live, observations, PhaseOf, IsKind, Reporting, TypeOK
    <2>2. Promise!Die
      BY <1>3, <2>1 DEF Crash, Promise!Die
    <2>3. QED
      BY <2>2 DEF Promise!PNext
  <1>4. CASE PackageForgotten
    <2>1. ASSUME NEW q \in Req
          PROVE  PhaseOf(q)' = PhaseOf(q)
      BY <1>4 DEF PackageForgotten, handlerVars, observations, PhaseOf, IsKind, Reporting
    <2>2. Promise!Forget
      BY <1>4, <2>1, HandlerAssumption
         DEF PackageForgotten, ForgetPackage, Record, handlerVars, Promise!Forget
    <2>3. QED
      BY <2>2 DEF Promise!PNext
  <1>5. CASE UNCHANGED vars
    BY <1>5 DEF vars, handlerVars, observations, PhaseOf, IsKind, Reporting, Promise!pvars
  <1>6. QED
    BY <1>1, <1>2, <1>3, <1>4, <1>5 DEF Next

\* The handlers keep the promise to the Cloud Controller: every behaviour of
\* theirs is one of UploadPromise.
THEOREM PromiseKept == Spec => KeepsPromise
  <1>1. Init => Promise!PInit
    BY HandlerAssumption DEF Init, Promise!PInit, PhaseOf
  <1>2. IndInv /\ [Next]_vars => [Promise!PNext]_(Promise!pvars)
    BY NextPromised DEF IndInv
  <1>3. QED
    BY <1>1, <1>2, Inductive, PTL DEF Spec, KeepsPromise, Promise!PSpec
=============================================================================
