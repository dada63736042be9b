------------------------------ MODULE AppStash ------------------------------
(***************************************************************************)
(* The app-stash: a cache of single files of apps, stored under their      *)
(* SHA1.  Clients ask which files are there (PostMatches), add files       *)
(* (PostEntries), and have zips bundled from their own files and stashed   *)
(* ones (PostBundles, and completePackageWithResources for the upload of a *)
(* package).  Requests interleave between any two calls to the blobstore,  *)
(* and while a Put is under way: concurrent pushes of similar apps store   *)
(* the same files.                                                         *)
(***************************************************************************)
EXTENDS Naturals, Sequences, SequencesExt, Blobstore

CONSTANTS
  Req,         \* requests, one goroutine each
  Ops,         \* what clients ask for
  ShaOf,       \* ShaOf[c]: the SHA1 of content c, its key in the stash
  Size,        \* Size[c]: the size of content c
  minimumSize, \* app_stash_config: the sizes of the files that
  maximumSize, \*   are looked up, and stored by bundling
  PartialWrites, \* a resource can be read while it is being written (local
                 \*   files), and part of it stays when the write fails
  Faults,      \* the calls that may fail, besides finding nothing
  MaxRetries,  \* bounds the retries that fit into backoff's 15 minutes
  MaxKills     \* bounds how often the process is killed

Fault == {"temp", "stat", "put", "open", "get", "read", "close"}

\* What a client claims to know of a file.
Fingerprint == [sha : Key, size : Nat]

\* app: the regular files of the uploaded zip; want: the JSON list.
IsOp(o) ==
  /\ o.kind \in {"matches", "entries", "bundle", "package"}
  /\ o.app \in Seq(Content)
  /\ o.want \in Seq(Fingerprint)

ASSUME StashAssumption ==
  /\ \A o \in Ops : IsOp(o)
  /\ ShaOf \in [Content -> Key]
  /\ \A c, d \in Content : ShaOf[c] = ShaOf[d] => c = d
  /\ Size \in [Content -> Nat]
  /\ minimumSize \in Nat /\ maximumSize \in Nat
  /\ PartialWrites \in BOOLEAN
  /\ Faults \subseteq Fault
  /\ MaxRetries \in Nat /\ MaxKills \in Nat

VARIABLES
  op,      \* op[r]: what r asks for
  pc,      \* pc[r]: where r's goroutine is
  left,    \* left[r]: the files and fingerprints r has still to process
  retries, \* retries[r]: how often the current file was tried again
  shas,    \* shas[r]: the fingerprints of the answer so far
  zip,     \* zip[r]: the entries of the temporary zip, each a list of pieces
  part,    \* part[r]: the pieces of the entry being written
  closed,  \* requests whose temporary zip is complete
  temp,    \* requests with a temporary zip on disk
  resp,    \* resp[r]: the status code; 200 for a package that is handed over
  mixed,   \* keys where a failed Put overlaps one that is still running
  broken,  \* keys of which, with PartialWrites, a Put has failed or was killed
           \*   since one that ran alone succeeded (observation)
  missing, \* missing[r]: the key the answer names as not found
  there,   \* there[r]: the keys stored when r arrived (observation)
  misled,  \* misled[r]: the stored keys that a failed call has reported to r
           \*   as not there (observation)
  kills

stash == <<blob, mixed, broken>>
product == <<shas, zip, part, closed, missing>>
vars == <<op, pc, left, retries, product, temp, resp, stash, there, misled, kills>>

NoReply == 0

Label == {"idle", "arrived", "match", "stage", "put", "get", "close", "respond", "done", "killed"}
Code == {NoReply, 200, 201, 400, 404, 413, 422, 500, 507}

PlacesTyped ==
  /\ op \in [Req -> Ops]
  /\ pc \in [Req -> Label]
  /\ retries \in [Req -> 0..MaxRetries]
  /\ closed \subseteq temp /\ temp \subseteq Req
  /\ resp \in [Req -> Code]
  /\ kills \in 0..MaxKills

ListsTyped ==
  /\ left \in [Req -> [app : Seq(Content), want : Seq(Fingerprint)]]
  /\ shas \in [Req -> Seq(Key)]
  /\ zip \in [Req -> Seq(Seq(Content \cup {Torn}))]
  /\ part \in [Req -> Seq(Content \cup {Torn})]

StashTyped ==
  /\ BlobTypeOK
  /\ mixed \subseteq Key /\ broken \subseteq Key
  /\ missing \in [Req -> SUBSET Key]
  /\ there \in [Req -> SUBSET Key]
  /\ misled \in [Req -> SUBSET Key]

TypeOK == PlacesTyped /\ ListsTyped /\ StashTyped

Init ==
  /\ \E stashed \in SUBSET Content :
       blob = [k \in Key |-> IF \E c \in stashed : ShaOf[c] = k
                               THEN CHOOSE c \in stashed : ShaOf[c] = k ELSE Absent]
  /\ op \in [Req -> Ops]
  /\ pc = [r \in Req |-> "idle"]
  /\ left = [r \in Req |-> [app |-> op[r].app, want |-> op[r].want]]
  /\ retries = [r \in Req |-> 0]
  /\ shas = [r \in Req |-> <<>>]
  /\ zip = [r \in Req |-> <<>>]
  /\ part = [r \in Req |-> <<>>]
  /\ closed = {} /\ temp = {} /\ mixed = {} /\ broken = {}
  /\ resp = [r \in Req |-> NoReply]
  /\ missing = [r \in Req |-> {}]
  /\ there = [r \in Req |-> {}]
  /\ misled = [r \in Req |-> {}]
  /\ kills = 0

-----------------------------------------------------------------------------

IsKind(r, kinds) == op[r].kind \in kinds
Zips(r) == IsKind(r, {"bundle", "package"})

StashedKeys == {k \in Key : Exists(k)}
InRange(n) == minimumSize <= n /\ n <= maximumSize

Goto(r, l) == pc' = [pc EXCEPT ![r] = l] /\ UNCHANGED resp
Finish(r, code) ==
  /\ pc' = [pc EXCEPT ![r] = "done"]
  /\ resp' = [resp EXCEPT ![r] = code]

Arrive(r) ==
  /\ pc[r] = "idle"
  /\ Goto(r, "arrived")
  /\ there' = [there EXCEPT ![r] = StashedKeys]
  /\ UNCHANGED <<op, left, retries, product, temp, stash, misled, kills>>

\* Too large, no length, no form file, bad JSON, a key missing, no zip.
RefusalCodes(kind) == IF kind = "package" THEN {422, 500} ELSE {400, 413, 422, 500}

Refuse(r) ==
  /\ pc[r] = "arrived"
  /\ \E code \in RefusalCodes(op[r].kind) : Finish(r, code)
  /\ UNCHANGED <<op, left, retries, product, temp, stash, there, misled, kills>>

\* The first temporary file, tempZipFile.
Accept(r) ==
  /\ pc[r] = "arrived"
  /\ \/ IsKind(r, {"matches"}) /\ Goto(r, "match") /\ UNCHANGED temp
     \/ ~IsKind(r, {"matches"}) /\ Goto(r, "stage") /\ temp' = temp \cup {r}
     \/ "temp" \in Faults /\ ~IsKind(r, {"matches"}) /\ Finish(r, 500) /\ UNCHANGED temp
  /\ UNCHANGED <<op, left, retries, product, stash, there, misled, kills>>

-----------------------------------------------------------------------------
(* PostMatches                                                              *)

\* A failed call may be answered as if the key were not there.
Overlooks(method) == method \in Faults /\ <<method, "notFound">> \in Misreports

Overlooked(r, method, k) ==
  /\ Overlooks(method)
  /\ misled' = [misled EXCEPT ![r] = @ \cup {k}]

\* Mutated form: the sizes are not looked at.
MatchAnySize(r) ==
  LET f == Head(left[r].want)
  IN /\ pc[r] = "match"
     /\ left[r].want # <<>>
     /\ left' = [left EXCEPT ![r].want = Tail(@)]
     /\ shas' = IF Exists(f.sha) THEN [shas EXCEPT ![r] = Append(@, f.sha)] ELSE shas
     /\ UNCHANGED <<op, pc, retries, zip, part, closed, missing, temp, resp, stash, there, misled, kills>>

Match(r) ==
  LET f == Head(left[r].want)
      found == InRange(f.size) /\ Exists(f.sha)
  IN /\ pc[r] = "match"
     /\ left[r].want # <<>>
     /\ left' = [left EXCEPT ![r].want = Tail(@)]
     /\ \/ /\ shas' = IF found THEN [shas EXCEPT ![r] = Append(@, f.sha)] ELSE shas
           /\ UNCHANGED misled
        \/ found /\ Overlooked(r, "stat", f.sha) /\ UNCHANGED shas
     /\ UNCHANGED <<op, pc, retries, zip, part, closed, missing, temp, resp, stash, there, kills>>

ExistsFails(r) ==
  /\ pc[r] = "match"
  /\ left[r].want # <<>> /\ InRange(Head(left[r].want).size)
  /\ "stat" \in Faults
  /\ Finish(r, 500)
  /\ UNCHANGED <<op, left, retries, product, temp, stash, there, misled, kills>>

AnswerMatches(r) ==
  /\ pc[r] = "match"
  /\ left[r].want = <<>>
  /\ Finish(r, 200)
  /\ UNCHANGED <<op, left, retries, product, temp, stash, there, misled, kills>>

-----------------------------------------------------------------------------
(* The files of the uploaded zip: PostEntries with copyTo, and the first   *)
(* loop of CreateTempZipFileFrom.                                          *)

File(r) == Head(left[r].app)

\* How a request whose zip or entry could not be made is answered.
CodeFor(r, e) ==
  CASE e = "noSpace"  -> IF IsKind(r, {"bundle"}) THEN 500 ELSE 507
    [] e = "notFound" -> IF IsKind(r, {"bundle"}) THEN 404 ELSE 422
    [] OTHER          -> 500

\* The error is returned; deferred calls remove the temporary zip.
Return(r, e) ==
  /\ Finish(r, CodeFor(r, e))
  /\ temp' = temp \ {r}
  /\ closed' = closed \ {r}

\* An entry is read into a temporary file and, by a bundle, into the zip.
Stage(r) ==
  /\ pc[r] = "stage"
  /\ left[r].app # <<>>
  /\ Goto(r, "put")
  /\ zip' = IF Zips(r) THEN [zip EXCEPT ![r] = Append(@, <<File(r)>>)] ELSE zip
  /\ retries' = [retries EXCEPT ![r] = 0]
  /\ UNCHANGED <<op, left, shas, part, closed, missing, temp, stash, there, misled, kills>>

StageFails(r) ==
  /\ pc[r] = "stage"
  /\ left[r].app # <<>>
  /\ "temp" \in Faults
  /\ Return(r, "error")
  /\ UNCHANGED <<op, left, retries, shas, zip, part, missing, stash, there, misled, kills>>

Staged(r) ==
  /\ pc[r] = "stage"
  /\ left[r].app = <<>>
  /\ \/ /\ IsKind(r, {"entries"})
        /\ Finish(r, 201)
        /\ temp' = temp \ {r}
     \/ /\ Zips(r)
        /\ Goto(r, IF left[r].want = <<>> THEN "close" ELSE "get")
        /\ UNCHANGED temp
  /\ retries' = [retries EXCEPT ![r] = 0]
  /\ UNCHANGED <<op, left, product, stash, there, misled, kills>>

Puts(r) == IsKind(r, {"entries"}) \/ InRange(Size[File(r)])

\* Other Puts of the same file that are under way.
Writers(r) == {q \in Req \ {r} : pc[q] = "put" /\ Puts(q) /\ File(q) = File(r)}

BeingPut(k) == \E r \in Req : pc[r] = "put" /\ Puts(r) /\ ShaOf[File(r)] = k

Breaks(ks) == broken' = IF PartialWrites THEN broken \cup ks ELSE broken

NextFile(r) ==
  /\ Goto(r, "stage")
  /\ left' = [left EXCEPT ![r].app = Tail(@)]
  /\ shas' = IF IsKind(r, {"entries"}) THEN [shas EXCEPT ![r] = Append(@, ShaOf[File(r)])]
             ELSE shas

\* What a running Put may show of the resource before it returns.
PutIsVisible(r) ==
  /\ pc[r] = "put" /\ Puts(r)
  /\ PartialWrites
  /\ Put(ShaOf[File(r)], File(r), "error")
  /\ UNCHANGED <<op, pc, left, retries, product, temp, resp, mixed, broken, there, misled, kills>>

\* Mutated form: the hash is made once, before the loop over the entries.
PutUnderFirstSha(r) ==
  /\ pc[r] = "put" /\ Puts(r)
  /\ blob' = [blob EXCEPT ![ShaOf[op[r].app[1]]] = File(r)]
  /\ NextFile(r)
  /\ UNCHANGED <<op, retries, zip, part, closed, missing, temp, mixed, broken, there, misled, kills>>

\* Mutated form: what is there is not stored again.
PutUnlessThere(r) ==
  LET k == ShaOf[File(r)]
  IN /\ pc[r] = "put" /\ Puts(r)
     /\ IF Exists(k) THEN UNCHANGED blob ELSE Put(k, File(r), "nil")
     /\ mixed' = IF Writers(r) = {} THEN mixed \ {k} ELSE mixed
     /\ broken' = IF Writers(r) # {} \/ k \in mixed THEN broken ELSE broken \ {k}
     /\ NextFile(r)
     /\ UNCHANGED <<op, retries, zip, part, closed, missing, temp, there, misled, kills>>

\* A Put that another one is still writing over, or a failed one has written
\* over, may leave a mixture of both; the last of several that all succeed
\* leaves the file.
PutSucceeds(r) ==
  LET k == ShaOf[File(r)]
      overwritten == PartialWrites /\ (Writers(r) # {} \/ k \in mixed)
  IN /\ pc[r] = "put" /\ Puts(r)
     /\ \/ Put(k, File(r), "nil")
        \/ overwritten /\ blob' = [blob EXCEPT ![k] = Torn]
     /\ mixed' = IF Writers(r) = {} THEN mixed \ {k} ELSE mixed
     /\ broken' = IF overwritten THEN broken ELSE broken \ {k}
     /\ NextFile(r)
     /\ UNCHANGED <<op, retries, zip, part, closed, missing, temp, there, misled, kills>>

\* Mutated form: bundles store every file.
SkipNothing(r) ==
  /\ pc[r] = "put" /\ ~Puts(r)
  /\ blob' = [blob EXCEPT ![ShaOf[File(r)]] = File(r)]
  /\ NextFile(r)
  /\ UNCHANGED <<op, retries, zip, part, closed, missing, temp, mixed, broken, there, misled, kills>>

SkipPut(r) ==
  /\ pc[r] = "put" /\ ~Puts(r)
  /\ NextFile(r)
  /\ UNCHANGED <<op, retries, zip, part, closed, missing, temp, stash, there, misled, kills>>

\* Mutated form: the limit is off by one.
RetryOnceMore(r, e) ==
  \/ /\ e = "error" /\ Zips(r)
     /\ retries[r] <= MaxRetries
     /\ retries' = [retries EXCEPT ![r] = @ + 1]
     /\ UNCHANGED <<pc, resp, temp, closed>>
  \/ Return(r, e) /\ UNCHANGED retries

\* backoff.RetryNotify: only bundles retry, and not when the disk is full or
\* a file is not there.
RetryOrReturn(r, e) ==
  \/ /\ e = "error" /\ Zips(r)
     /\ retries[r] < MaxRetries
     /\ retries' = [retries EXCEPT ![r] = @ + 1]
     /\ UNCHANGED <<pc, resp, temp, closed>>
  \/ Return(r, e) /\ UNCHANGED retries

\* Mutated form: the file of a failed Put is deleted.
PutFailsAndCleansUp(r) ==
  LET k == ShaOf[File(r)]
  IN /\ pc[r] = "put" /\ Puts(r)
     /\ "put" \in Faults
     /\ \E e \in {"noSpace", "error"} : RetryOrReturn(r, e)
     /\ blob' = [blob EXCEPT ![k] = Absent]
     /\ UNCHANGED <<op, left, shas, zip, part, missing, mixed, broken, there, misled, kills>>

\* Mutated form: an error of Put is only logged.
PutFailureIsLogged(r) ==
  /\ pc[r] = "put" /\ Puts(r)
  /\ "put" \in Faults
  /\ NextFile(r)
  /\ UNCHANGED <<op, retries, zip, part, closed, missing, temp, stash, there, misled, kills>>

\* Mutated form: retries without a limit.
PutIsRetriedForever(r) ==
  LET k == ShaOf[File(r)]
  IN /\ pc[r] = "put" /\ Puts(r)
     /\ "put" \in Faults
     /\ Put(k, File(r), "error")
     /\ UNCHANGED <<op, pc, left, retries, product, temp, resp, mixed, broken, there, misled, kills>>

PutFails(r) ==
  LET k == ShaOf[File(r)]
  IN /\ pc[r] = "put" /\ Puts(r)
     /\ "put" \in Faults
     /\ \E e \in {"noSpace", "error"} : /\ Put(k, File(r), e)
                                        /\ PartialWrites \/ blob'[k] # Torn
                                        /\ RetryOrReturn(r, e)
     /\ mixed' = IF Writers(r) # {} THEN mixed \cup {k} ELSE mixed \ {k}
     /\ Breaks({k})
     /\ UNCHANGED <<op, left, shas, zip, part, missing, there, misled, kills>>

\* The temporary file cannot be opened.  The handler of a bundle has then
\* overwritten tempFile with nil: its next attempt panics, and the deferred
\* clean-up sees no error and keeps the temporary zip.
OpenFails(r) ==
  /\ pc[r] = "put"
  /\ "open" \in Faults
  /\ \/ Return(r, "error")
     \/ Zips(r) /\ Finish(r, 500) /\ UNCHANGED <<temp, closed>>
  /\ Breaks(IF Puts(r) THEN {ShaOf[File(r)]} ELSE {})
  /\ UNCHANGED <<op, left, retries, shas, zip, part, missing, blob, mixed, there, misled, kills>>

-----------------------------------------------------------------------------
(* The fingerprints: the second loop of CreateTempZipFileFrom.              *)

Sha(r) == Head(left[r].want).sha

Getting(r) == pc[r] = "get"

GetFails(r) ==
  /\ Getting(r)
  /\ "get" \in Faults
  /\ RetryOrReturn(r, "error")
  /\ UNCHANGED <<op, left, shas, zip, part, missing, stash, there, misled, kills>>

\* Mutated form: the answer names the first file that was asked for.
FirstIsMissing(r) ==
  /\ Getting(r)
  /\ ~Exists(Sha(r))
  /\ Return(r, "notFound")
  /\ missing' = [missing EXCEPT ![r] = {op[r].want[1].sha}]
  /\ UNCHANGED <<op, left, retries, shas, zip, part, stash, there, misled, kills>>

\* Not found is not tried again, whatever it stands for.
GetFindsNothing(r) ==
  /\ Getting(r)
  /\ \/ ~Exists(Sha(r)) /\ UNCHANGED misled
     \/ Exists(Sha(r)) /\ Overlooked(r, "get", Sha(r))
  /\ Return(r, "notFound")
  /\ missing' = [missing EXCEPT ![r] = {Sha(r)}]
  /\ UNCHANGED <<op, left, retries, shas, zip, part, stash, there, kills>>

\* The body ends early: what was read is in the entry, and stays there.
ReadFails(r) ==
  /\ Getting(r)
  /\ Exists(Sha(r))
  /\ "read" \in Faults
  /\ RetryOrReturn(r, "error")
  /\ part' = [part EXCEPT ![r] = Append(@, Torn)]
  /\ UNCHANGED <<op, left, shas, zip, missing, stash, there, misled, kills>>

\* Mutated form: the loop stops one fingerprint early.
ReadAllButTheLast(r) ==
  /\ Getting(r)
  /\ Exists(Sha(r))
  /\ zip' = [zip EXCEPT ![r] = Append(@, Append(part[r], blob[Sha(r)]))]
  /\ part' = [part EXCEPT ![r] = <<>>]
  /\ retries' = [retries EXCEPT ![r] = 0]
  /\ left' = [left EXCEPT ![r].want = Tail(@)]
  /\ Goto(r, IF Len(left[r].want) <= 2 THEN "close" ELSE "get")
  /\ UNCHANGED <<op, shas, closed, missing, temp, stash, there, misled, kills>>

ReadWhole(r) ==
  /\ Getting(r)
  /\ Exists(Sha(r))
  /\ zip' = [zip EXCEPT ![r] = Append(@, Append(part[r], blob[Sha(r)]))]
  /\ part' = [part EXCEPT ![r] = <<>>]
  /\ retries' = [retries EXCEPT ![r] = 0]
  /\ left' = [left EXCEPT ![r].want = Tail(@)]
  /\ Goto(r, IF Len(left[r].want) = 1 THEN "close" ELSE "get")
  /\ UNCHANGED <<op, shas, closed, missing, temp, stash, there, misled, kills>>

\* zipWriter.Close writes what is buffered and the directory of the zip; its
\* error is not looked at.
CloseZip(r) ==
  /\ pc[r] = "close"
  /\ \/ closed' = closed \cup {r}
     \/ "close" \in Faults /\ UNCHANGED closed
  /\ Goto(r, "respond")
  /\ UNCHANGED <<op, left, retries, shas, zip, part, missing, temp, stash, there, misled, kills>>

\* Mutated form: PostBundles does not remove the temporary zip.
RespondAndKeep(r) ==
  /\ pc[r] = "respond"
  /\ Finish(r, 200)
  /\ UNCHANGED <<op, left, retries, product, temp, stash, there, misled, kills>>

\* PostBundles sends the zip and removes it; a package keeps it for
\* ResourceHandler, which takes it over.
Respond(r) ==
  /\ pc[r] = "respond"
  /\ \/ /\ Finish(r, 200)
        /\ temp' = IF IsKind(r, {"bundle"}) THEN temp \ {r} ELSE temp
     \/ /\ IsKind(r, {"bundle"}) /\ "open" \in Faults
        /\ Finish(r, 500)
        /\ temp' = temp \ {r}
  /\ closed' = closed \cap temp'
  /\ UNCHANGED <<op, left, retries, shas, zip, part, missing, stash, there, misled, kills>>

-----------------------------------------------------------------------------

\* What a killed process was writing stays as it is; its clients get no answer.
Kill ==
  /\ kills < MaxKills
  /\ kills' = kills + 1
  /\ pc' = [r \in Req |-> IF pc[r] \in {"idle", "done"} THEN pc[r] ELSE "killed"]
  /\ mixed' = {}
  /\ Breaks({k \in Key : BeingPut(k)})
  /\ UNCHANGED <<op, left, retries, product, temp, resp, blob, there, misled>>

Prepare(r) == Arrive(r) \/ Refuse(r) \/ Accept(r)
PostMatches(r) == Match(r) \/ ExistsFails(r) \/ AnswerMatches(r)
StoreFiles(r) ==
  \/ Stage(r) \/ StageFails(r) \/ Staged(r)
  \/ PutIsVisible(r) \/ PutSucceeds(r) \/ SkipPut(r) \/ PutFails(r) \/ OpenFails(r)
FetchFiles(r) ==
  \/ GetFails(r) \/ GetFindsNothing(r) \/ ReadFails(r) \/ ReadWhole(r)
  \/ CloseZip(r) \/ Respond(r)

Step(r) == Prepare(r) \/ PostMatches(r) \/ StoreFiles(r) \/ FetchFiles(r)

Next == (\E r \in Req : Step(r)) \/ Kill

Spec == Init /\ [][Next]_vars

\* The scheduler runs every goroutine, and a call to the blobstore returns:
\* a Put does not only show more and more of the file.
Goes(r) ==
  \/ Prepare(r) \/ PostMatches(r) \/ FetchFiles(r)
  \/ Stage(r) \/ StageFails(r) \/ Staged(r)
  \/ PutSucceeds(r) \/ SkipPut(r) \/ PutFails(r) \/ OpenFails(r)

FairSpec == Spec /\ \A r \in Req : WF_vars(Goes(r))

-----------------------------------------------------------------------------
(* What the clients of the app-stash rely on.                               *)

Answered(r, code) == pc[r] = "done" /\ resp[r] = code

Whole(k) == \E c \in Content : ShaOf[c] = k /\ blob[k] = c

\* Stored, and whole but for other Puts of the file: one that is still writing in
\* place, or has failed since the last one that was left alone.
Kept(k) ==
  /\ Exists(k)
  /\ Whole(k) \/ (PartialWrites /\ (k \in broken \/ BeingPut(k)))

\* The stash is content-addressed: where writes are atomic, what is found under
\* a SHA1 is its file, whoever stored it and however that failed (copyTo,
\* CreateTempZipFileFrom).
KeysAreShas == \A k \in Key : Exists(k) => Whole(k)

\* A request is told that a file is missing only if nothing was stored under
\* its SHA1 when the request arrived, failed calls of others notwithstanding, or
\* if the backend answers that a failed Get has found nothing (alibaba, webdav,
\* openstack; CreateTempZipFileFrom does not try again then).
MissingWasNeverThere ==
  \A r \in Req : missing[r] \cap there[r] \subseteq misled[r]

\* PostMatches reports files of admissible size that are there, and leaves out
\* none that was there all the time but those of which a failed Exists says that
\* they are not there (webdav).
MatchesAreExact ==
  \A r \in Req : (Answered(r, 200) /\ IsKind(r, {"matches"})) =>
    LET asked == {f \in ToSet(op[r].want) : InRange(f.size)}
        found == ToSet(shas[r])
    IN /\ found \subseteq {f.sha : f \in asked} \cap StashedKeys
       /\ {f.sha : f \in asked} \cap there[r] \subseteq found \cup misled[r]

\* PostEntries answers 201 when every file of the zip is stored, with their
\* SHA1s in the order of the zip.  The files are whole, and stay whole until, on
\* a backend that writes in place, another Put of the file is under way or fails.
ReceiptIsStored ==
  \A r \in Req : Answered(r, 201) =>
    /\ shas[r] = [i \in DOMAIN op[r].app |-> ShaOf[op[r].app[i]]]
    /\ \A k \in ToSet(shas[r]) : Kept(k)

\* Bundling stores the files within the size thresholds, all of them before it
\* succeeds, and no others; only PostEntries stores those.
ThresholdsAreKept ==
  \A c \in Content :
    /\ \A r \in Req : (Answered(r, 200) /\ Zips(r) /\ c \in ToSet(op[r].app) /\ InRange(Size[c]))
                      => Kept(ShaOf[c])
    /\ (Exists(ShaOf[c]) /\ ~InRange(Size[c])) =>
         \/ \A r \in Req : pc[r] # "idle" => ShaOf[c] \in there[r]
         \/ \E r \in Req : IsKind(r, {"entries"}) /\ c \in ToSet(op[r].app)

ContentOf(sha) == CHOOSE c \in Content : ShaOf[c] = sha
Expected(r) ==
  [i \in DOMAIN op[r].app |-> <<op[r].app[i]>>]
  \o [i \in DOMAIN op[r].want |-> <<ContentOf(op[r].want[i].sha)>>]

\* "creates and returns a zip file by bundling file entries from the app stash"
\* (api-doc/source/index.html.md): the zip of a bundle or package holds the
\* client's own files and those it refers to, whole, once each and in order,
\* and a zip that is handed over has its directory.
BundlesAreExact ==
  \A r \in Req : (Answered(r, 200) /\ Zips(r)) =>
    /\ zip[r] = Expected(r)
    /\ IsKind(r, {"package"}) => r \in closed

\* The temporary zip exists as long as its request runs, is handed over with a
\* package, and outlives no other request but one that panicked for want of
\* its temporary file or was killed.
TempZipLifetime ==
  \A r \in Req :
    /\ pc[r] \in {"stage", "put", "get", "close", "respond"} => r \in temp
    /\ (pc[r] = "done" /\ r \in temp) =>
         \/ Answered(r, 200) /\ IsKind(r, {"package"})
         \/ Answered(r, 500) /\ Zips(r) /\ left[r].app # <<>> /\ "open" \in Faults

\* The most steps r has still to take: a file of its own is staged, tried and
\* tried again, one of the stash tried and tried again.
Left(r) ==
  LET fetching == Len(left[r].want) * (MaxRetries + 1) + 2
      storing  == Len(left[r].app) * (MaxRetries + 2) + fetching + 1
  IN CASE pc[r] = "arrived" -> storing + 1
       [] pc[r] = "match"   -> Len(left[r].want) + 1
       [] pc[r] = "stage"   -> storing
       [] pc[r] = "put"     -> storing - 1 - retries[r]
       [] pc[r] = "get"     -> fetching - retries[r]
       [] pc[r] = "close"   -> 2
       [] pc[r] = "respond" -> 1
       [] pc[r] \in {"idle", "done", "killed"} -> 0

\* However often calls fail, a request comes to its end after so many steps:
\* every retried function starts with retries of its own (CreateTempZipFileFrom).
StepsAreBounded ==
  [][\A r \in Req : pc[r] # "idle" => Left(r)' \in 0..(Left(r) - (IF Goes(r) THEN 1 ELSE 0))]_vars

\* Every request is answered, or its process killed, however often calls fail.
StashAnswers == \A r \in Req : pc[r] # "idle" ~> pc[r] \in {"done", "killed"}

-----------------------------------------------------------------------------
(* Why these properties hold: what is true of a request at every point of   *)
(* its handler, and of the stash.  Together the parts are inductive.        *)

\* What is left of a list is its end.
EndOf(rest, list) ==
  /\ Len(rest) <= Len(list)
  /\ \A i \in 1..Len(rest) : rest[i] = list[Len(list) - Len(rest) + i]

AppDone(r) == Len(op[r].app) - Len(left[r].app)
WantDone(r) == Len(op[r].want) - Len(left[r].want)

\* Which handler a request is in and what it has still to do there.
Control(r) ==
  /\ EndOf(left[r].app, op[r].app) /\ EndOf(left[r].want, op[r].want)
  /\ pc[r] \in {"idle", "arrived"} => left[r].app = op[r].app /\ left[r].want = op[r].want
  /\ pc[r] = "match" => IsKind(r, {"matches"})
  /\ pc[r] \in {"stage", "put"} => ~IsKind(r, {"matches"})
  /\ pc[r] = "put" => left[r].app # <<>>
  /\ pc[r] \in {"stage", "put"} => left[r].want = op[r].want
  /\ pc[r] \in {"get", "close", "respond"} => Zips(r) /\ left[r].app = <<>>
  /\ pc[r] = "get" => left[r].want # <<>>
  /\ pc[r] \in {"close", "respond"} => left[r].want = <<>>
  /\ pc[r] # "done" => resp[r] = NoReply
  /\ Answered(r, 200) => IsKind(r, {"matches"}) \/ (Zips(r) /\ left[r].app = <<>>)
  /\ Answered(r, 200) => left[r].want = <<>>
  /\ Answered(r, 201) => IsKind(r, {"entries"}) /\ left[r].app = <<>>

Tempfile(r) ==
  /\ pc[r] \in {"stage", "put", "get", "close", "respond"} => r \in temp
  /\ pc[r] \in {"idle", "arrived", "match"} => r \notin temp
  /\ r \in closed => pc[r] \in {"respond", "done", "killed"}
  /\ (pc[r] = "done" /\ r \in temp) =>
       \/ Answered(r, 200) /\ IsKind(r, {"package"})
       \/ Answered(r, 500) /\ Zips(r) /\ left[r].app # <<>> /\ "open" \in Faults

\* What r saw of the stash when it arrived stays there, and r misses none of it
\* unless it is misled.
Saw(r) ==
  /\ there[r] \subseteq StashedKeys
  /\ missing[r] \cap there[r] \subseteq misled[r]
  /\ missing[r] # {} => pc[r] = "done" /\ resp[r] \notin {200, 201}

\* The answer so far.
Listed(r) ==
  /\ IsKind(r, {"matches"}) =>
       /\ \A k \in ToSet(shas[r]) :
            Exists(k) /\ \E i \in 1..WantDone(r) : op[r].want[i].sha = k /\ InRange(op[r].want[i].size)
       /\ \A i \in 1..WantDone(r) :
            InRange(op[r].want[i].size) /\ op[r].want[i].sha \in there[r] \ misled[r]
              => op[r].want[i].sha \in ToSet(shas[r])
       /\ Len(shas[r]) <= WantDone(r)
  /\ IsKind(r, {"entries"}) =>
       /\ Len(shas[r]) = AppDone(r)
       /\ \A i \in 1..AppDone(r) : shas[r][i] = ShaOf[op[r].app[i]] /\ Exists(shas[r][i])
  /\ Zips(r) =>
       /\ shas[r] = <<>>
       /\ \A i \in 1..AppDone(r) : InRange(Size[op[r].app[i]]) => Exists(ShaOf[op[r].app[i]])

\* The zip so far; a file that is being stored is in it already.
Zipped(r) ==
  LET done == AppDone(r) + WantDone(r)
  IN  /\ ~Zips(r) => zip[r] = <<>>
      /\ pc[r] \in {"idle", "arrived", "stage", "get", "close", "respond"} /\ Zips(r)
           => Len(zip[r]) = done
      /\ Answered(r, 200) /\ Zips(r) => Len(zip[r]) = done
      /\ pc[r] = "put" /\ Zips(r) => Len(zip[r]) = done + 1
      /\ \A i \in 1..Len(zip[r]) :
           i <= Len(op[r].app) => zip[r][i] = <<op[r].app[i]>>

\* What was read of the stash, when reads do not break off and the errors of
\* closing do not occur.
Exact(r) ==
  /\ part[r] = <<>>
  /\ \A i \in 1..Len(zip[r]) :
       i > Len(op[r].app) => zip[r][i] = <<ContentOf(op[r].want[i - Len(op[r].app)].sha)>>
  /\ (pc[r] = "respond" \/ (Answered(r, 200) /\ IsKind(r, {"package"}))) => r \in closed
  /\ Zips(r) /\ (pc[r] \in {"get", "close", "respond"} \/ Answered(r, 200)) =>
       \A i \in 1..WantDone(r) : Exists(op[r].want[i].sha)

\* The faults that spoil a zip (package_bundle.go:114, :129) and a stash.
Spoilt == PartialWrites \/ Faults \cap {"read", "close"} # {}

\* Only files within the thresholds, and those of PostEntries, enter the stash.
OthersAreEntries ==
  \A c \in Content : (Exists(ShaOf[c]) /\ ~InRange(Size[c])) =>
    \/ \A r \in Req : pc[r] # "idle" => ShaOf[c] \in there[r]
    \/ \E r \in Req : IsKind(r, {"entries"}) /\ c \in ToSet(op[r].app)

\* A part of a file is that of a Put which is under way or has failed.
Accounted ==
  /\ \A k \in Key : Exists(k) => Kept(k)
  /\ PartialWrites => mixed \subseteq broken

\* The conjunction of the parts, from which all the properties above follow:
\* no step of any request breaks it (PostMatches, PostEntries, PostBundles,
\* CreateTempZipFileFrom).
IndInv ==
  /\ TypeOK
  /\ \A r \in Req : Control(r) /\ Tempfile(r) /\ Saw(r) /\ Listed(r) /\ Zipped(r)
  /\ OthersAreEntries
  /\ Accounted
  /\ ~Spoilt => \A r \in Req : Exact(r)

-----------------------------------------------------------------------------
(* Refinement: the app-stash as its clients see it.                         *)

RefsOf(r) == [i \in DOMAIN op[r].want |-> op[r].want[i].sha]

\* PostMatches looks up the files of admissible size only.
Sought(r) ==
  {f.sha : f \in {g \in ToSet(op[r].want) : IsKind(r, {"matches"}) => InRange(g.size)}}

PhaseOf(r) ==
  CASE pc[r] = "idle" -> "new"
    [] pc[r] = "killed" -> "dead"
    [] Answered(r, 200) \/ Answered(r, 201) -> "served"
    [] pc[r] = "done" /\ resp[r] \notin {200, 201}
                     -> IF missing[r] = {} THEN "refused" ELSE "missed"
    [] OTHER -> "open"

ReplyOf(r) ==
  [shas    |-> IF PhaseOf(r) = "served" THEN shas[r] ELSE <<>>,
   zip     |-> IF PhaseOf(r) = "served" THEN zip[r] ELSE <<>>,
   missing |-> missing[r]]

Promise == INSTANCE StashPromise WITH
  Bundled <- {c \in Content : InRange(Size[c])},
  MayOverlook <- Overlooks("stat") \/ Overlooks("get"),
  ask     <- [r \in Req |-> [kind |-> op[r].kind, own |-> op[r].app,
                             refs |-> RefsOf(r), sought |-> Sought(r)]],
  phase   <- [r \in Req |-> PhaseOf(r)],
  stock   <- StashedKeys,
  since   <- there,
  unseen  <- misled,
  reply   <- [r \in Req |-> ReplyOf(r)]

\* Whatever calls fail and whenever the process is killed, every step of the
\* handlers is one the promise allows: nothing leaves the stash, only files
\* of running requests enter it, and answers say of it what the promise says, but
\* for what a backend denies that it has (PostMatches, PostEntries, PostBundles, CreateTempZipFileFrom).
KeepsStashPromise == Promise!SSpec
=============================================================================
