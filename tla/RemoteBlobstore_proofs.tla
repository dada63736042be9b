----------------------- MODULE RemoteBlobstore_proofs -----------------------
(***************************************************************************)
(* Theorems about RemoteBlobstore for any backends, calls, contents,       *)
(* directories and page sizes.                                             *)
(***************************************************************************)
EXTENDS RemoteBlobstore, FiniteSetTheorems, WellFoundedInduction, TLAPS

-----------------------------------------------------------------------------
(* What a step of a call may change, whatever the backend.                  *)

\* Running out of space is not a result of these backends.
Result == {"nil", "notFound", "error"}
Request == {"first", "second", "check", "block", "list", "remove"}
Staged == [BlockID -> Content \cup {NoContent}]

\* A call sends its next request, or returns.
Moves(p) ==
  /\ pc[p] \in Request
  /\ UNCHANGED <<job, contended>>
  /\ \/ /\ \E l \in Request : pc' = [pc EXCEPT ![p] = l]
        /\ UNCHANGED answer
     \/ /\ pc' = [pc EXCEPT ![p] = "done"]
        /\ \E e \in Result : answer' = [answer EXCEPT ![p] = e]

\* It changes what is stored under the keys it writes.
Touches(p) ==
  /\ blob' \in [Key -> Stored]
  /\ \A k \in Key : k \notin Writes(p) => blob'[k] = blob[k]

\* Only a Put stages blocks, of its content and under its key.
Stages(p) ==
  /\ staged' \in [Key -> Staged]
  /\ \A k \in Key, i \in BlockID :
       \/ staged'[k][i] = staged[k][i]
       \/ /\ Is(p, {"put"}) /\ k = job[p].key
          /\ staged'[k][i] \in {NoContent, job[p].content}

\* Indices into the listing of the call's directory.
PageOf(p) == [todo : SUBSET (DOMAIN Listing[job[p].key]), marker : Nat, more : BOOLEAN, errs : BOOLEAN]

Notes(p) ==
  /\ UNCHANGED <<fixed, kills>>
  /\ got' \in [Call -> Stored]
  /\ sent' \in [Call -> BlockID \cup {0}]
  /\ \A q \in Call \ {p} : sent'[q] = sent[q]
  /\ \/ UNCHANGED page
     \/ \E g \in PageOf(p) : page' = [page EXCEPT ![p] = g]
  /\ misreports \subseteq misreports' /\ misreports' \subseteq misreports \cup {p}

Effect(p) == Moves(p) /\ Touches(p) /\ Stages(p) /\ Notes(p)

\* Where a call is and what it has answered; what its page lists.
Control ==
  \A p \in Call : /\ pc[p] = "idle" <=> answer[p] = "idle"
                  /\ pc[p] \in Request <=> answer[p] = "running"
Pages == \A p \in Call : page[p] \in PageOf(p)

TypeInv == TypeOK /\ Control /\ Pages

-----------------------------------------------------------------------------
(* Types of what the actions are built from.                                *)

\* What the assumptions say of a call.
LEMMA CallTypes ==
  ASSUME TypeInv, NEW p \in Call
  PROVE  /\ job[p] \in Job /\ job[p] \in Jobs
         /\ job[p].key \in Key /\ job[p].source \in Key
         /\ job[p].content \in Content \cup {NoContent}
         /\ Is(p, {"put"}) => /\ job[p].content \in Content
                              /\ Blocks[job[p].content] \in Nat \ {0}
         /\ Under[job[p].key] \subseteq Key
         /\ Listing[job[p].key] \in Seq(Key)
         /\ page[p] \in PageOf(p)
         /\ blob \in [Key -> Stored]
         /\ pc \in [Call -> {"idle", "done"} \cup Request]
  <1>1. job[p] \in Jobs
    BY DEF TypeInv, TypeOK, CallsTypeOK
  <1>2. job[p] \in Job /\ (job[p].kind = "put" => job[p].content \in Content)
    BY <1>1, CallsAssumption
  <1>3. QED
    BY <1>1, <1>2, ResourcesAssumption, RemoteAssumption DEF Job, Is, TypeInv, Pages, TypeOK, Request

\* A call that goes on to another request.
LEMMA GoesOn ==
  ASSUME TypeInv, NEW p \in Call, pc[p] \in Request, NEW l \in Request, Goto(p, l)
  PROVE  Moves(p)
  BY DEF Moves, Goto, calls

\* A call that returns.
LEMMA Returns ==
  ASSUME TypeInv, NEW p \in Call, pc[p] \in Request, NEW e \in Result, Answer(p, e)
  PROVE  Moves(p)
  BY DEF Moves, Answer

\* The results calls make of answers.
LEMMA Outcomes ==
  ASSUME NEW a \in Ans
  PROVE  /\ Outcome(a) \in Result /\ Failed(a) \in Result
         /\ Outcome(a) = "nil" <=> a = "ok"
         /\ Failed(a) = "nil" <=> a = "ok"
         /\ Outcome(a) = "notFound" <=> a = "missing"
         /\ Failed(a) # "notFound"
  BY DEF Ans, Outcome, Failed, Result

\* The keys a call writes.
LEMMA WritesWhat ==
  ASSUME NEW p \in Call
  PROVE  /\ Is(p, {"put"}) \/ Is(p, {"copy"}) \/ Is(p, {"delete"}) => Writes(p) = {job[p].key}
         /\ Is(p, {"deleteDir"}) => Writes(p) = Under[job[p].key]
         /\ Is(p, {"get"}) \/ Is(p, {"stat"}) => Writes(p) = {}
  BY DEF Is, Writes

\* Storing, copying and deleting change a single key.
LEMMA StoreTouches ==
  ASSUME TypeInv, NEW p \in Call, NEW k \in Writes(p), k \in Key, NEW v \in Stored, NEW a, Store(k, v, a)
  PROVE  Touches(p) /\ UNCHANGED staged
  BY CallTypes DEF Store, Touches

\* What the single requests change: at most the resource they name.
LEMMA CopyTouches ==
  ASSUME TypeInv, NEW p \in Call, NEW k \in Writes(p), k \in Key, NEW s \in Key, NEW a, StoreCopy(s, k, a)
  PROVE  Touches(p) /\ UNCHANGED staged
  BY CallTypes DEF StoreCopy, Touches

LEMMA RemoveTouches ==
  ASSUME TypeInv, NEW p \in Call, NEW k \in Writes(p), k \in Key, NEW a, Remove(k, a)
  PROVE  Touches(p) /\ UNCHANGED staged
  BY CallTypes DEF Remove, Touches, Stored

\* Questions change nothing.
LEMMA AskTouches ==
  ASSUME TypeInv, NEW p \in Call, UNCHANGED server
  PROVE  Touches(p) /\ UNCHANGED staged
  BY CallTypes DEF server, Touches

LEMMA StagesNothing ==
  ASSUME TypeInv, NEW p \in Call, UNCHANGED staged
  PROVE  Stages(p)
  BY DEF Stages, TypeInv, TypeOK, Staged

\* What most requests leave alone.
LEMMA NotesNothing ==
  ASSUME TypeInv, NEW p \in Call, UNCHANGED <<fixed, local>>
  PROVE  Notes(p)
  BY DEF Notes, TypeInv, TypeOK, local, fixed

\* What a call records of its answer is its own.
LEMMA NotesReceived ==
  ASSUME TypeInv, NEW p \in Call, NEW a, Receives(p, a),
         UNCHANGED <<fixed, sent, page, kills>>,
         NEW wrong \in BOOLEAN, UNCHANGED misreports \/ Misleads(p, wrong)
  PROVE  Notes(p)
  <1>1. got' \in [Call -> Stored]
    BY CallTypes DEF Receives, TypeInv, TypeOK
  <1>2. QED
    BY <1>1 DEF Notes, TypeInv, TypeOK, Misleads, fixed

LEMMA NotesMisreport ==
  ASSUME TypeInv, NEW p \in Call, UNCHANGED <<fixed, got, sent, page, kills>>,
         NEW wrong \in BOOLEAN, Misleads(p, wrong)
  PROVE  Notes(p)
  BY DEF Notes, TypeInv, TypeOK, Misleads, fixed

-----------------------------------------------------------------------------
(* Requests that every backend makes the same way.                          *)

\* A question for the resource or the bucket, and a reply that follows.
LEMMA AskEffect ==
  ASSUME TypeInv, NEW p \in Call, UNCHANGED server, Moves(p), Notes(p)
  PROVE  Effect(p)
  BY AskTouches, StagesNothing DEF Effect

\* A write of the call's key.
LEMMA WriteEffect ==
  ASSUME TypeInv, NEW p \in Call, NEW a, NEW v \in Stored, NEW s \in Key,
         Is(p, {"put"}) \/ Is(p, {"copy"}) \/ Is(p, {"delete"}),
         \/ Store(job[p].key, v, a)
         \/ StoreCopy(s, job[p].key, a)
         \/ Remove(job[p].key, a),
         Moves(p), Notes(p)
  PROVE  Effect(p)
  <1>1. job[p].key \in Writes(p) /\ job[p].key \in Key
    BY WritesWhat, CallTypes
  <1>2. Touches(p) /\ UNCHANGED staged
    BY <1>1, StoreTouches, CopyTouches, RemoveTouches
  <1>3. QED
    BY <1>2, StagesNothing DEF Effect

\* The steps of a DeleteDir.
LEMMA ListsEffect ==
  ASSUME TypeInv, NEW p \in Call, NEW size, Lists(p, size)
  PROVE  Effect(p)
  <1>1. pc[p] \in Request
    BY DEF Lists, Request
  <1>2. Moves(p)
    BY <1>1, GoesOn, Returns DEF Lists, Request, Result
  <1>3. Notes(p)
    <2>1. CASE UNCHANGED page
      BY <2>1 DEF Lists, Notes, TypeInv, TypeOK
    <2>2. CASE ListPage(p, size)
      <3> DEFINE names == {i \in DOMAIN Listing[job[p].key] :
                  i > page[p].marker /\ Has(Listing[job[p].key][i])}
                 todo == {i \in names : Cardinality({j \in names : j <= i}) <= size}
      <3>1. PICK last \in todo \cup {page[p].marker} :
              page' = [page EXCEPT ![p] = [@ EXCEPT !.todo = todo, !.more = names # todo, !.marker = last]]
        BY <2>2 DEF ListPage
      <3>2. todo \subseteq DOMAIN Listing[job[p].key] /\ (names # todo) \in BOOLEAN
        OBVIOUS
      <3>3. last \in Nat
        BY CallTypes DEF PageOf
      <3> HIDE DEF names, todo
      <3>4. [page[p] EXCEPT !.todo = todo, !.more = names # todo, !.marker = last] \in PageOf(p)
        BY <3>2, <3>3, CallTypes DEF PageOf
      <3>5. page' = [page EXCEPT ![p] = [page[p] EXCEPT !.todo = todo, !.more = names # todo, !.marker = last]]
        BY <3>1
      <3>6. QED
        BY <3>4, <3>5 DEF Lists, Notes, TypeInv, TypeOK
    <2>3. QED
      BY <2>1, <2>2 DEF Lists
  <1>4. QED
    BY <1>2, <1>3, AskEffect DEF Lists

\* The effect of each request of each backend on what the calls share.
LEMMA DeletesEffect ==
  ASSUME TypeInv, NEW p \in Call, Is(p, {"deleteDir"}), NEW ignored, Deletes(p, ignored)
  PROVE  Effect(p)
  <1>1. pc[p] \in Request /\ Moves(p)
    BY CallTypes DEF Deletes, Moves, Request, calls, TypeInv, TypeOK
  <1>2. PICK i \in page[p].todo, a \in Ans :
          /\ Remove(Listing[job[p].key][i], a)
          /\ page' = [page EXCEPT ![p] =
               [page[p] EXCEPT !.todo = @ \ {i}, !.errs = @ \/ a \notin {"ok"} \cup ignored]]
    BY DEF Deletes
  <1>3. i \in DOMAIN Listing[job[p].key]
    BY CallTypes DEF PageOf
  <1>4. Listing[job[p].key][i] \in Key /\ Listing[job[p].key][i] \in Writes(p)
    <2>1. /\ {Listing[job[p].key][j] : j \in DOMAIN Listing[job[p].key]} = Under[job[p].key]
          /\ Under[job[p].key] \subseteq Key /\ Writes(p) = Under[job[p].key]
      BY CallTypes, WritesWhat, RemoteAssumption
    <2>2. QED
      BY <1>3, <2>1
  <1>5. Touches(p) /\ UNCHANGED staged
    BY <1>2, <1>4, RemoveTouches
  <1> DEFINE rest == page[p].todo \ {i}
             errs == page[p].errs \/ a \notin {"ok"} \cup ignored
             g == [page[p] EXCEPT !.todo = rest, !.errs = errs]
  <1>6. g \in PageOf(p)
    <2>1. rest \in SUBSET (DOMAIN Listing[job[p].key]) /\ errs \in BOOLEAN
      BY CallTypes DEF PageOf
    <2> HIDE DEF rest, errs
    <2>2. QED
      BY <2>1, CallTypes DEF PageOf
  <1>7. page' = [page EXCEPT ![p] = g]
    BY <1>2
  <1>8. Notes(p)
    BY <1>6, <1>7 DEF Deletes, Notes, TypeInv, TypeOK
  <1>9. QED
    BY <1>1, <1>5, <1>8, StagesNothing DEF Effect

LEMMA NextPageEffect ==
  ASSUME TypeInv, NEW p \in Call, NextPage(p)
  PROVE  Effect(p)
  <1>1. Moves(p)
    BY GoesOn DEF NextPage, Request
  <1>2. QED
    BY <1>1, AskEffect, NotesNothing DEF NextPage

LEMMA DeletedEffect ==
  ASSUME TypeInv, NEW p \in Call, Deleted(p)
  PROVE  Effect(p)
  <1>1. Moves(p)
    BY Returns DEF Deleted, Request, Result
  <1>2. QED
    BY <1>1, AskEffect, NotesNothing DEF Deleted

-----------------------------------------------------------------------------
(* The steps of each backend.                                               *)

LEMMA S3Effect ==
  ASSUME TypeInv, NEW p \in Call, S3(p)
  PROVE  Effect(p)
  <1>1. CASE S3Exists(p)
    <2>1. Moves(p)
      BY <1>1, Outcomes, Returns DEF S3Exists, In, Request
    <2>2. QED
      BY <1>1, <2>1, AskEffect, NotesNothing DEF S3Exists, Ask
  <1>2. CASE S3Get(p)
    <2>1. PICK a \in Ans : Ask(job[p].key, a) /\ Answer(p, Outcome(a)) /\ Receives(p, a)
      BY <1>2 DEF S3Get
    <2>2. Moves(p)
      BY <1>2, <2>1, Outcomes, Returns DEF S3Get, In, Request
    <2>3. Notes(p)
      BY <1>2, <2>1, NotesReceived DEF S3Get
    <2>4. QED
      BY <2>1, <2>2, <2>3, AskEffect DEF Ask
  <1>3. CASE S3Put(p)
    <2>1. Moves(p)
      BY <1>3, Outcomes, Returns DEF S3Put, In, Request
    <2>2. Notes(p)
      BY <1>3, NotesNothing DEF S3Put
    <2>3. job[p].content \in Stored
      BY <1>3, CallTypes DEF S3Put, In, Stored
    <2>4. QED
      BY <1>3, <2>1, <2>2, <2>3, WriteEffect, CallTypes DEF S3Put, In
  <1>4. CASE S3Copy(p)
    <2>1. Moves(p)
      BY <1>4, Outcomes, Returns DEF S3Copy, In, Request
    <2>2. Notes(p)
      BY <1>4, NotesNothing DEF S3Copy
    <2>3. QED
      BY <1>4, <2>1, <2>2, WriteEffect, CallTypes DEF S3Copy, In, Stored
  <1>5. CASE S3Delete(p)
    <2>1. Moves(p)
      BY <1>5, Outcomes, Returns DEF S3Delete, In, Request
    <2>2. Notes(p)
      BY <1>5, NotesNothing DEF S3Delete
    <2>3. QED
      BY <1>5, <2>1, <2>2, WriteEffect, CallTypes DEF S3Delete, In, Stored
  <1>6. CASE S3DeleteDir(p)
    BY <1>6, ListsEffect, DeletesEffect, NextPageEffect, DeletedEffect DEF S3DeleteDir
  <1>7. QED
    BY <1>1, <1>2, <1>3, <1>4, <1>5, <1>6 DEF S3

\* A missing object leads to the question for the bucket.
LEMMA GcpMoves ==
  ASSUME TypeInv, NEW p \in Call, pc[p] \in Request, NEW a \in Ans, GcpAnswers(p, a)
  PROVE  Moves(p)
  BY Outcomes, Returns, GoesOn DEF GcpAnswers, Request

LEMMA GcpEffect ==
  ASSUME TypeInv, NEW p \in Call, Gcp(p)
  PROVE  Effect(p)
  <1>1. CASE GcpHandleError(p)
    <2>1. Moves(p)
      BY <1>1, Returns DEF GcpHandleError, Result, Request
    <2>2. QED
      BY <1>1, <2>1, AskEffect, NotesNothing DEF GcpHandleError, Ask, AskBucket
  <1>2. CASE GcpExists(p)
    <2>1. Moves(p)
      BY <1>2, GcpMoves DEF GcpExists, In, Request
    <2>2. QED
      BY <1>2, <2>1, AskEffect, NotesNothing DEF GcpExists, Ask, AskBucket
  <1>3. CASE GcpGet(p)
    <2>1. Moves(p)
      BY <1>3, GcpMoves DEF GcpGet, In, Request
    <2>2. PICK a \in Ans : Ask(job[p].key, a) /\ Receives(p, a)
      BY <1>3 DEF GcpGet
    <2>3. Notes(p)
      BY <1>3, <2>2, NotesReceived DEF GcpGet
    <2>4. QED
      BY <2>1, <2>2, <2>3, AskEffect DEF Ask
  <1>4. CASE GcpPut(p)
    <2>1. Moves(p)
      BY <1>4, Outcomes, Returns, GoesOn DEF GcpPut, In, Request, Result
    <2>2. Notes(p)
      BY <1>4, NotesNothing DEF GcpPut
    <2>3. Torn \in Stored /\ Is(p, {"put"}) /\ job[p].content \in Stored
      BY <1>4, CallTypes DEF GcpPut, In, Stored
    <2>4. \/ \E a \in Ans : AskBucket(a)
          \/ \E a \in Ans, v \in Stored : Store(job[p].key, v, a)
      BY <1>4, <2>3 DEF GcpPut, Ans
    <2>5. QED
      BY <2>1, <2>2, <2>3, <2>4, AskEffect, WriteEffect, CallTypes DEF AskBucket
  <1>5. CASE GcpCopy(p)
    <2>1. Moves(p)
      BY <1>5, GcpMoves DEF GcpCopy, In, Request
    <2>2. Notes(p)
      BY <1>5, NotesNothing DEF GcpCopy
    <2>3. QED
      BY <1>5, <2>1, <2>2, WriteEffect, CallTypes DEF GcpCopy, In, Stored
  <1>6. CASE GcpDelete(p)
    <2>1. Moves(p)
      BY <1>6, GcpMoves DEF GcpDelete, In, Request
    <2>2. Notes(p)
      BY <1>6, NotesNothing DEF GcpDelete
    <2>3. QED
      BY <1>6, <2>1, <2>2, WriteEffect, CallTypes DEF GcpDelete, In, Stored
  <1>7. CASE GcpDeleteDir(p)
    BY <1>7, ListsEffect, DeletesEffect, NextPageEffect, DeletedEffect DEF GcpDeleteDir
  <1>8. QED
    BY <1>1, <1>2, <1>3, <1>4, <1>5, <1>6, <1>7 DEF Gcp

\* The blocks of a Put.
LEMMA AzureCreateEffect ==
  ASSUME TypeInv, NEW p \in Call, AzureCreate(p)
  PROVE  Effect(p)
  <1>1. Moves(p)
    BY Returns, GoesOn DEF AzureCreate, In, Request, Result
  <1>2. Notes(p)
    BY NotesNothing DEF AzureCreate
  <1>3. Is(p, {"put"}) /\ Writes(p) = {job[p].key}
    BY WritesWhat DEF AzureCreate, In
  <1>4. CASE UNCHANGED server
    BY <1>1, <1>2, <1>4, AskEffect
  <1>5. CASE /\ blob' = [blob EXCEPT ![job[p].key] = Torn]
             /\ staged' = [staged EXCEPT ![job[p].key] = Nothing]
    <2>1. Touches(p)
      BY <1>3, <1>5, CallTypes DEF Touches, Stored
    <2>2. Nothing \in Staged /\ \A i \in BlockID : Nothing[i] = NoContent
      BY DEF Nothing, Staged
    <2>3. Stages(p)
      BY <1>3, <1>5, <2>2, CallTypes DEF Stages, TypeInv, TypeOK, Staged
    <2>4. QED
      BY <1>1, <1>2, <2>1, <2>3 DEF Effect
  <1>6. QED
    BY <1>4, <1>5 DEF AzureCreate

LEMMA AzureBlockEffect ==
  ASSUME TypeInv, NEW p \in Call, AzureBlock(p)
  PROVE  Effect(p)
  <1> DEFINE c == job[p].content
  <1>1. /\ Is(p, {"put"}) /\ pc[p] = "block" /\ sent[p] < Blocks[c]
        /\ c \in Content /\ Blocks[c] \in Nat \ {0}
        /\ job[p].key \in Key
    BY CallTypes DEF AzureBlock, In
  <1>2. sent[p] \in Nat
    BY RemoteAssumption DEF TypeInv, TypeOK, BlockID
  <1>3. sent[p] + 1 \in 1..Blocks[c]
    BY <1>1, <1>2
  <1>4. sent[p] + 1 \in BlockID
    BY <1>1, <1>3 DEF BlockID
  <1>5. Moves(p)
    <2>1. CASE UNCHANGED <<calls, pc>>
      BY <1>1, <2>1 DEF Moves, calls, Request, TypeInv, TypeOK
    <2>2. CASE Answer(p, "error")
      BY <1>1, <2>2, Returns DEF Request, Result
    <2>3. QED
      BY <2>1, <2>2 DEF AzureBlock
  <1>6. Notes(p)
    <2>1. sent' \in [Call -> BlockID \cup {0}]
      BY <1>4 DEF AzureBlock, TypeInv, TypeOK
    <2>2. QED
      BY <2>1 DEF AzureBlock, Notes, TypeInv, TypeOK, fixed
  <1>7. CASE UNCHANGED server
    BY <1>5, <1>6, <1>7, AskEffect
  <1>8. CASE staged' = [staged EXCEPT ![job[p].key][sent[p] + 1] = c] /\ UNCHANGED blob
    <2>1. Touches(p)
      BY <1>8, CallTypes DEF Touches
    <2>2. staged \in [Key -> Staged]
      BY DEF TypeInv, TypeOK, Staged
    <2>3. [staged[job[p].key] EXCEPT ![sent[p] + 1] = c] \in Staged
      BY <1>1, <1>4, <2>2 DEF Staged
    <2>4. staged' = [staged EXCEPT ![job[p].key] = [staged[job[p].key] EXCEPT ![sent[p] + 1] = c]]
      BY <1>8
    <2>5. Stages(p)
      BY <1>1, <2>2, <2>3, <2>4 DEF Stages, Staged
    <2>6. QED
      BY <1>5, <1>6, <2>1, <2>5 DEF Effect
  <1>9. QED
    BY <1>7, <1>8 DEF AzureBlock

LEMMA AzureCommitEffect ==
  ASSUME TypeInv, NEW p \in Call, AzureCommit(p)
  PROVE  Effect(p)
  <1>1. Moves(p)
    BY Outcomes, Returns DEF AzureCommit, In, Request
  <1>2. Notes(p)
    BY NotesNothing DEF AzureCommit
  <1>3. Is(p, {"put"}) /\ Writes(p) = {job[p].key}
    BY WritesWhat DEF AzureCommit, In
  <1>4. CASE UNCHANGED server
    BY <1>1, <1>2, <1>4, AskEffect
  <1>5. CASE /\ blob' = [blob EXCEPT ![job[p].key] = Assembled(job[p].key, sent[p])]
             /\ staged' = [staged EXCEPT ![job[p].key] = Nothing]
    <2>1. Assembled(job[p].key, sent[p]) \in Stored
      BY DEF Assembled, Stored
    <2>2. Touches(p)
      BY <1>3, <1>5, <2>1, CallTypes DEF Touches
    <2>3. Nothing \in Staged /\ \A i \in BlockID : Nothing[i] = NoContent
      BY DEF Nothing, Staged
    <2>4. Stages(p)
      BY <1>3, <1>5, <2>3, CallTypes DEF Stages, TypeInv, TypeOK, Staged
    <2>5. QED
      BY <1>1, <1>2, <2>2, <2>4 DEF Effect
  <1>6. QED
    BY <1>4, <1>5 DEF AzureCommit, CommitBlocks

LEMMA AzureEffect ==
  ASSUME TypeInv, NEW p \in Call, Azure(p)
  PROVE  Effect(p)
  <1>1. CASE AzureHandleError(p)
    <2>1. Moves(p)
      BY <1>1, Returns DEF AzureHandleError, Result, Request
    <2>2. QED
      BY <1>1, <2>1, AskEffect, NotesNothing DEF AzureHandleError, Ask, AskBucket
  <1>2. CASE AzureExists(p)
    <2>1. Moves(p)
      BY <1>2, Outcomes, Returns DEF AzureExists, In, Request
    <2>2. QED
      BY <1>2, <2>1, AskEffect, NotesNothing DEF AzureExists, Ask, AskBucket
  <1>3. CASE AzureGet(p)
    <2>1. Moves(p)
      BY <1>3, Outcomes, Returns, GoesOn DEF AzureGet, In, Request
    <2>2. PICK a \in Ans : Ask(job[p].key, a) /\ Receives(p, a)
      BY <1>3 DEF AzureGet
    <2>3. Notes(p)
      BY <1>3, <2>2, NotesReceived DEF AzureGet
    <2>4. QED
      BY <2>1, <2>2, <2>3, AskEffect DEF Ask
  <1>4. CASE AzureCreate(p) \/ AzureBlock(p) \/ AzureCommit(p)
    BY <1>4, AzureCreateEffect, AzureBlockEffect, AzureCommitEffect
  <1>5. CASE AzureCopy(p)
    <2>1. Moves(p)
      BY <1>5, Returns DEF AzureCopy, In, Request, Result
    <2>2. Notes(p)
      BY <1>5, NotesMisreport DEF AzureCopy
    <2>3. QED
      BY <1>5, <2>1, <2>2, WriteEffect, CallTypes DEF AzureCopy, In, Stored
  <1>6. CASE AzureDelete(p)
    <2>1. Moves(p)
      BY <1>6, Outcomes, Returns DEF AzureDelete, In, Request
    <2>2. Notes(p)
      BY <1>6, NotesNothing DEF AzureDelete
    <2>3. QED
      BY <1>6, <2>1, <2>2, WriteEffect, CallTypes DEF AzureDelete, In, Stored
  <1>7. CASE AzureDeleteDir(p)
    BY <1>7, ListsEffect, DeletesEffect, NextPageEffect, DeletedEffect DEF AzureDeleteDir
  <1>8. QED
    BY <1>1, <1>2, <1>3, <1>4, <1>5, <1>6, <1>7 DEF Azure

LEMMA OpenstackEffect ==
  ASSUME TypeInv, NEW p \in Call, Openstack(p)
  PROVE  Effect(p)
  <1>1. CASE OpenstackContainerExists(p)
    <2>1. Moves(p)
      BY <1>1, Outcomes, Returns, GoesOn DEF OpenstackContainerExists, Result, Request
    <2>2. QED
      BY <1>1, <2>1, AskEffect, NotesNothing DEF OpenstackContainerExists, Ask, AskBucket
  <1>2. CASE OpenstackExists(p)
    <2>1. Moves(p)
      BY <1>2, Outcomes, Returns DEF OpenstackExists, In, Request
    <2>2. QED
      BY <1>2, <2>1, AskEffect, NotesNothing DEF OpenstackExists, Ask, AskBucket
  <1>3. CASE OpenstackGet(p)
    <2>1. Moves(p)
      BY <1>3, Outcomes, Returns DEF OpenstackGet, In, Request
    <2>2. PICK a \in Ans : Ask(job[p].key, a) /\ Receives(p, a) /\ Misleads(p, a = "missing" /\ ~bucket)
      BY <1>3 DEF OpenstackGet
    <2>3. Notes(p)
      BY <1>3, <2>2, NotesReceived DEF OpenstackGet
    <2>4. QED
      BY <2>1, <2>2, <2>3, AskEffect DEF Ask
  <1>4. CASE OpenstackPut(p)
    <2>1. Moves(p)
      BY <1>4, Outcomes, Returns DEF OpenstackPut, In, Request
    <2>2. Notes(p)
      BY <1>4, NotesNothing DEF OpenstackPut
    <2>3. job[p].content \in Stored
      BY <1>4, CallTypes DEF OpenstackPut, In, Stored
    <2>4. QED
      BY <1>4, <2>1, <2>2, <2>3, WriteEffect, CallTypes DEF OpenstackPut, In, Stored
  <1>5. CASE OpenstackCopy(p)
    <2>1. Moves(p)
      BY <1>5, Outcomes, Returns DEF OpenstackCopy, In, Request
    <2>2. Notes(p)
      BY <1>5, NotesNothing DEF OpenstackCopy
    <2>3. QED
      BY <1>5, <2>1, <2>2, WriteEffect, CallTypes DEF OpenstackCopy, In, Stored
  <1>6. CASE OpenstackDelete(p)
    <2>1. Moves(p)
      BY <1>6, Outcomes, Returns DEF OpenstackDelete, In, Request
    <2>2. Notes(p)
      BY <1>6, NotesNothing DEF OpenstackDelete
    <2>3. QED
      BY <1>6, <2>1, <2>2, WriteEffect, CallTypes DEF OpenstackDelete, In, Stored
  <1>7. CASE OpenstackDeleteDir(p)
    BY <1>7, ListsEffect, DeletesEffect, NextPageEffect, DeletedEffect DEF OpenstackDeleteDir
  <1>8. QED
    BY <1>1, <1>2, <1>3, <1>4, <1>5, <1>6, <1>7 DEF Openstack

LEMMA AlibabaEffect ==
  ASSUME TypeInv, NEW p \in Call, Alibaba(p)
  PROVE  Effect(p)
  <1>1. CASE AlibabaBucketExists(p)
    <2>1. Moves(p)
      BY <1>1, Outcomes, Returns, GoesOn DEF AlibabaBucketExists, Result, Request
    <2>2. QED
      BY <1>1, <2>1, AskEffect, NotesNothing DEF AlibabaBucketExists, Ask, AskBucket
  <1>2. CASE AlibabaExists(p)
    <2>1. Moves(p)
      BY <1>2, Outcomes, Returns DEF AlibabaExists, In, Request
    <2>2. QED
      BY <1>2, <2>1, AskEffect, NotesNothing DEF AlibabaExists, Ask, AskBucket
  <1>3. CASE AlibabaGet(p)
    <2>1. Moves(p)
      BY <1>3, Outcomes, Returns DEF AlibabaGet, In, Request, Result
    <2>2. PICK a \in Ans : Ask(job[p].key, a) /\ Receives(p, a) /\ Misleads(p, a = "failed")
      BY <1>3 DEF AlibabaGet
    <2>3. Notes(p)
      BY <1>3, <2>2, NotesReceived DEF AlibabaGet
    <2>4. QED
      BY <2>1, <2>2, <2>3, AskEffect DEF Ask
  <1>4. CASE AlibabaPut(p)
    <2>1. Moves(p)
      BY <1>4, Outcomes, Returns DEF AlibabaPut, In, Request
    <2>2. Notes(p)
      BY <1>4, NotesNothing DEF AlibabaPut
    <2>3. job[p].content \in Stored
      BY <1>4, CallTypes DEF AlibabaPut, In, Stored
    <2>4. QED
      BY <1>4, <2>1, <2>2, <2>3, WriteEffect, CallTypes DEF AlibabaPut, In, Stored
  <1>5. CASE AlibabaCopy(p)
    <2>1. Moves(p)
      BY <1>5, Outcomes, Returns DEF AlibabaCopy, In, Request
    <2>2. Notes(p)
      BY <1>5, NotesNothing DEF AlibabaCopy
    <2>3. QED
      BY <1>5, <2>1, <2>2, WriteEffect, CallTypes DEF AlibabaCopy, In, Stored
  <1>6. CASE AlibabaDelete(p)
    <2>1. Moves(p)
      BY <1>6, Outcomes, Returns DEF AlibabaDelete, In, Request
    <2>2. Notes(p)
      BY <1>6, NotesNothing DEF AlibabaDelete
    <2>3. QED
      BY <1>6, <2>1, <2>2, WriteEffect, CallTypes DEF AlibabaDelete, In, Stored
  <1>7. CASE AlibabaDeleteDir(p)
    <2>1. CASE /\ pc[p] = "remove" /\ Answer(p, "nil") /\ Misleads(p, page[p].errs)
               /\ UNCHANGED <<server, fixed, got, sent, page, kills>>
      <3>1. Moves(p)
        BY <2>1, Returns DEF Request, Result
      <3>2. page[p].errs \in BOOLEAN
        BY CallTypes DEF PageOf
      <3>3. QED
        BY <2>1, <3>1, <3>2, AskEffect, NotesMisreport
    <2>2. QED
      BY <1>7, <2>1, ListsEffect, DeletesEffect, NextPageEffect DEF AlibabaDeleteDir
  <1>8. QED
    BY <1>1, <1>2, <1>3, <1>4, <1>5, <1>6, <1>7 DEF Alibaba

\* What follows a HEAD, or a request that can be misunderstood.
LEMMA WebdavHeadEffect ==
  ASSUME TypeInv, NEW p \in Call, NEW e, WebdavHead(p, e),
         Moves(p), UNCHANGED <<fixed, got, sent, page, kills>>
  PROVE  Effect(p)
  BY AskEffect, NotesMisreport DEF WebdavHead, Ask

LEMMA WebdavEffect ==
  ASSUME TypeInv, NEW p \in Call, Webdav(p)
  PROVE  Effect(p)
  <1>1. CASE WebdavExists(p)
    <2>1. Moves(p)
      BY <1>1, Returns DEF WebdavExists, In, Request, Result
    <2>2. QED
      BY <1>1, <2>1, WebdavHeadEffect DEF WebdavExists
  <1>2. CASE WebdavGet(p)
    <2>1. Moves(p)
      BY <1>2, Outcomes, Returns, GoesOn DEF WebdavGet, In, Request, Result
    <2>2. CASE /\ \E e \in {"nil", "notFound", "error"} : WebdavHead(p, e)
               /\ UNCHANGED <<fixed, got, sent, page, kills>>
      BY <2>1, <2>2, WebdavHeadEffect
    <2>3. CASE /\ \E a \in Ans : Ask(job[p].key, a) /\ Receives(p, a)
               /\ UNCHANGED <<fixed, sent, page, misreports, kills>>
      BY <2>1, <2>3, NotesReceived, AskEffect DEF Ask
    <2>4. QED
      BY <1>2, <2>2, <2>3 DEF WebdavGet
  <1>3. CASE WebdavPut(p)
    <2>1. Moves(p)
      BY <1>3, Outcomes, Returns DEF WebdavPut, In, Request
    <2>2. Notes(p)
      BY <1>3, NotesNothing DEF WebdavPut
    <2>3. job[p].content \in Stored
      BY <1>3, CallTypes DEF WebdavPut, In, Stored
    <2>4. QED
      BY <1>3, <2>1, <2>2, <2>3, WriteEffect, CallTypes DEF WebdavPut, In, Stored
  <1>4. CASE WebdavCopy(p)
    <2>1. Moves(p)
      BY <1>4, Outcomes, Returns, GoesOn DEF WebdavCopy, In, Request, Result
    <2>2. Notes(p)
      BY <1>4, NotesNothing, NotesMisreport DEF WebdavCopy
    <2>3. Torn \in Stored
      BY DEF Stored
    <2>4. QED
      BY <1>4, <2>1, <2>2, <2>3, WriteEffect, CallTypes DEF WebdavCopy, In
  <1>5. CASE WebdavDelete(p)
    <2>1. Moves(p)
      BY <1>5, Outcomes, Returns DEF WebdavDelete, In, Request
    <2>2. Notes(p)
      BY <1>5, NotesNothing DEF WebdavDelete
    <2>3. QED
      BY <1>5, <2>1, <2>2, WriteEffect, CallTypes DEF WebdavDelete, In, Stored
  <1>6. CASE WebdavDeleteDir(p)
    <2>1. Moves(p)
      BY <1>6, Outcomes, Returns DEF WebdavDeleteDir, In, Request
    <2>2. Notes(p)
      BY <1>6, NotesNothing DEF WebdavDeleteDir
    <2>3. PICK gone \in SUBSET Under[job[p].key] :
            blob' = [k \in Key |-> IF k \in gone THEN Absent ELSE blob[k]]
      BY <1>6 DEF WebdavDeleteDir
    <2>4. Writes(p) = Under[job[p].key]
      BY <1>6, WritesWhat DEF WebdavDeleteDir, In
    <2>5. Touches(p)
      BY <2>3, <2>4, CallTypes DEF Touches, Stored
    <2>6. Stages(p)
      BY <1>6, StagesNothing DEF WebdavDeleteDir
    <2>7. QED
      BY <2>1, <2>2, <2>5, <2>6 DEF Effect
  <1>7. QED
    BY <1>1, <1>2, <1>3, <1>4, <1>5, <1>6 DEF Webdav

\* Whatever the backend, a step of a call has this effect.
LEMMA WorksEffect ==
  ASSUME TypeInv, NEW p \in Call, Works(p)
  PROVE  Effect(p)
  BY S3Effect, GcpEffect, AzureEffect, OpenstackEffect, AlibabaEffect, WebdavEffect DEF Works

-----------------------------------------------------------------------------
(* Type correctness.                                                        *)

\* Initially nothing is stored and nothing runs.
LEMMA TypeInit == Init => TypeInv
  <1> SUFFICES ASSUME Init PROVE TypeInv
    OBVIOUS
  <1>1. CallsTypeOK
    BY DEF Init, CallsInit, CallsTypeOK
  <1>2. backend \in Backends /\ bucket \in BOOLEAN
    BY DEF Init
  <1>3. blob \in [Key -> Stored]
    BY RemoteAssumption DEF Init, Stored
  <1>4. staged \in [Key -> [BlockID -> Content \cup {NoContent}]]
    BY DEF Init, Nothing
  <1>5. /\ pc \in [Call -> {"idle", "first", "second", "check", "block", "list", "remove", "done"}]
        /\ got \in [Call -> Stored]
        /\ sent \in [Call -> BlockID \cup {0}]
        /\ page \in [Call -> Listed]
        /\ misreports \subseteq Call
        /\ kills \in 0..MaxKills
    BY RemoteAssumption DEF Init, Stored, Listed
  <1>6. Control
    BY DEF Control, Init, CallsInit, Request
  <1>7. Pages
    BY DEF Pages, PageOf, Init
  <1>8. QED
    BY <1>1, <1>2, <1>3, <1>4, <1>5, <1>6, <1>7 DEF TypeInv, TypeOK

\* The effect of a step keeps the types.
LEMMA TypeEffect ==
  ASSUME TypeInv, NEW p \in Call, Effect(p)
  PROVE  TypeInv'
  <1>1. /\ answer' \in [Call -> {"idle", "running", "killed", "nil", "notFound", "noSpace", "error"}]
        /\ pc' \in [Call -> {"idle", "first", "second", "check", "block", "list", "remove", "done"}]
        /\ UNCHANGED <<job, contended>>
    BY DEF Effect, Moves, TypeInv, TypeOK, CallsTypeOK, Request, Result
  <1>2. CallsTypeOK'
    BY <1>1 DEF TypeInv, TypeOK, CallsTypeOK
  <1>3. Control'
    BY DEF Effect, Moves, TypeInv, TypeOK, CallsTypeOK, Control, Request, Result
  <1>4. /\ blob' \in [Key -> Stored]
        /\ staged' \in [Key -> [BlockID -> Content \cup {NoContent}]]
    BY DEF Effect, Touches, Stages, Staged
  <1>5. Pages' /\ page' \in [Call -> Listed]
    <2>1. \A q \in Call : PageOf(q)' = PageOf(q)
      BY <1>1 DEF PageOf
    <2>2. CASE UNCHANGED page
      BY <2>1, <2>2 DEF TypeInv, TypeOK, Pages
    <2>3. ASSUME NEW g \in PageOf(p), page' = [page EXCEPT ![p] = g]
          PROVE  Pages' /\ page' \in [Call -> Listed]
      <3>1. DOMAIN Listing[job[p].key] \subseteq Nat
        BY CallTypes
      <3>2. g \in Listed
        BY <3>1 DEF PageOf, Listed
      <3>3. QED
        BY <2>1, <2>3, <3>2 DEF TypeInv, TypeOK, Pages
    <2>4. QED
      BY <2>2, <2>3 DEF Effect, Notes
  <1>6. QED
    BY <1>1, <1>2, <1>3, <1>4, <1>5 DEF Effect, Notes, TypeInv, TypeOK, fixed

LEMMA TypeStart ==
  ASSUME TypeInv, NEW p \in Call, Start(p)
  PROVE  TypeInv'
  <1>1. \A q \in Call : Writes(q) \subseteq Key
    BY CallTypes, WritesWhat DEF Writes
  <1>2. contended' \in [Call -> SUBSET Key]
    BY <1>1 DEF Start, Begins, TypeInv, TypeOK, CallsTypeOK
  <1>3. CallsTypeOK'
    BY <1>2 DEF Start, Begins, TypeInv, TypeOK, CallsTypeOK
  <1>4. pc' = [pc EXCEPT ![p] = "list"] \/ pc' = [pc EXCEPT ![p] = "first"]
    BY DEF Start
  <1>5. Control'
    BY <1>4 DEF Start, Begins, Control, TypeInv, TypeOK, CallsTypeOK, Request
  <1>6. Pages'
    BY DEF Pages, PageOf, Start, Begins, local, TypeInv
  <1>7. pc' \in [Call -> {"idle", "first", "second", "check", "block", "list", "remove", "done"}]
    BY <1>4 DEF TypeInv, TypeOK
  <1>8. QED
    BY <1>3, <1>5, <1>6, <1>7 DEF Start, TypeInv, TypeOK, fixed, server, local

LEMMA TypeKill ==
  ASSUME TypeInv, Kill
  PROVE  TypeInv'
  <1>1. CallsTypeOK'
    BY DEF Kill, Killed, TypeInv, TypeOK, CallsTypeOK
  <1>2. Control'
    BY DEF Kill, Killed, Running, Control, TypeInv, TypeOK, CallsTypeOK, Request
  <1>3. Pages'
    BY DEF Pages, PageOf, Kill, Killed, TypeInv
  <1>4. pc' \in [Call -> {"idle", "first", "second", "check", "block", "list", "remove", "done"}]
    BY DEF Kill, TypeInv, TypeOK
  <1>5. kills' \in 0..MaxKills
    BY RemoteAssumption DEF Kill, TypeInv, TypeOK
  <1>6. QED
    BY <1>1, <1>2, <1>3, <1>4, <1>5 DEF Kill, TypeInv, TypeOK, fixed, server

\* All steps together.
LEMMA TypeStep == TypeInv /\ [Next]_vars => TypeInv'
  <1> SUFFICES ASSUME TypeInv, [Next]_vars PROVE TypeInv'
    OBVIOUS
  <1>1. CASE \E p \in Call : Start(p)
    BY <1>1, TypeStart
  <1>2. CASE \E p \in Call : Works(p)
    BY <1>2, WorksEffect, TypeEffect
  <1>3. CASE Kill
    BY <1>3, TypeKill
  <1>4. CASE UNCHANGED vars
    <2>1. TypeOK'
      BY <1>4 DEF vars, calls, fixed, server, local, TypeInv, TypeOK, CallsTypeOK
    <2>2. Control' /\ Pages'
      BY <1>4 DEF vars, calls, fixed, server, local, TypeInv, Control, Pages, PageOf
    <2>3. QED
      BY <2>1, <2>2 DEF TypeInv
  <1>5. QED
    BY <1>1, <1>2, <1>3, <1>4 DEF Next

\* The invariant holds in every behaviour.
LEMMA Typed == Spec => []TypeInv
  BY TypeInit, TypeStep, PTL DEF Spec

\* Every variable stays within its type, whatever fails and however the calls
\* interleave.
THEOREM TypeCorrect == Spec => []TypeOK
  <1>1. TypeInv => TypeOK
    BY DEF TypeInv
  <1>2. QED
    BY <1>1, Typed, PTL

-----------------------------------------------------------------------------
(* Puts of the same resource converge.                                      *)

\* What an answer or another request makes of a call.
LEMMA Answered ==
  ASSUME TypeInv, NEW p \in Call
  PROVE  /\ \A e : Answer(p, e) => answer'[p] = e
         /\ pc[p] \in Request => \A l : Goto(p, l) => answer'[p] = "running"
         /\ pc[p] \in Request /\ UNCHANGED calls => answer'[p] = "running"
  BY DEF Answer, Goto, calls, TypeInv, TypeOK, CallsTypeOK, Control

\* The blocks that are staged, when they are all of content c, make c.
LEMMA AssembledIs ==
  ASSUME NEW k \in Key, NEW c \in Content,
         \A i \in 1..Blocks[c] : staged[k][i] = c
  PROVE  Assembled(k, Blocks[c]) = c
  <1> DEFINE whole == {d \in Content : Blocks[d] = Blocks[c] /\ \A i \in 1..Blocks[c] : staged[k][i] = d}
  <1>1. 1 \in 1..Blocks[c]
    BY RemoteAssumption
  <1>2. whole = {c}
    BY <1>1
  <1>3. (CHOOSE d \in {c} : TRUE) = c
    OBVIOUS
  <1>4. QED
    BY <1>2, <1>3 DEF Assembled

\* A Put that succeeds has stored its content, unless blocks of another were
\* staged under its key.
LEMMA PutStores ==
  ASSUME TypeInv, NEW p \in Call, Works(p), Is(p, {"put"}), answer'[p] = "nil",
         \A i \in BlockID : staged[job[p].key][i] \in {NoContent, job[p].content}
  PROVE  blob'[job[p].key] = job[p].content
  <1> DEFINE k == job[p].key
             c == job[p].content
  <1>1. /\ k \in Key /\ c \in Content /\ blob \in [Key -> Stored]
        /\ ~Is(p, {"get"}) /\ ~Is(p, {"stat"}) /\ ~Is(p, {"copy"})
        /\ ~Is(p, {"delete"}) /\ ~Is(p, {"deleteDir"})
    BY CallTypes DEF Is
  <1>2. \A a \in Ans : Store(k, c, a) /\ (Answer(p, Outcome(a)) \/ Answer(p, Failed(a))) => blob'[k] = c
    <2> SUFFICES ASSUME NEW a \in Ans, Store(k, c, a), Answer(p, Outcome(a)) \/ Answer(p, Failed(a))
                 PROVE  blob'[k] = c
      OBVIOUS
    <2>1. a = "ok"
      BY Answered, Outcomes
    <2>2. QED
      BY <1>1, <2>1 DEF Store
  <1>3. CASE S3(p)
    BY <1>1, <1>2, <1>3 DEF S3, S3Exists, S3Get, S3Put, S3Copy, S3Delete, S3DeleteDir, In
  <1>4. CASE Gcp(p)
    <2>1. ~GcpHandleError(p)
      BY Answered DEF GcpHandleError
    <2>2. GcpPut(p)
      BY <1>1, <1>4, <2>1 DEF Gcp, GcpExists, GcpGet, GcpCopy, GcpDelete, GcpDeleteDir, In
    <2>3. \E a \in Ans : Store(k, c, a) /\ Answer(p, Outcome(a))
      BY <2>2, Answered DEF GcpPut, In, Request
    <2>4. QED
      BY <1>2, <2>3
  <1>5. CASE Azure(p)
    <2>1. ~AzureHandleError(p) /\ ~AzureCreate(p) /\ ~AzureBlock(p)
      BY Answered DEF AzureHandleError, AzureCreate, AzureBlock, In, Request
    <2>2. AzureCommit(p)
      BY <1>1, <1>5, <2>1 DEF Azure, AzureExists, AzureGet, AzureCopy, AzureDelete, AzureDeleteDir, In
    <2>3. CommitBlocks(k, Blocks[c], "ok")
      BY <2>2, Answered, Outcomes DEF AzureCommit, Ans
    <2>4. \A i \in 1..Blocks[c] : i \in BlockID
      BY <1>1 DEF BlockID
    <2>5. \A i \in 1..Blocks[c] : staged[k][i] = c
      BY <2>3, <2>4 DEF CommitBlocks
    <2>6. blob' = [blob EXCEPT ![k] = Assembled(k, Blocks[c])]
      BY <2>3 DEF CommitBlocks
    <2>7. Assembled(k, Blocks[c]) = c
      BY <1>1, <2>5, AssembledIs
    <2>8. QED
      BY <1>1, <2>6, <2>7
  <1>6. CASE Openstack(p)
    <2>1. ~OpenstackContainerExists(p)
      BY Answered DEF OpenstackContainerExists, Request
    <2>2. OpenstackPut(p)
      BY <1>1, <1>6, <2>1 DEF Openstack, OpenstackExists, OpenstackGet, OpenstackCopy,
                              OpenstackDelete, OpenstackDeleteDir, In
    <2>3. QED
      BY <1>2, <2>2 DEF OpenstackPut
  <1>7. CASE Alibaba(p)
    <2>1. ~AlibabaBucketExists(p)
      BY Answered DEF AlibabaBucketExists, Request
    <2>2. AlibabaPut(p)
      BY <1>1, <1>7, <2>1 DEF Alibaba, AlibabaExists, AlibabaGet, AlibabaCopy,
                              AlibabaDelete, AlibabaDeleteDir, In
    <2>3. QED
      BY <1>2, <2>2 DEF AlibabaPut
  <1>8. CASE Webdav(p)
    <2>1. WebdavPut(p)
      BY <1>1, <1>8 DEF Webdav, WebdavExists, WebdavGet, WebdavCopy, WebdavDelete, WebdavDeleteDir, In
    <2>2. QED
      BY <1>2, <2>1 DEF WebdavPut
  <1>9. QED
    BY <1>3, <1>4, <1>5, <1>6, <1>7, <1>8 DEF Works

\* While all that write k have content c and none of them has failed: the
\* staged blocks are of c, and c is stored, or somebody is still at it.
Writers(k) == {p \in Call : k \in Writes(p) /\ answer[p] # "idle"}
Agree(k, c) == \A p \in Writers(k) : job[p].content = c /\ answer[p] \in {"running", "nil"}
Converging(k, c) ==
  Agree(k, c) => /\ \A i \in BlockID : staged[k][i] \in {NoContent, c}
                 /\ Writers(k) # {} => blob[k] = c \/ \E p \in Writers(k) : Running(p)
AllConverge == \A k \in Key, c \in Content : Converging(k, c)

\* A step of any call keeps what the writers of one content agree on.
LEMMA ConvergingEffect ==
  ASSUME TypeInv, NEW p \in Call, Works(p), NEW k \in Key, NEW c \in Content, Converging(k, c)
  PROVE  Converging(k, c)'
  <1> SUFFICES ASSUME Agree(k, c)'
               PROVE  /\ \A i \in BlockID : staged'[k][i] \in {NoContent, c}
                      /\ Writers(k)' # {} => blob'[k] = c \/ \E q \in Writers(k)' : Running(q)'
    BY DEF Converging
  <1>1. Effect(p)
    BY WorksEffect
  <1>2. /\ answer[p] = "running" /\ answer'[p] # "idle"
        /\ \A q \in Call \ {p} : answer'[q] = answer[q]
        /\ UNCHANGED job
    BY <1>1 DEF Effect, Moves, Control, TypeInv, TypeOK, CallsTypeOK, Result
  <1>3. \A q \in Call : Writes(q)' = Writes(q)
    BY <1>2 DEF Writes, Is
  <1>4. Writers(k)' = Writers(k)
    BY <1>2, <1>3 DEF Writers
  <1>5. Agree(k, c)
    BY <1>2, <1>4 DEF Agree, Writers
  <1>6. CASE k \notin Writes(p)
    <2>1. blob'[k] = blob[k]
      BY <1>1, <1>6 DEF Effect, Touches
    <2>2. \A i \in BlockID : staged'[k][i] = staged[k][i]
      BY <1>1, <1>6, WritesWhat DEF Effect, Stages
    <2>3. \A q \in Writers(k) : Running(q) => Running(q)'
      BY <1>2, <1>6 DEF Writers, Running
    <2>4. QED
      BY <1>4, <1>5, <2>1, <2>2, <2>3 DEF Converging
  <1>7. CASE k \in Writes(p)
    <2>1. p \in Writers(k)
      BY <1>2, <1>7 DEF Writers
    <2>2. job[p].content = c /\ answer'[p] \in {"running", "nil"}
      BY <1>2, <1>4, <2>1 DEF Agree
    <2>3. Is(p, {"put"})
      BY <2>2, CallTypes, CallsAssumption DEF Is
    <2>4. k = job[p].key
      BY <1>7, <2>3, WritesWhat
    <2>5. \A i \in BlockID : staged'[k][i] \in {NoContent, c}
      BY <1>1, <1>5, <2>2, <2>4 DEF Effect, Stages, Converging
    <2>6. CASE answer'[p] = "running"
      BY <1>4, <2>1, <2>5, <2>6 DEF Running
    <2>7. CASE answer'[p] = "nil"
      BY <1>5, <2>2, <2>3, <2>4, <2>5, <2>7, PutStores DEF Converging
    <2>8. QED
      BY <2>2, <2>6, <2>7
  <1>8. QED
    BY <1>6, <1>7

\* A call that starts has staged nothing.
LEMMA ConvergingStart ==
  ASSUME TypeInv, NEW p \in Call, Start(p), NEW k \in Key, NEW c \in Content, Converging(k, c)
  PROVE  Converging(k, c)'
  <1> SUFFICES ASSUME Agree(k, c)'
               PROVE  /\ \A i \in BlockID : staged'[k][i] \in {NoContent, c}
                      /\ Writers(k)' # {} => blob'[k] = c \/ \E q \in Writers(k)' : Running(q)'
    BY DEF Converging
  <1>1. /\ answer[p] = "idle" /\ answer'[p] = "running"
        /\ \A q \in Call \ {p} : answer'[q] = answer[q]
        /\ UNCHANGED <<job, blob, staged>>
    BY DEF Start, Begins, server, TypeInv, TypeOK, CallsTypeOK
  <1>2. \A q \in Call : Writes(q)' = Writes(q)
    BY <1>1 DEF Writes, Is
  <1>3. /\ Writers(k) \subseteq Writers(k)'
        /\ \A q \in Writers(k)' : q \in Writers(k) \/ q = p
        /\ p \notin Writers(k)
    BY <1>1, <1>2 DEF Writers
  <1>4. Agree(k, c)
    BY <1>1, <1>3 DEF Agree, Writers
  <1>5. \A q \in Writers(k) : Running(q) => Running(q)'
    BY <1>1, <1>3 DEF Running, Writers
  <1>6. CASE p \in Writers(k)'
    BY <1>1, <1>4, <1>6 DEF Running, Converging
  <1>7. CASE p \notin Writers(k)'
    <2>1. Writers(k)' = Writers(k)
      BY <1>3, <1>7
    <2>2. QED
      BY <1>1, <1>4, <1>5, <2>1 DEF Converging
  <1>8. QED
    BY <1>6, <1>7

\* A kill leaves the server as it is.
LEMMA ConvergingKill ==
  ASSUME TypeInv, Kill, NEW k \in Key, NEW c \in Content, Converging(k, c)
  PROVE  Converging(k, c)'
  <1> SUFFICES ASSUME Agree(k, c)'
               PROVE  /\ \A i \in BlockID : staged'[k][i] \in {NoContent, c}
                      /\ Writers(k)' # {} => blob'[k] = c \/ \E q \in Writers(k)' : Running(q)'
    BY DEF Converging
  <1>1. /\ \A q \in Call : answer'[q] = IF Running(q) THEN "killed" ELSE answer[q]
        /\ UNCHANGED <<job, blob, staged>>
    BY DEF Kill, Killed, server, TypeInv, TypeOK, CallsTypeOK
  <1>2. \A q \in Call : Writes(q)' = Writes(q)
    BY <1>1 DEF Writes, Is
  <1>3. Writers(k)' = Writers(k)
    BY <1>1, <1>2 DEF Writers, Running
  <1>4. \A q \in Writers(k) : ~Running(q) /\ answer'[q] = answer[q]
    BY <1>1, <1>3 DEF Agree, Writers, Running
  <1>5. Agree(k, c)
    BY <1>1, <1>3, <1>4 DEF Agree
  <1>6. QED
    BY <1>1, <1>3, <1>4, <1>5 DEF Converging

\* Initially nobody has written.
LEMMA ConvergeInit == Init => AllConverge
  <1> SUFFICES ASSUME Init, NEW k \in Key, NEW c \in Content PROVE Converging(k, c)
    BY DEF AllConverge
  <1>1. Writers(k) = {}
    BY DEF Writers, Init, CallsInit
  <1>2. \A i \in BlockID : staged[k][i] = NoContent
    BY DEF Init, Nothing
  <1>3. QED
    BY <1>1, <1>2 DEF Converging

\* All steps together.
LEMMA ConvergeStep == TypeInv /\ AllConverge /\ [Next]_vars => AllConverge'
  <1> SUFFICES ASSUME TypeInv, AllConverge, [Next]_vars, NEW k \in Key, NEW c \in Content
               PROVE  Converging(k, c)'
    BY DEF AllConverge
  <1>1. Converging(k, c)
    BY DEF AllConverge
  <1>2. CASE UNCHANGED vars
    BY <1>1, <1>2 DEF vars, calls, fixed, server, local, Converging, Agree, Writers, Writes, Is, Running
  <1>3. QED
    BY <1>1, <1>2, ConvergingEffect, ConvergingStart, ConvergingKill DEF Next

\* Puts of one resource that overlap, as two bundles with the same file make
\* of the app-stash, leave it whole once all of them have succeeded, on every
\* backend and for any number of them, although Azure's share the IDs of
\* their blocks.
THEOREM SamePutsCorrect == Spec => []SamePutsConverge
  <1>1. AllConverge => SamePutsConverge
    <2> SUFFICES ASSUME AllConverge, NEW k \in Key, NEW c \in Content, Writers(k) # {},
                        \A p \in Writers(k) : job[p].content = c /\ answer[p] = "nil"
                 PROVE  blob[k] = c
      BY DEF SamePutsConverge, Writers
    <2>1. Agree(k, c) /\ \A p \in Writers(k) : ~Running(p)
      BY DEF Agree, Running
    <2>2. QED
      BY <2>1 DEF AllConverge, Converging
  <1>2. QED
    BY <1>1, Typed, ConvergeInit, ConvergeStep, PTL DEF Spec

-----------------------------------------------------------------------------
(* A missing bucket is not a missing resource.                              *)

\* What the backends that do not look at the bucket know of it: webdav has
\* none, and alibaba's methods get to the object when the bucket was there.
Confirmed ==
  /\ backend = "webdav" => bucket
  /\ \A p \in Call : backend = "alibaba" /\ pc[p] = "second" => bucket

BucketInv == Confirmed /\ NoBucketIsNotNotFound

\* A backend answers NotFound only where the bucket was seen, or misreports.
LEMMA ConfirmedWorks ==
  ASSUME TypeInv, Confirmed, NEW p \in Call, Works(p)
  PROVE  Confirmed'
  <1>1. Effect(p)
    BY WorksEffect
  <1>2. UNCHANGED fixed /\ \A q \in Call \ {p} : pc'[q] = pc[q]
    BY <1>1 DEF Effect, Moves, Notes, TypeInv, TypeOK
  <1>3. ASSUME backend = "alibaba", pc'[p] = "second" PROVE bucket
    <2>1. Alibaba(p)
      BY <1>3 DEF Works, S3, Gcp, Azure, Openstack, Webdav,
        S3Exists, S3Get, S3Put, S3Copy, S3Delete, S3DeleteDir,
        GcpHandleError, GcpExists, GcpGet, GcpPut, GcpCopy, GcpDelete, GcpDeleteDir,
        AzureHandleError, AzureExists, AzureGet, AzureCreate, AzureBlock, AzureCommit,
        AzureCopy, AzureDelete, AzureDeleteDir,
        OpenstackContainerExists, OpenstackExists, OpenstackGet, OpenstackPut, OpenstackCopy,
        OpenstackDelete, OpenstackDeleteDir,
        WebdavExists, WebdavGet, WebdavPut, WebdavCopy, WebdavDelete, WebdavDeleteDir, In
    <2>2. /\ \A e : Answer(p, e) => pc'[p] = "done"
          /\ \A l : Goto(p, l) => pc'[p] = l
      BY DEF Answer, Goto, TypeInv, TypeOK
    <2>3. ~AlibabaDeleteDir(p)
      BY <1>3, <2>2 DEF AlibabaDeleteDir, Lists, Deletes, NextPage
    <2>4. AlibabaBucketExists(p)
      BY <1>3, <2>1, <2>2, <2>3 DEF Alibaba, AlibabaExists, AlibabaGet, AlibabaPut, AlibabaCopy, AlibabaDelete
    <2>5. QED
      BY <1>3, <2>2, <2>4 DEF AlibabaBucketExists, AskBucket
  <1>4. QED
    BY <1>2, <1>3 DEF Confirmed, fixed

\* A Get that reports a missing resource has found the bucket, or misreports.
LEMMA GetFindsBucket ==
  ASSUME TypeInv, Confirmed, NEW p \in Call, Works(p), Is(p, {"get"}), answer'[p] = "notFound"
  PROVE  bucket \/ p \in misreports'
  <1>1. /\ ~Is(p, {"put"}) /\ ~Is(p, {"stat"}) /\ ~Is(p, {"copy"})
        /\ ~Is(p, {"delete"}) /\ ~Is(p, {"deleteDir"})
    BY DEF Is
  <1>2. CASE S3(p)
    <2>1. S3Get(p)
      BY <1>1, <1>2 DEF S3, S3Exists, S3Put, S3Copy, S3Delete, S3DeleteDir, In
    <2>2. QED
      BY <2>1, Answered, Outcomes DEF S3Get
  <1>3. CASE Gcp(p)
    <2>1. GcpGet(p) \/ GcpHandleError(p)
      BY <1>1, <1>3 DEF Gcp, GcpExists, GcpPut, GcpCopy, GcpDelete, GcpDeleteDir, In
    <2>2. ~GcpGet(p)
      BY Answered, Outcomes DEF GcpGet, GcpAnswers, In, Request
    <2>3. QED
      BY <2>1, <2>2, Answered DEF GcpHandleError, AskBucket
  <1>4. CASE Azure(p)
    <2>1. AzureGet(p) \/ AzureHandleError(p)
      BY <1>1, <1>4 DEF Azure, AzureExists, AzureCreate, AzureBlock, AzureCommit, AzureCopy,
                        AzureDelete, AzureDeleteDir, In
    <2>2. ~AzureGet(p)
      BY Answered, Outcomes DEF AzureGet, In, Request
    <2>3. QED
      BY <2>1, <2>2, Answered DEF AzureHandleError, AskBucket
  <1>5. CASE Openstack(p)
    <2>1. ~OpenstackContainerExists(p)
      BY Answered DEF OpenstackContainerExists, Request
    <2>2. OpenstackGet(p)
      BY <1>1, <1>5, <2>1 DEF Openstack, OpenstackExists, OpenstackPut, OpenstackCopy,
                              OpenstackDelete, OpenstackDeleteDir, In
    <2>3. QED
      BY <2>2, Answered, Outcomes DEF OpenstackGet, Misleads
  <1>6. CASE Alibaba(p)
    <2>1. ~AlibabaBucketExists(p)
      BY Answered DEF AlibabaBucketExists, Request
    <2>2. AlibabaGet(p)
      BY <1>1, <1>6, <2>1 DEF Alibaba, AlibabaExists, AlibabaPut, AlibabaCopy,
                              AlibabaDelete, AlibabaDeleteDir, In
    <2>3. QED
      BY <2>2 DEF AlibabaGet, In, Confirmed
  <1>7. CASE Webdav(p)
    <2>1. backend = "webdav"
      BY <1>7 DEF Webdav, WebdavExists, WebdavGet, WebdavPut, WebdavCopy, WebdavDelete, WebdavDeleteDir, In
    <2>2. QED
      BY <2>1 DEF Confirmed
  <1>8. QED
    BY <1>2, <1>3, <1>4, <1>5, <1>6, <1>7 DEF Works

\* Initially no call has an answer.
LEMMA BucketInit == Init => BucketInv
  BY DEF Init, CallsInit, BucketInv, Confirmed, NoBucketIsNotNotFound

\* All steps together.
LEMMA BucketStep == TypeInv /\ BucketInv /\ [Next]_vars => BucketInv'
  <1> SUFFICES ASSUME TypeInv, BucketInv, [Next]_vars PROVE BucketInv'
    OBVIOUS
  <1>1. ASSUME NEW p \in Call, Works(p) PROVE BucketInv'
    <2>1. Effect(p) /\ Confirmed'
      BY <1>1, WorksEffect, ConfirmedWorks DEF BucketInv
    <2>2. /\ UNCHANGED <<job, fixed>> /\ misreports \subseteq misreports'
          /\ \A q \in Call \ {p} : answer'[q] = answer[q]
      BY <2>1 DEF Effect, Moves, Notes, TypeInv, TypeOK, CallsTypeOK
    <2>3. ASSUME NEW q \in Call, Is(q, {"get"}), answer'[q] = "notFound"
          PROVE  bucket \/ q \in misreports'
      BY <1>1, <2>2, <2>3, GetFindsBucket DEF BucketInv, NoBucketIsNotNotFound
    <2>4. QED
      BY <2>1, <2>2, <2>3 DEF BucketInv, NoBucketIsNotNotFound, Is, fixed
  <1>2. ASSUME NEW p \in Call, Start(p) PROVE BucketInv'
    <2>1. /\ UNCHANGED <<job, fixed, misreports>>
          /\ \A q \in Call : answer'[q] = "notFound" => answer[q] = "notFound"
          /\ \A q \in Call : pc'[q] = "second" => pc[q] = "second"
      BY <1>2 DEF Start, Begins, local, TypeInv, TypeOK, CallsTypeOK
    <2>2. QED
      BY <2>1 DEF BucketInv, NoBucketIsNotNotFound, Confirmed, Is, fixed
  <1>3. CASE Kill
    BY <1>3 DEF Kill, Killed, Running, BucketInv, NoBucketIsNotNotFound, Confirmed, Is, fixed
  <1>4. CASE UNCHANGED vars
    BY <1>4 DEF vars, calls, fixed, local, BucketInv, NoBucketIsNotNotFound, Confirmed, Is
  <1>5. QED
    BY <1>1, <1>2, <1>3, <1>4 DEF Next

\* No backend takes a missing bucket for a missing resource, unless what it was
\* told of the bucket was lost: whoever gets a NotFoundError can trust it.
THEOREM NoBucketCorrect == Spec => []NoBucketIsNotNotFound
  <1>1. BucketInv => NoBucketIsNotNotFound
    BY DEF BucketInv
  <1>2. QED
    BY <1>1, Typed, BucketInit, BucketStep, PTL DEF Spec
-----------------------------------------------------------------------------
(* Every call comes to its end.                                             *)

\* A listing is gone through once, and the blocks of a content are sent once.
Bounds(p) ==
  /\ page[p].marker <= Len(Listing[job[p].key])
  /\ pc[p] \in {"idle", "first"} => sent[p] = 0
  /\ pc[p] = "block" => Is(p, {"put"}) /\ sent[p] <= Blocks[job[p].content]

BoundInv == TypeInv /\ \A p \in Call : Bounds(p)

\* A set of numbers that is not empty has a least one.
LEMMA Least ==
  ASSUME NEW S \in SUBSET Nat, S # {}
  PROVE  \E i \in S : \A j \in S : i <= j
  <1>1. PICK i \in S : \A j \in S : <<j, i>> \notin OpToRel(<, Nat)
    BY WFMin, NatLessThanWellFounded, Zenon
  <1>2. \A j \in S : ~(j < i)
    BY <1>1 DEF OpToRel
  <1>3. QED
    BY <1>2

\* Where a step leads to, with what that does to the place in the listing.
Returned(p) == pc'[p] = "done" /\ UNCHANGED page
Asked(p) == pc[p] = "first" /\ pc'[p] \in {"second", "check"} /\ UNCHANGED <<sent, page>>
Created(p) == /\ pc[p] = "first" /\ Is(p, {"put"})
              /\ pc'[p] = "block" /\ UNCHANGED <<sent, page>>
Staging(p) == /\ pc[p] = "block" /\ sent[p] < Blocks[job[p].content]
              /\ pc'[p] = "block" /\ sent' = [sent EXCEPT ![p] = @ + 1] /\ UNCHANGED page
Opened(p) == /\ pc[p] = "first" /\ Is(p, {"deleteDir"})
             /\ pc'[p] = "list" /\ UNCHANGED <<sent, page>>
Paged(p) == /\ pc[p] = "list" /\ pc'[p] = "remove" /\ UNCHANGED sent
            /\ \E size \in Nat : ListPage(p, size) /\ (Listing[job[p].key] # <<>> => size > 0)
Dropped(p) == /\ pc[p] = "remove" /\ pc'[p] = "remove" /\ UNCHANGED sent
              /\ \E i \in page[p].todo, e \in BOOLEAN :
                   page' = [page EXCEPT ![p] = [page[p] EXCEPT !.todo = @ \ {i}, !.errs = e]]
Turned(p) == /\ pc[p] = "remove" /\ page[p].todo = {} /\ page[p].more
             /\ pc'[p] = "list" /\ UNCHANGED <<sent, page>>

Turns(p) ==
  /\ pc[p] \in Request /\ UNCHANGED job
  /\ \/ Returned(p) \/ Asked(p) \/ Created(p) \/ Staging(p)
     \/ Opened(p) \/ Paged(p) \/ Dropped(p) \/ Turned(p)

LEMMA Going ==
  ASSUME TypeInv, NEW p \in Call
  PROVE  /\ \A l \in Request : Goto(p, l) => pc'[p] = l /\ UNCHANGED job
         /\ \A e : Answer(p, e) => pc'[p] = "done" /\ UNCHANGED job
  BY DEF Goto, Answer, calls, TypeInv, TypeOK

LEMMA PageTurns ==
  ASSUME TypeInv, NEW p \in Call, NEW size \in Nat, Listing[job[p].key] # <<>> => size > 0,
         NEW ignored, Lists(p, size) \/ Deletes(p, ignored) \/ NextPage(p) \/ Deleted(p)
  PROVE  Turns(p)
  <1>1. CASE Lists(p, size)
    BY <1>1, Going DEF Lists, Turns, Returned, Paged, Request
  <1>2. CASE Deletes(p, ignored)
    <2>1. PICK i \in page[p].todo, a \in Ans :
            page' = [page EXCEPT ![p] =
                       [page[p] EXCEPT !.todo = @ \ {i}, !.errs = @ \/ a \notin {"ok"} \cup ignored]]
      BY <1>2 DEF Deletes
    <2>2. \E e \in BOOLEAN : page' = [page EXCEPT ![p] = [page[p] EXCEPT !.todo = @ \ {i}, !.errs = e]]
      <3> DEFINE e == page[p].errs \/ a \notin {"ok"} \cup ignored
      <3>1. e \in BOOLEAN
        BY CallTypes DEF PageOf
      <3>2. page' = [page EXCEPT ![p] = [page[p] EXCEPT !.todo = @ \ {i}, !.errs = e]]
        BY <2>1
      <3> HIDE DEF e
      <3>3. QED
        BY <3>1, <3>2
    <2>3. Dropped(p) /\ UNCHANGED job
      BY <1>2, <2>2 DEF Deletes, Dropped, calls
    <2>4. QED
      BY <2>3 DEF Turns, Dropped, Request
  <1>3. CASE NextPage(p)
    BY <1>3, Going DEF NextPage, Turns, Turned, Request, local
  <1>4. CASE Deleted(p)
    BY <1>4, Going DEF Deleted, Turns, Returned, Request, local
  <1>5. QED
    BY <1>1, <1>2, <1>3, <1>4

LEMMA ListingSize ==
  ASSUME TypeInv, NEW p \in Call
  PROVE  /\ Len(Listing[job[p].key]) \in Nat /\ PageSize \in Nat /\ PageSize > 0
         /\ Listing[job[p].key] # <<>> => Len(Listing[job[p].key]) > 0
  BY CallTypes, RemoteAssumption

LEMMA S3Turns ==
  ASSUME TypeInv, NEW p \in Call, S3(p)
  PROVE  Turns(p)
  <1>1. CASE S3DeleteDir(p)
    BY <1>1, PageTurns, ListingSize DEF S3DeleteDir
  <1>2. CASE S3Exists(p) \/ S3Get(p) \/ S3Put(p) \/ S3Copy(p) \/ S3Delete(p)
    BY <1>2, Going DEF S3Exists, S3Get, S3Put, S3Copy, S3Delete, In, Turns, Returned, Request, local
  <1>3. QED
    BY <1>1, <1>2 DEF S3

LEMMA GcpTurns ==
  ASSUME TypeInv, NEW p \in Call, Gcp(p)
  PROVE  Turns(p)
  <1>1. CASE GcpDeleteDir(p)
    BY <1>1, PageTurns, ListingSize DEF GcpDeleteDir
  <1>2. ASSUME NEW a, GcpAnswers(p, a), pc[p] = "first", UNCHANGED <<sent, page>>
        PROVE  Turns(p)
    BY <1>2, Going DEF GcpAnswers, Turns, Returned, Asked, Request
  <1>3. CASE GcpExists(p) \/ GcpGet(p) \/ GcpCopy(p) \/ GcpDelete(p)
    BY <1>2, <1>3 DEF GcpExists, GcpGet, GcpCopy, GcpDelete, In, local
  <1>4. CASE GcpHandleError(p)
    BY <1>4, Going DEF GcpHandleError, Turns, Returned, Request, local
  <1>5. CASE GcpPut(p)
    BY <1>5, Going DEF GcpPut, In, Turns, Returned, Asked, Request, local
  <1>6. QED
    BY <1>1, <1>3, <1>4, <1>5 DEF Gcp

LEMMA AzureTurns ==
  ASSUME TypeInv, NEW p \in Call, Azure(p)
  PROVE  Turns(p)
  <1>1. CASE AzureDeleteDir(p)
    BY <1>1, PageTurns, ListingSize DEF AzureDeleteDir
  <1>2. CASE AzureHandleError(p) \/ AzureExists(p) \/ AzureCommit(p) \/ AzureCopy(p) \/ AzureDelete(p)
    BY <1>2, Going DEF AzureHandleError, AzureExists, AzureCommit, AzureCopy, AzureDelete,
                       In, Turns, Returned, Request, local
  <1>3. CASE AzureGet(p)
    BY <1>3, Going DEF AzureGet, In, Turns, Returned, Asked, Request
  <1>4. CASE AzureCreate(p)
    BY <1>4, Going DEF AzureCreate, In, Is, Turns, Returned, Created, Request, local
  <1>5. CASE AzureBlock(p)
    BY <1>5, Going DEF AzureBlock, In, Turns, Returned, Staging, Request, calls
  <1>6. QED
    BY <1>1, <1>2, <1>3, <1>4, <1>5 DEF Azure

LEMMA OpenstackTurns ==
  ASSUME TypeInv, NEW p \in Call, Openstack(p)
  PROVE  Turns(p)
  <1>1. CASE OpenstackDeleteDir(p)
    BY <1>1, PageTurns, ListingSize DEF OpenstackDeleteDir
  <1>2. CASE OpenstackContainerExists(p)
    BY <1>2, Going DEF OpenstackContainerExists, Turns, Returned, Asked, Opened, Request, local
  <1>3. CASE \/ OpenstackExists(p) \/ OpenstackGet(p) \/ OpenstackPut(p) \/ OpenstackCopy(p)
             \/ OpenstackDelete(p)
    BY <1>3, Going DEF OpenstackExists, OpenstackGet, OpenstackPut, OpenstackCopy, OpenstackDelete,
                       In, Turns, Returned, Request, local
  <1>4. QED
    BY <1>1, <1>2, <1>3 DEF Openstack

LEMMA AlibabaTurns ==
  ASSUME TypeInv, NEW p \in Call, Alibaba(p)
  PROVE  Turns(p)
  <1>1. CASE AlibabaDeleteDir(p)
    <2>1. CASE Lists(p, PageSize) \/ Deletes(p, {}) \/ NextPage(p)
      BY <2>1, PageTurns, ListingSize
    <2>2. CASE pc[p] = "remove" /\ Answer(p, "nil") /\ UNCHANGED page
      BY <2>2, Going DEF Turns, Returned, Request
    <2>3. QED
      BY <1>1, <2>1, <2>2 DEF AlibabaDeleteDir
  <1>2. CASE AlibabaBucketExists(p)
    BY <1>2, Going DEF AlibabaBucketExists, Turns, Returned, Asked, Request, local
  <1>3. CASE AlibabaExists(p) \/ AlibabaGet(p) \/ AlibabaPut(p) \/ AlibabaCopy(p) \/ AlibabaDelete(p)
    BY <1>3, Going DEF AlibabaExists, AlibabaGet, AlibabaPut, AlibabaCopy, AlibabaDelete,
                       In, Turns, Returned, Request, local
  <1>4. QED
    BY <1>1, <1>2, <1>3 DEF Alibaba

LEMMA WebdavTurns ==
  ASSUME TypeInv, NEW p \in Call, Webdav(p)
  PROVE  Turns(p)
  <1>1. CASE WebdavExists(p) \/ WebdavPut(p) \/ WebdavDelete(p) \/ WebdavDeleteDir(p)
    BY <1>1, Going DEF WebdavExists, WebdavPut, WebdavDelete, WebdavDeleteDir,
                       In, Turns, Returned, Request, local
  <1>2. CASE WebdavGet(p)
    BY <1>2, Going DEF WebdavGet, In, Turns, Returned, Asked, Request
  <1>3. CASE WebdavCopy(p)
    BY <1>3, Going DEF WebdavCopy, In, Turns, Returned, Asked, Request, local
  <1>4. QED
    BY <1>1, <1>2, <1>3 DEF Webdav

\* A step of a call on any backend.
LEMMA WorksTurns ==
  ASSUME TypeInv, NEW p \in Call, Works(p)
  PROVE  Turns(p)
  BY S3Turns, GcpTurns, AzureTurns, OpenstackTurns, AlibabaTurns, WebdavTurns DEF Works

\* What Left counts.
Ahead(p) == Len(Listing[job[p].key]) - page[p].marker
Page(p) == Cardinality(page[p].todo)

LEMMA Counts ==
  ASSUME BoundInv, NEW p \in Call
  PROVE  /\ Ahead(p) \in Nat
         /\ IsFiniteSet(page[p].todo) /\ Page(p) \in Nat
         /\ page[p].marker \in Nat /\ page[p].more \in BOOLEAN
         /\ Is(p, {"put"}) => Blocks[job[p].content] \in Nat \ {0}
         /\ sent[p] \in Nat
  <1>1. page[p] \in PageOf(p) /\ Listing[job[p].key] \in Seq(Key)
    BY CallTypes DEF BoundInv
  <1>2. page[p].marker \in Nat /\ page[p].more \in BOOLEAN /\ Len(Listing[job[p].key]) \in Nat
    BY <1>1 DEF PageOf
  <1>3. Ahead(p) \in Nat
    BY <1>2 DEF Ahead, BoundInv, Bounds
  <1>4. page[p].todo \in SUBSET (1..Len(Listing[job[p].key]))
    BY <1>1 DEF PageOf
  <1>5. IsFiniteSet(1..Len(Listing[job[p].key]))
    BY <1>2, FS_Interval
  <1>6. IsFiniteSet(page[p].todo)
    BY <1>4, <1>5, FS_Subset
  <1>7. Page(p) \in Nat
    BY <1>6, FS_CardinalityType DEF Page
  <1>8. sent[p] \in Nat
    BY RemoteAssumption DEF BoundInv, TypeInv, TypeOK, BlockID
  <1>9. QED
    BY <1>2, <1>3, <1>6, <1>7, <1>8, CallTypes DEF BoundInv

LEMMA LeftIs ==
  ASSUME BoundInv, NEW p \in Call
  PROVE  /\ pc[p] = "first" /\ Is(p, {"put"}) => Left(p) = Blocks[job[p].content] + 2
         /\ pc[p] = "first" /\ Is(p, {"deleteDir"}) => Left(p) = 3 * Ahead(p) + 4
         /\ pc[p] = "first" /\ ~Is(p, {"put"}) /\ ~Is(p, {"deleteDir"}) => Left(p) = 2
         /\ pc[p] \in {"second", "check"} => Left(p) = 1
         /\ pc[p] = "block" => Left(p) = Blocks[job[p].content] - sent[p] + 1
         /\ pc[p] = "list" => Left(p) = 3 * Ahead(p) + 3
         /\ pc[p] = "remove" /\ page[p].more => Left(p) = Page(p) + 3 * Ahead(p) + 4
         /\ pc[p] = "remove" /\ ~page[p].more => Left(p) = Page(p) + 1
         /\ pc[p] \in {"idle", "done"} => Left(p) = 0
  <1>1. Is(p, {"put"}) => ~Is(p, {"deleteDir"})
    BY DEF Is
  <1>2. CASE pc[p] = "first"
    BY <1>1, <1>2 DEF Left, Ahead
  <1>3. CASE pc[p] \in {"second", "check"}
    BY <1>3 DEF Left
  <1>4. CASE pc[p] \in {"block", "list"}
    BY <1>4 DEF Left, Ahead
  <1>5. CASE pc[p] = "remove"
    <2>1. page[p].more => Left(p) = Page(p) + 3 * Ahead(p) + 4
      <3>1. page[p].more => Left(p) = Page(p) + (3 * Ahead(p) + 4)
        BY <1>5 DEF Left, Ahead, Page
      <3>2. QED
        BY <3>1, Counts
    <2>2. ~page[p].more => Left(p) = Page(p) + 1
      BY <1>5 DEF Left, Page
    <2>3. QED
      BY <1>5, <2>1, <2>2
  <1>6. CASE pc[p] \in {"idle", "done"}
    BY <1>6 DEF Left
  <1>7. QED
    BY <1>2, <1>3, <1>4, <1>5, <1>6

\* A running call has a step left.
LEMMA LeftTyped ==
  ASSUME BoundInv, NEW p \in Call
  PROVE  /\ Left(p) \in Nat
         /\ pc[p] \in Request => Left(p) > 0
  <1>1. pc[p] \in {"idle", "first", "second", "check", "block", "list", "remove", "done"}
    BY DEF BoundInv, TypeInv, TypeOK
  <1>2. pc[p] = "block" => Is(p, {"put"}) /\ sent[p] <= Blocks[job[p].content]
    BY DEF BoundInv, Bounds
  <1>3. QED
    BY <1>1, <1>2, Counts, LeftIs DEF Request

\* A page is a part of what is ahead; unless it is the last one, it is not empty.
LEMMA PageIsAhead ==
  ASSUME BoundInv, NEW p \in Call, NEW size \in Nat, ListPage(p, size),
         Listing[job[p].key] # <<>> => size > 0, UNCHANGED job
  PROVE  /\ page'[p].marker \in Nat /\ page'[p].marker <= Len(Listing[job[p].key])
         /\ page[p].marker <= page'[p].marker
         /\ Page(p)' \in Nat /\ Page(p)' <= page'[p].marker - page[p].marker
         /\ page'[p].more \in BOOLEAN
         /\ page'[p].more => page[p].marker < page'[p].marker
  <1> DEFINE L == Listing[job[p].key]
             m == page[p].marker
             names == {i \in DOMAIN L : i > m /\ Has(L[i])}
             todo == {i \in names : Cardinality({j \in names : j <= i}) <= size}
  <1>1. L \in Seq(Key) /\ Len(L) \in Nat /\ m \in Nat /\ m <= Len(L)
    BY CallTypes DEF BoundInv, Bounds, PageOf
  <1>2. PICK last \in todo \cup {m} :
          /\ \A i \in todo : i <= last
          /\ page' = [page EXCEPT ![p] = [@ EXCEPT !.todo = todo, !.more = names # todo, !.marker = last]]
    BY DEF ListPage
  <1>3. /\ page'[p].todo = todo /\ page'[p].marker = last
        /\ page'[p].more = (names # todo)
    <2>1. page[p] \in PageOf(p) /\ page \in [Call -> Listed]
      BY CallTypes DEF BoundInv, TypeInv, TypeOK
    <2> HIDE DEF todo, names
    <2>2. page'[p] = [page[p] EXCEPT !.todo = todo, !.more = names # todo, !.marker = last]
      BY <1>2, <2>1
    <2>3. QED
      BY <2>1, <2>2 DEF PageOf
  <1>4. names \subseteq (m + 1)..Len(L) /\ todo \subseteq names
    BY <1>1
  <1>5. last \in Nat /\ m <= last /\ last <= Len(L)
    <2> HIDE DEF todo, names, L, m
    <2>1. last \in (m + 1)..Len(L) \/ last = m
      BY <1>2, <1>4
    <2>2. QED
      BY <1>1, <2>1
  <1>6. todo \in SUBSET ((m + 1)..last)
    <2>1. todo \subseteq (m + 1)..Len(L)
      BY <1>4
    <2> HIDE DEF todo
    <2>2. QED
      BY <1>1, <1>2, <1>5, <2>1
  <1>7. IsFiniteSet((m + 1)..last) /\ Cardinality((m + 1)..last) = last - m
    <2>1. m + 1 \in Int /\ last \in Int
      BY <1>1, <1>5
    <2>2. /\ IsFiniteSet((m + 1)..last)
          /\ Cardinality((m + 1)..last) = IF m + 1 > last THEN 0 ELSE last - (m + 1) + 1
      BY <2>1, FS_Interval
    <2>3. QED
      BY <1>1, <1>5, <2>2
  <1>8. Cardinality(todo) \in Nat /\ Cardinality(todo) <= last - m
    <2>1. IsFiniteSet(todo) /\ Cardinality(todo) <= Cardinality((m + 1)..last)
      BY <1>6, <1>7, FS_Subset
    <2>2. QED
      BY <1>7, <2>1, FS_CardinalityType
  <1>9. ASSUME names # todo PROVE m < last
    <2>1. names # {} /\ L # <<>> /\ names \in SUBSET Nat
      <3> HIDE DEF todo, names, L, m
      <3>1. names # {}
        BY <1>4, <1>9
      <3>2. \A j \in (m + 1)..Len(L) : j \in Nat /\ Len(L) > 0
        BY <1>1
      <3>3. names \in SUBSET Nat /\ Len(L) > 0
        BY <1>4, <3>1, <3>2
      <3>4. QED
        BY <3>1, <3>3
    <2>2. PICK i \in names : \A j \in names : i <= j
      BY <2>1, Least
    <2>3. {j \in names : j <= i} = {i}
      <3> HIDE DEF names, todo, L, m
      <3>1. \A j \in names : j <= i => j = i
        BY <2>1, <2>2
      <3>2. \A j \in names : j = i => j <= i
        BY <2>1
      <3>3. QED
        BY <3>1, <3>2
    <2>4. Cardinality({j \in names : j <= i}) = 1
      BY <2>3, FS_Singleton
    <2>5. size > 0
      BY <2>1
    <2>6. i \in todo
      <3> HIDE DEF names
      <3>1. QED
        BY <2>2, <2>4, <2>5
    <2>7. m < i /\ i <= last
      BY <1>2, <1>4, <2>6, <1>1
    <2>8. QED
      BY <1>1, <1>4, <1>5, <2>2, <2>7
  <1>10. Page(p)' = Cardinality(todo)
    BY <1>3 DEF Page
  <1> HIDE DEF todo, names, L, m
  <1>11. QED
    BY <1>3, <1>5, <1>8, <1>9, <1>10 DEF L, m

\* With every step the call takes there is less left.
LEMMA TurnsDown ==
  ASSUME BoundInv, TypeInv', NEW p \in Call, Turns(p)
  PROVE  Bounds(p)' /\ Left(p)' \in 0..(Left(p) - 1)
  <1>1. UNCHANGED job /\ pc[p] \in Request
    BY DEF Turns
  <1>2. Left(p) \in Nat /\ Left(p) > 0 /\ Bounds(p)
    BY <1>1, LeftTyped DEF BoundInv
  <1>3. CASE Returned(p)
    <2>1. Left(p)' = 0
      BY <1>3 DEF Returned, Left
    <2>2. Bounds(p)'
      BY <1>1, <1>2, <1>3 DEF Returned, Bounds
    <2>3. QED
      BY <1>2, <2>1, <2>2
  <1>4. CASE Asked(p)
    <2>1. Left(p)' = 1
      BY <1>4 DEF Asked, Left
    <2>2. Bounds(p)'
      BY <1>1, <1>2, <1>4 DEF Asked, Bounds
    <2>3. Left(p) >= 2
      BY <1>4, Counts, LeftIs DEF Asked
    <2>4. QED
      BY <1>2, <2>1, <2>2, <2>3
  <1>5. CASE Created(p)
    <2>1. sent[p] = 0 /\ Blocks[job[p].content] \in Nat \ {0}
      BY <1>2, <1>5, Counts DEF Created, Bounds
    <2>2. Left(p)' = Blocks[job[p].content] - sent[p] + 1
      BY <1>1, <1>5 DEF Created, Left
    <2>3. Bounds(p)'
      BY <1>1, <1>2, <1>5, <2>1 DEF Created, Bounds, Is
    <2>4. Left(p) = Blocks[job[p].content] + 2
      BY <1>5, LeftIs DEF Created
    <2>5. QED
      BY <2>1, <2>2, <2>3, <2>4
  <1>6. CASE Staging(p)
    <2>1. Blocks[job[p].content] \in Nat \ {0} /\ sent[p] \in Nat /\ sent'[p] = sent[p] + 1
      BY <1>2, <1>6, Counts DEF Staging, Bounds, BoundInv, TypeInv, TypeOK
    <2>2. Left(p)' = Blocks[job[p].content] - sent'[p] + 1
      BY <1>1, <1>6 DEF Staging, Left
    <2>3. Bounds(p)'
      BY <1>1, <1>2, <1>6, <2>1 DEF Staging, Bounds, Is
    <2>4. Left(p) = Blocks[job[p].content] - sent[p] + 1
      BY <1>6, LeftIs DEF Staging
    <2>5. QED
      BY <1>6, <2>1, <2>2, <2>3, <2>4 DEF Staging
  <1>7. CASE Opened(p)
    <2>1. Left(p)' = 3 * Ahead(p) + 3
      BY <1>1, <1>7 DEF Opened, Left, Ahead
    <2>2. Left(p) = 3 * Ahead(p) + 4
      BY <1>7, LeftIs DEF Opened, Is
    <2>3. Bounds(p)'
      BY <1>1, <1>2, <1>7 DEF Opened, Bounds
    <2>4. QED
      BY <2>1, <2>2, <2>3, Counts
  <1>8. CASE Paged(p)
    <2> DEFINE last == page'[p].marker
               all == Len(Listing[job[p].key])
    <2>1. PICK size \in Nat : ListPage(p, size) /\ (Listing[job[p].key] # <<>> => size > 0)
      BY <1>8 DEF Paged
    <2>2. /\ last \in Nat /\ last <= all /\ page[p].marker <= last
          /\ Page(p)' \in Nat /\ Page(p)' <= last - page[p].marker
          /\ page'[p].more \in BOOLEAN
          /\ page'[p].more => page[p].marker < last
      BY <1>1, <2>1, PageIsAhead
    <2>3. Bounds(p)'
      BY <1>1, <1>8, <2>2 DEF Paged, Bounds
    <2>4. Left(p) = 3 * Ahead(p) + 3 /\ Ahead(p) = all - page[p].marker
      BY <1>8, LeftIs DEF Paged, Ahead
    <2>5. /\ page'[p].more => Left(p)' = Page(p)' + (3 * (all - last) + 4)
          /\ ~page'[p].more => Left(p)' = Page(p)' + 1
      BY <1>1, <1>8, <2>2 DEF Paged, Left, Page
    <2>6. all \in Nat /\ page[p].marker \in Nat
      BY CallTypes, Counts DEF BoundInv
    <2> HIDE DEF last, all
    <2>7. QED
      BY <2>2, <2>3, <2>4, <2>5, <2>6
  <1>9. CASE Dropped(p)
    <2>1. PICK i \in page[p].todo, e \in BOOLEAN :
            page' = [page EXCEPT ![p] = [page[p] EXCEPT !.todo = @ \ {i}, !.errs = e]]
      BY <1>9 DEF Dropped
    <2>2. /\ page'[p].todo = page[p].todo \ {i}
          /\ page'[p].marker = page[p].marker /\ page'[p].more = page[p].more
      BY <2>1, CallTypes DEF BoundInv, TypeInv, TypeOK, PageOf
    <2>3. Page(p)' = Page(p) - 1 /\ Page(p) \in Nat /\ Page(p)' \in Nat
      <3>1. IsFiniteSet(page[p].todo) /\ Page(p) \in Nat
        BY Counts
      <3>2. /\ IsFiniteSet(page[p].todo \ {i})
            /\ Cardinality(page[p].todo \ {i}) = Cardinality(page[p].todo) - 1
        BY <3>1, FS_RemoveElement
      <3>3. QED
        BY <2>2, <3>1, <3>2, FS_CardinalityType DEF Page
    <2>4. Bounds(p)'
      BY <1>1, <1>2, <1>9, <2>2 DEF Dropped, Bounds
    <2>5. /\ page[p].more => Left(p)' = Page(p)' + (3 * Ahead(p) + 4)
          /\ ~page[p].more => Left(p)' = Page(p)' + 1
      BY <1>1, <1>9, <2>2 DEF Dropped, Left, Page, Ahead
    <2>6. /\ page[p].more => Left(p) = Page(p) + 3 * Ahead(p) + 4
          /\ ~page[p].more => Left(p) = Page(p) + 1
      BY <1>9, LeftIs DEF Dropped
    <2>7. QED
      BY <2>3, <2>4, <2>5, <2>6, Counts
  <1>10. CASE Turned(p)
    <2>1. Left(p)' = 3 * Ahead(p) + 3
      BY <1>1, <1>10 DEF Turned, Left, Ahead
    <2>2. Left(p) = Page(p) + 3 * Ahead(p) + 4
      BY <1>10, LeftIs DEF Turned
    <2>3. Bounds(p)'
      BY <1>1, <1>2, <1>10 DEF Turned, Bounds
    <2>4. Page(p) \in Nat /\ Ahead(p) \in Nat
      BY Counts
    <2>5. QED
      BY <2>1, <2>2, <2>3, <2>4
  <1>11. QED
    BY <1>3, <1>4, <1>5, <1>6, <1>7, <1>8, <1>9, <1>10 DEF Turns

\* A call whose own state a step leaves alone has as much left as before.
LEMMA LeftStays ==
  ASSUME NEW p \in Call, Bounds(p), UNCHANGED <<job, pc[p], sent[p], page[p]>>
  PROVE  Bounds(p)' /\ Left(p)' = Left(p)
  <1>1. Bounds(p)'
    BY DEF Bounds, Is
  <1>2. Left(p)' = Left(p)
    BY DEF Left, Is
  <1>3. QED
    BY <1>1, <1>2

\* What a step does to the bounds, and to the steps left.
Fewer(p) == Running(p) => Left(p)' \in 0..(Left(p) - (IF Works(p) THEN 1 ELSE 0))

LEMMA WorksDown ==
  ASSUME BoundInv, TypeInv', NEW p \in Call, Works(p), NEW q \in Call
  PROVE  Bounds(q)' /\ Fewer(q)
  <1>1. Effect(p)
    BY WorksEffect DEF BoundInv
  <1>2. Left(q) \in Nat /\ Bounds(q)
    BY LeftTyped DEF BoundInv
  <1>3. CASE Works(q)
    <2>1. Bounds(q)' /\ Left(q)' \in 0..(Left(q) - 1)
      BY <1>3, WorksTurns, TurnsDown DEF BoundInv
    <2>2. QED
      BY <1>3, <2>1 DEF Fewer
  <1>4. CASE ~Works(q)
    <2>1. q # p
      BY <1>4
    <2>2. UNCHANGED <<job, pc[q], sent[q], page[q]>>
      <3>1. pc \in [Call -> {"idle", "done"} \cup Request] /\ page \in [Call -> Listed]
        BY CallTypes DEF BoundInv, TypeInv, TypeOK
      <3>2. UNCHANGED <<job, pc[q]>>
        BY <1>1, <2>1, <3>1 DEF Effect, Moves
      <3>3. UNCHANGED <<sent[q], page[q]>>
        BY <1>1, <2>1, <3>1 DEF Effect, Notes
      <3>4. QED
        BY <3>2, <3>3
    <2>3. Bounds(q)' /\ Left(q)' = Left(q)
      BY <1>2, <2>2, LeftStays
    <2>4. QED
      BY <1>2, <1>4, <2>3 DEF Fewer
  <1>5. QED
    BY <1>3, <1>4

\* Initially nothing is listed and nothing sent.
LEMMA BoundInit == Init => BoundInv
  <1> SUFFICES ASSUME Init PROVE BoundInv
    OBVIOUS
  <1>1. TypeInv
    BY TypeInit
  <1>2. ASSUME NEW p \in Call PROVE Bounds(p)
    <2>1. Len(Listing[job[p].key]) \in Nat
      BY <1>1, CallTypes
    <2>2. page[p].marker = 0 /\ sent[p] = 0 /\ pc[p] = "idle"
      BY DEF Init
    <2>3. QED
      BY <2>1, <2>2 DEF Bounds
  <1>3. QED
    BY <1>1, <1>2 DEF BoundInv

\* All steps together.
LEMMA BoundStep == BoundInv /\ [Next]_vars => BoundInv' /\ \A p \in Call : Fewer(p)
  <1> SUFFICES ASSUME BoundInv, [Next]_vars PROVE BoundInv' /\ \A p \in Call : Fewer(p)
    OBVIOUS
  <1>1. TypeInv'
    BY TypeStep DEF BoundInv
  <1> SUFFICES ASSUME NEW q \in Call PROVE Bounds(q)' /\ Fewer(q)
    BY <1>1 DEF BoundInv
  <1>2. Left(q) \in Nat /\ Bounds(q)
    BY LeftTyped DEF BoundInv
  <1>3. ASSUME NEW p \in Call, Works(p) PROVE Bounds(q)' /\ Fewer(q)
    BY <1>1, <1>3, WorksDown
  <1>4. ASSUME ~Works(q), UNCHANGED <<job, pc[q], sent[q], page[q]>> PROVE Bounds(q)' /\ Fewer(q)
    <2>1. Bounds(q)' /\ Left(q)' = Left(q)
      BY <1>2, <1>4, LeftStays
    <2>2. QED
      BY <1>2, <1>4, <2>1 DEF Fewer
  <1>5. ASSUME NEW p \in Call, Start(p), ~Works(q) PROVE Bounds(q)' /\ Fewer(q)
    <2>1. /\ UNCHANGED <<job, sent, page>> /\ answer[p] = "idle"
          /\ \E l \in {"first", "list"} : pc' = [pc EXCEPT ![p] = l]
      BY <1>5 DEF Start, Begins, local
    <2>2. CASE q = p
      <3>1. ~Running(q) /\ sent[q] = 0
        BY <1>2, <2>1, <2>2 DEF Running, Bounds, BoundInv, TypeInv, Control
      <3>2. pc'[q] \in {"first", "list"}
        BY <2>1, <2>2 DEF BoundInv, TypeInv, TypeOK
      <3>3. QED
        BY <1>2, <2>1, <3>1, <3>2 DEF Fewer, Bounds
    <2>3. CASE q # p
      BY <1>4, <1>5, <2>1, <2>3 DEF BoundInv, TypeInv, TypeOK
    <2>4. QED
      BY <2>2, <2>3
  <1>6. CASE Kill /\ ~Works(q)
    <2>1. /\ UNCHANGED <<job, sent, page>>
          /\ pc'[q] = IF Running(q) THEN "done" ELSE pc[q]
      BY <1>6 DEF Kill, Killed
    <2>2. CASE Running(q)
      <3>1. Left(q)' = 0
        BY <2>1, <2>2 DEF Left
      <3>2. Bounds(q)'
        BY <1>2, <2>1, <2>2 DEF Bounds
      <3>3. QED
        BY <1>2, <1>6, <3>1, <3>2 DEF Fewer
    <2>3. CASE ~Running(q)
      BY <1>4, <1>6, <2>1, <2>3
    <2>4. QED
      BY <2>2, <2>3
  <1>7. CASE UNCHANGED vars /\ ~Works(q)
    BY <1>4, <1>7 DEF vars, calls, local
  <1>8. QED
    BY <1>3, <1>5, <1>6, <1>7 DEF Next

\* A call takes no more steps than are left when it starts, and takes them
\* whatever the server answers and whatever the others do: a DeleteDir cannot
\* be kept busy by resources that are stored into its directory.
THEOREM StepsBounded == Spec => StepsAreBounded
  <1>1. BoundInv /\ [Next]_vars => BoundInv'
    BY BoundStep
  <1>2. BoundInv /\ [Next]_vars =>
          [\A p \in Call : Running(p) => Left(p)' \in 0..(Left(p) - (IF Works(p) THEN 1 ELSE 0))]_vars
    BY BoundStep DEF Fewer
  <1>3. QED
    BY <1>1, <1>2, BoundInit, PTL DEF Spec, StepsAreBounded
=============================================================================
