--------------------------- MODULE RemoteBlobstore --------------------------
(***************************************************************************)
(* The backends that keep resources on a server (blobstores/s3, gcp,       *)
(* azure, openstack, alibaba and webdav).  A step is one request of a      *)
(* method, with its answer: "ok", "missing" for what is not there, or      *)
(* "failed" for any other answer and for none, in which case the request   *)
(* may have taken effect all the same.  The servers are external; they     *)
(* handle a request at once.  Requests of different calls interleave, and  *)
(* the process can be killed between any two.                              *)
(***************************************************************************)
EXTENDS Calls, Naturals, Sequences, FiniteSets

CONSTANTS
  Backends, \* the backends that may be configured
  Files,    \* the resources that may be stored when it starts
  Blocks,   \* Blocks[c]: the blocks Azure's Put cuts content c into
  Listing,  \* Listing[k]: the keys below k, in the order servers list them
  PageSize, \* the keys a server lists at a time
  MaxKills  \* bounds how often the process is killed

AllBackends == {"s3", "gcp", "azure", "openstack", "alibaba", "webdav"}

ASSUME RemoteAssumption ==
  /\ Backends \subseteq AllBackends
  /\ Files \subseteq [Key -> Content \cup {Absent}]
  /\ Blocks \in [Content -> Nat \ {0}]
  /\ Listing \in [Key -> Seq(Key)]
  /\ \A k \in Key : {Listing[k][i] : i \in DOMAIN Listing[k]} = Under[k]
  /\ PageSize \in Nat \ {0}
  /\ MaxKills \in Nat

VARIABLES
  backend,    \* the backend the service is configured with
  bucket,     \* its bucket (or container) exists
  blob,       \* blob[k]: what the server has under k
  staged,     \* staged[k]: the uncommitted blocks Azure has for k, by their IDs
  pc,         \* pc[p]: the next request of p
  got,        \* got[p]: the resource a Get has returned
  sent,       \* sent[p]: the blocks p has put
  page,       \* page[p]: where p is in a listing
  misreports, \* the calls whose answer is not what happened
  kills

server == <<blob, staged>>
fixed == <<backend, bucket>>
local == <<got, sent, page, misreports, kills>>
vars == <<calls, fixed, server, pc, local>>

BlockID == UNION {1..Blocks[c] : c \in Content}
Nothing == [i \in BlockID |-> NoContent]
Listed == [todo : SUBSET Nat, marker : Nat, more : BOOLEAN, errs : BOOLEAN]

TypeOK ==
  /\ CallsTypeOK
  /\ backend \in Backends
  /\ bucket \in BOOLEAN
  /\ blob \in [Key -> Stored]
  /\ staged \in [Key -> [BlockID -> Content \cup {NoContent}]]
  /\ pc \in [Call -> {"idle", "first", "second", "check", "block", "list", "remove", "done"}]
  /\ got \in [Call -> Stored]
  /\ sent \in [Call -> BlockID \cup {0}]
  /\ page \in [Call -> Listed]
  /\ misreports \subseteq Call
  /\ kills \in 0..MaxKills

Init ==
  /\ CallsInit
  /\ backend \in Backends
  /\ bucket \in (IF backend = "webdav" THEN {TRUE} ELSE BOOLEAN)
  /\ blob \in (IF bucket THEN Files ELSE {[k \in Key |-> Absent]})
  /\ staged = [k \in Key |-> Nothing]
  /\ pc = [p \in Call |-> "idle"]
  /\ got = [p \in Call |-> Absent]
  /\ sent = [p \in Call |-> 0]
  /\ page = [p \in Call |-> [todo |-> {}, marker |-> 0, more |-> FALSE, errs |-> FALSE]]
  /\ misreports = {}
  /\ kills = 0

-----------------------------------------------------------------------------
(* Requests to the server and their answers a.                              *)

Ans == {"ok", "missing", "failed"}

Has(k) == blob[k] # Absent

Ask(k, a) ==
  /\ a = "ok" => Has(k)
  /\ a = "missing" => ~Has(k)
  /\ UNCHANGED server

AskBucket(a) ==
  /\ a = "ok" => bucket
  /\ a = "missing" => ~bucket
  /\ UNCHANGED server

\* A write is visible as a whole or not at all.
Store(k, v, a) ==
  /\ \/ a # "missing" /\ bucket /\ blob' = [blob EXCEPT ![k] = v]
     \/ a = "failed" /\ UNCHANGED blob
  /\ UNCHANGED staged

StoreCopy(src, k, a) ==
  /\ \/ a # "missing" /\ Has(src) /\ blob' = [blob EXCEPT ![k] = blob[src]]
     \/ a = "missing" /\ ~Has(src) /\ UNCHANGED blob
     \/ a = "failed" /\ UNCHANGED blob
  /\ UNCHANGED staged

\* Some servers acknowledge the deletion of nothing, as S3 does.
Remove(k, a) ==
  /\ \/ a # "missing" /\ bucket /\ blob' = [blob EXCEPT ![k] = Absent]
     \/ a = "missing" /\ ~Has(k) /\ UNCHANGED blob
     \/ a = "failed" /\ UNCHANGED blob
  /\ UNCHANGED staged

-----------------------------------------------------------------------------
(* A method: which request is next, and what an answer leads to.            *)

In(p, b, kind, l) == backend = b /\ Is(p, {kind}) /\ pc[p] = l

Goto(p, l) == pc' = [pc EXCEPT ![p] = l] /\ UNCHANGED calls
Answer(p, e) ==
  /\ pc' = [pc EXCEPT ![p] = "done"]
  /\ answer' = [answer EXCEPT ![p] = e]
  /\ UNCHANGED <<job, contended>>

Outcome(a) == CASE a = "ok"      -> "nil"
               [] a = "missing" -> "notFound"
               [] a = "failed"  -> "error"

\* What a Get that is answered with a returns.
Receives(p, a) == got' = IF a = "ok" THEN [got EXCEPT ![p] = blob[job[p].key]] ELSE got

\* The answer of p does not say what happened, in one of the ways below.
Misleads(p, wrong) == misreports' = IF wrong THEN misreports \cup {p} ELSE misreports

Start(p) ==
  /\ Begins(p)
  /\ pc' = [pc EXCEPT ![p] =
       IF Is(p, {"deleteDir"}) /\ backend \in {"s3", "gcp", "azure", "alibaba"} THEN "list" ELSE "first"]
  /\ UNCHANGED <<fixed, server, local>>

-----------------------------------------------------------------------------
(* DeleteDir of the object stores: keys are listed a page at a time and     *)
(* deleted one by one; errs says that a deletion failed.                    *)

\* Mutated form: every page is asked for with an empty marker.
ListFirstPage(p, size) ==
  LET names == {i \in DOMAIN Listing[job[p].key] : Has(Listing[job[p].key][i])}
      todo  == {i \in names : Cardinality({j \in names : j <= i}) <= size}
  IN page' = [page EXCEPT ![p] = [@ EXCEPT !.todo = todo, !.more = names # todo, !.marker = 1]]

\* The server lists the keys it has, from the marker on.
ListPage(p, size) ==
  LET names == {i \in DOMAIN Listing[job[p].key] :
                  i > page[p].marker /\ Has(Listing[job[p].key][i])}
      todo  == {i \in names : Cardinality({j \in names : j <= i}) <= size}
  IN \E last \in todo \cup {page[p].marker} :
       /\ \A i \in todo : i <= last
       /\ page' = [page EXCEPT ![p] =
            [@ EXCEPT !.todo = todo, !.more = names # todo, !.marker = last]]

\* A page that cannot be listed ends the method.
Lists(p, size) ==
  /\ pc[p] = "list"
  /\ UNCHANGED <<server, fixed, got, sent, misreports, kills>>
  /\ \/ bucket /\ ListPage(p, size) /\ Goto(p, "remove")
     \/ UNCHANGED page /\ Answer(p, "error")

\* Deletes the next key of the page; what is missing is no error if it is ignored.
Deletes(p, ignored) ==
  /\ pc[p] = "remove"
  /\ \E i \in page[p].todo, a \in Ans :
       /\ \A j \in page[p].todo : i <= j
       /\ Remove(Listing[job[p].key][i], a)
       /\ page' = [page EXCEPT ![p] =
            [page[p] EXCEPT !.todo = @ \ {i}, !.errs = @ \/ a \notin {"ok"} \cup ignored]]
  /\ UNCHANGED <<calls, pc, fixed, got, sent, misreports, kills>>

\* Mutated form: NextMarker is not looked at.
NextPageAlways(p) ==
  /\ pc[p] = "remove"
  /\ page[p].todo = {}
  /\ Goto(p, "list")
  /\ UNCHANGED <<server, fixed, local>>

NextPage(p) ==
  /\ pc[p] = "remove"
  /\ page[p].todo = {} /\ page[p].more
  /\ Goto(p, "list")
  /\ UNCHANGED <<server, fixed, local>>

\* Mutated form: the method does not go on to the next page.
DeletedOnePage(p) ==
  /\ pc[p] = "remove"
  /\ page[p].todo = {}
  /\ Answer(p, IF page[p].errs THEN "error" ELSE "nil")
  /\ UNCHANGED <<server, fixed, local>>

Deleted(p) ==
  /\ pc[p] = "remove"
  /\ page[p].todo = {} /\ ~page[p].more
  /\ Answer(p, IF page[p].errs THEN "error" ELSE "nil")
  /\ UNCHANGED <<server, fixed, local>>

-----------------------------------------------------------------------------
(* s3: the code of an error tells a missing key from a missing bucket,      *)
(* except in the answer to HEAD, which has no body.                         *)

S3Exists(p) ==
  /\ In(p, "s3", "stat", "first")
  /\ \E a \in Ans : Ask(job[p].key, a) /\ Answer(p, Outcome(a))
  /\ UNCHANGED <<fixed, local>>

S3Get(p) ==
  /\ In(p, "s3", "get", "first")
  /\ \E a \in Ans : /\ Ask(job[p].key, a) /\ (a = "missing" => bucket)
                    /\ Answer(p, Outcome(a)) /\ Receives(p, a)
  /\ UNCHANGED <<fixed, sent, page, misreports, kills>>

S3Put(p) ==
  /\ In(p, "s3", "put", "first")
  /\ \E a \in Ans : Store(job[p].key, job[p].content, a) /\ Answer(p, Outcome(a))
  /\ UNCHANGED <<fixed, local>>

S3Copy(p) ==
  /\ In(p, "s3", "copy", "first")
  /\ \E a \in Ans : /\ StoreCopy(job[p].source, job[p].key, a) /\ (a = "missing" => bucket)
                    /\ Answer(p, Outcome(a))
  /\ UNCHANGED <<fixed, local>>

S3Delete(p) ==
  /\ In(p, "s3", "delete", "first")
  /\ \E a \in Ans : /\ Remove(job[p].key, a) /\ (a = "missing" => bucket)
                    /\ Answer(p, Outcome(a))
  /\ UNCHANGED <<fixed, local>>

S3DeleteDir(p) ==
  /\ backend = "s3" /\ Is(p, {"deleteDir"})
  /\ \/ Lists(p, PageSize)
     \/ Deletes(p, {"missing"})
     \/ NextPage(p)
     \/ Deleted(p)

S3(p) == S3Exists(p) \/ S3Get(p) \/ S3Put(p) \/ S3Copy(p) \/ S3Delete(p) \/ S3DeleteDir(p)

-----------------------------------------------------------------------------
(* gcp: a missing object is only reported when the bucket is found to be    *)
(* there.                                                                   *)

\* Mutated form: the bucket is not asked for.
GcpBelieves(p, a) == Answer(p, Outcome(a))

\* What follows the answer a to a request for an object: handleError asks for
\* the bucket when the object is missing.
GcpAnswers(p, a) ==
  IF a = "missing" THEN Goto(p, "check") ELSE Answer(p, Outcome(a))

GcpHandleError(p) ==
  /\ backend = "gcp" /\ pc[p] = "check"
  /\ \E a \in Ans : AskBucket(a) /\ Answer(p, IF a = "ok" THEN "notFound" ELSE "error")
  /\ UNCHANGED <<fixed, local>>

GcpExists(p) ==
  /\ In(p, "gcp", "stat", "first")
  /\ \E a \in Ans : Ask(job[p].key, a) /\ GcpAnswers(p, a)
  /\ UNCHANGED <<fixed, local>>

GcpGet(p) ==
  /\ In(p, "gcp", "get", "first")
  /\ \E a \in Ans : Ask(job[p].key, a) /\ GcpAnswers(p, a) /\ Receives(p, a)
  /\ UNCHANGED <<fixed, sent, page, misreports, kills>>

GcpPut(p) ==
  /\ \/ /\ In(p, "gcp", "put", "first")
        /\ \E a \in Ans : /\ AskBucket(a)
                          /\ IF a = "ok" THEN Goto(p, "second") ELSE Answer(p, "error")
     \/ /\ In(p, "gcp", "put", "second")
        /\ \E a \in Ans : Store(job[p].key, job[p].content, a) /\ Answer(p, Outcome(a))
     \/ \* The bits cannot be read to their end: the deferred Close stores a part.
        /\ In(p, "gcp", "put", "second")
        /\ Store(job[p].key, Torn, "failed") /\ Answer(p, "error")
  /\ UNCHANGED <<fixed, local>>

GcpCopy(p) ==
  /\ In(p, "gcp", "copy", "first")
  /\ \E a \in Ans : StoreCopy(job[p].source, job[p].key, a) /\ GcpAnswers(p, a)
  /\ UNCHANGED <<fixed, local>>

GcpDelete(p) ==
  /\ In(p, "gcp", "delete", "first")
  /\ \E a \in Ans : Remove(job[p].key, a) /\ GcpAnswers(p, a)
  /\ UNCHANGED <<fixed, local>>

\* Whether a missing object is ignored depends on handleError.
GcpDeleteDir(p) ==
  /\ backend = "gcp" /\ Is(p, {"deleteDir"})
  /\ \/ Lists(p, PageSize)
     \/ Deletes(p, {"missing"}) \/ Deletes(p, {})
     \/ NextPage(p)
     \/ Deleted(p)

Gcp(p) == \/ GcpHandleError(p) \/ GcpExists(p) \/ GcpGet(p) \/ GcpPut(p) \/ GcpCopy(p)
          \/ GcpDelete(p) \/ GcpDeleteDir(p)

-----------------------------------------------------------------------------
(* azure: Put creates an empty blob, sends the blocks and commits their     *)
(* list.  Creating and committing discard what is staged under the key; the *)
(* IDs of blocks count from 0, so that all Puts of a key use the same ones.  *)

AzureHandleError(p) ==
  /\ backend = "azure" /\ pc[p] = "check"
  /\ \E a \in Ans : AskBucket(a) /\ Answer(p, IF a = "ok" THEN "notFound" ELSE "error")
  /\ UNCHANGED <<fixed, local>>

AzureExists(p) ==
  /\ In(p, "azure", "stat", "first")
  /\ \E a \in Ans : Ask(job[p].key, a) /\ Answer(p, Outcome(a))
  /\ UNCHANGED <<fixed, local>>

AzureGet(p) ==
  /\ In(p, "azure", "get", "first")
  /\ \E a \in Ans : /\ Ask(job[p].key, a) /\ Receives(p, a)
                    /\ IF a = "missing" THEN Goto(p, "check") ELSE Answer(p, Outcome(a))
  /\ UNCHANGED <<fixed, sent, page, misreports, kills>>

AzureCreate(p) ==
  /\ In(p, "azure", "put", "first")
  /\ \E a \in {"ok", "failed"} :
       /\ \/ /\ bucket
             /\ blob' = [blob EXCEPT ![job[p].key] = Torn]
             /\ staged' = [staged EXCEPT ![job[p].key] = Nothing]
          \/ a = "failed" /\ UNCHANGED server
       /\ IF a = "ok" THEN Goto(p, "block") ELSE Answer(p, "error")
  /\ UNCHANGED <<fixed, local>>

\* Mutated form: the loop goes on when everything has been read.
AzureBlockTooMany(p) ==
  LET c == job[p].content
  IN /\ In(p, "azure", "put", "block")
     /\ sent[p] <= Blocks[c]
     /\ sent' = [sent EXCEPT ![p] = @ + 1]
     /\ UNCHANGED <<calls, fixed, server, pc, got, page, misreports, kills>>

\* The next block is staged; it can also fail to be read.
AzureBlock(p) ==
  LET c == job[p].content
  IN /\ In(p, "azure", "put", "block")
     /\ sent[p] < Blocks[c]
     /\ \E a \in {"ok", "failed"} :
          /\ \/ staged' = [staged EXCEPT ![job[p].key][sent[p] + 1] = c] /\ UNCHANGED blob
             \/ a = "failed" /\ UNCHANGED server
          /\ \/ a = "ok" /\ sent' = [sent EXCEPT ![p] = @ + 1] /\ UNCHANGED <<calls, pc>>
             \/ a = "failed" /\ UNCHANGED sent /\ Answer(p, "error")
     /\ UNCHANGED <<fixed, got, page, misreports, kills>>

\* What n committed blocks are the bytes of.
Assembled(k, n) ==
  LET whole == {c \in Content : Blocks[c] = n /\ \A i \in 1..n : staged[k][i] = c}
  IN IF whole = {} THEN Torn ELSE CHOOSE c \in whole : TRUE

\* The server refuses a list with a block it does not have.
CommitBlocks(k, n, a) ==
  \/ /\ a # "missing"
     /\ \A i \in 1..n : staged[k][i] # NoContent
     /\ blob' = [blob EXCEPT ![k] = Assembled(k, n)]
     /\ staged' = [staged EXCEPT ![k] = Nothing]
  \/ a = "failed" /\ UNCHANGED server

\* Mutated form: the error of PutBlockList is not looked at.
AzureCommitUnchecked(p) ==
  /\ In(p, "azure", "put", "block")
  /\ sent[p] = Blocks[job[p].content]
  /\ \E a \in Ans : CommitBlocks(job[p].key, sent[p], a)
  /\ Answer(p, "nil")
  /\ UNCHANGED <<fixed, local>>

AzureCommit(p) ==
  /\ In(p, "azure", "put", "block")
  /\ sent[p] = Blocks[job[p].content]
  /\ \E a \in Ans : CommitBlocks(job[p].key, sent[p], a) /\ Answer(p, Outcome(a))
  /\ UNCHANGED <<fixed, local>>

\* What handleError makes of an error is not returned.
AzureCopy(p) ==
  /\ In(p, "azure", "copy", "first")
  /\ \E a \in Ans : StoreCopy(job[p].source, job[p].key, a) /\ Misleads(p, a # "ok")
  /\ Answer(p, "nil")
  /\ UNCHANGED <<fixed, got, sent, page, kills>>

AzureDelete(p) ==
  /\ In(p, "azure", "delete", "first")
  /\ \E a \in Ans : Remove(job[p].key, a) /\ Answer(p, Outcome(a))
  /\ UNCHANGED <<fixed, local>>

AzureDeleteDir(p) ==
  /\ backend = "azure" /\ Is(p, {"deleteDir"})
  /\ \/ Lists(p, PageSize)
     \/ Deletes(p, {"missing"})
     \/ NextPage(p)
     \/ Deleted(p)

Azure(p) == \/ AzureHandleError(p) \/ AzureExists(p) \/ AzureGet(p) \/ AzureCreate(p) \/ AzureBlock(p)
            \/ AzureCommit(p) \/ AzureCopy(p) \/ AzureDelete(p) \/ AzureDeleteDir(p)

-----------------------------------------------------------------------------
(* openstack: every method asks for the container first and takes any       *)
(* answer but "not found" for a yes.                                        *)

OpenstackContainerExists(p) ==
  /\ backend = "openstack" /\ pc[p] = "first"
  /\ \E a \in Ans :
       /\ AskBucket(a)
       /\ IF a = "missing" THEN Answer(p, "error")
          ELSE Goto(p, IF Is(p, {"deleteDir"}) THEN "list" ELSE "second")
  /\ UNCHANGED <<fixed, local>>

OpenstackExists(p) ==
  /\ In(p, "openstack", "stat", "second")
  /\ \E a \in Ans : Ask(job[p].key, a) /\ Answer(p, Outcome(a))
  /\ UNCHANGED <<fixed, local>>

\* Without the container, an unanswered containerExists makes it a missing object.
OpenstackGet(p) ==
  /\ In(p, "openstack", "get", "second")
  /\ \E a \in Ans : /\ Ask(job[p].key, a) /\ Receives(p, a)
                    /\ Answer(p, Outcome(a)) /\ Misleads(p, a = "missing" /\ ~bucket)
  /\ UNCHANGED <<fixed, sent, page, kills>>

OpenstackPut(p) ==
  /\ In(p, "openstack", "put", "second")
  /\ \E a \in Ans : Store(job[p].key, job[p].content, a) /\ Answer(p, Outcome(a))
  /\ UNCHANGED <<fixed, local>>

OpenstackCopy(p) ==
  /\ In(p, "openstack", "copy", "second")
  /\ \E a \in Ans : StoreCopy(job[p].source, job[p].key, a) /\ Answer(p, Outcome(a))
  /\ UNCHANGED <<fixed, local>>

OpenstackDelete(p) ==
  /\ In(p, "openstack", "delete", "second")
  /\ \E a \in Ans : Remove(job[p].key, a) /\ Answer(p, Outcome(a))
  /\ UNCHANGED <<fixed, local>>

\* All names are listed before the first is deleted.  The containerExists of
\* each deletion changes nothing: the container was listed.
OpenstackDeleteDir(p) ==
  /\ backend = "openstack" /\ Is(p, {"deleteDir"})
  /\ \/ Lists(p, Len(Listing[job[p].key]))
     \/ Deletes(p, {"missing"})
     \/ Deleted(p)

Openstack(p) == \/ OpenstackContainerExists(p) \/ OpenstackExists(p) \/ OpenstackGet(p) \/ OpenstackPut(p)
                \/ OpenstackCopy(p) \/ OpenstackDelete(p) \/ OpenstackDeleteDir(p)

-----------------------------------------------------------------------------
(* alibaba: Get and Put ask for the bucket; no error becomes a NotFound but *)
(* that of Get, where all do.                                               *)

Failed(a) == IF a = "ok" THEN "nil" ELSE "error"

AlibabaBucketExists(p) ==
  /\ backend = "alibaba" /\ Is(p, {"get", "put"}) /\ pc[p] = "first"
  /\ \E a \in Ans : AskBucket(a) /\ IF a = "ok" THEN Goto(p, "second") ELSE Answer(p, "error")
  /\ UNCHANGED <<fixed, local>>

AlibabaExists(p) ==
  /\ In(p, "alibaba", "stat", "first")
  /\ \E a \in Ans : Ask(job[p].key, a) /\ Answer(p, Outcome(a))
  /\ UNCHANGED <<fixed, local>>

AlibabaGet(p) ==
  /\ In(p, "alibaba", "get", "second")
  /\ \E a \in Ans : /\ Ask(job[p].key, a) /\ Receives(p, a)
                    /\ Answer(p, IF a = "ok" THEN "nil" ELSE "notFound")
                    /\ Misleads(p, a = "failed")
  /\ UNCHANGED <<fixed, sent, page, kills>>

AlibabaPut(p) ==
  /\ In(p, "alibaba", "put", "second")
  /\ \E a \in Ans : Store(job[p].key, job[p].content, a) /\ Answer(p, Failed(a))
  /\ UNCHANGED <<fixed, local>>

AlibabaCopy(p) ==
  /\ In(p, "alibaba", "copy", "first")
  /\ \E a \in Ans : StoreCopy(job[p].source, job[p].key, a) /\ Answer(p, Failed(a))
  /\ UNCHANGED <<fixed, local>>

AlibabaDelete(p) ==
  /\ In(p, "alibaba", "delete", "first")
  /\ \E a \in Ans : Remove(job[p].key, a) /\ Answer(p, Failed(a))
  /\ UNCHANGED <<fixed, local>>

\* The errors of deletions are never reported: there are never fewer than 0.
AlibabaDeleteDir(p) ==
  /\ backend = "alibaba" /\ Is(p, {"deleteDir"})
  /\ \/ Lists(p, PageSize)
     \/ Deletes(p, {})
     \/ NextPage(p)
     \/ /\ pc[p] = "remove" /\ page[p].todo = {} /\ ~page[p].more
        /\ Answer(p, "nil") /\ Misleads(p, page[p].errs)
        /\ UNCHANGED <<server, fixed, got, sent, page, kills>>

Alibaba(p) == \/ AlibabaBucketExists(p) \/ AlibabaExists(p) \/ AlibabaGet(p) \/ AlibabaPut(p)
              \/ AlibabaCopy(p) \/ AlibabaDelete(p) \/ AlibabaDeleteDir(p)

-----------------------------------------------------------------------------
(* webdav: plain HTTP.                                                      *)

\* Every status but 200 counts as "does not exist"; e is what Exists says.
WebdavHead(p, e) ==
  \E a \in Ans : /\ Ask(job[p].key, a)
                 /\ e = Outcome(a) \/ (a = "failed" /\ e = "notFound")
                 /\ Misleads(p, a = "failed" /\ e = "notFound")

WebdavExists(p) ==
  /\ In(p, "webdav", "stat", "first")
  /\ \E e \in {"nil", "notFound", "error"} : WebdavHead(p, e) /\ Answer(p, e)
  /\ UNCHANGED <<fixed, got, sent, page, kills>>

WebdavGet(p) ==
  \/ /\ In(p, "webdav", "get", "first")
     /\ \E e \in {"nil", "notFound", "error"} :
          WebdavHead(p, e) /\ IF e = "nil" THEN Goto(p, "second") ELSE Answer(p, e)
     /\ UNCHANGED <<fixed, got, sent, page, kills>>
  \/ /\ In(p, "webdav", "get", "second")
     /\ \E a \in Ans : Ask(job[p].key, a) /\ Receives(p, a) /\ Answer(p, Failed(a))
     /\ UNCHANGED <<fixed, sent, page, misreports, kills>>

WebdavPut(p) ==
  /\ In(p, "webdav", "put", "first")
  /\ \E a \in Ans : Store(job[p].key, job[p].content, a) /\ Answer(p, Failed(a))
  /\ UNCHANGED <<fixed, local>>

\* An empty resource is stored before the server is asked for the copy; a
\* missing source is found out when the destination is lost.
WebdavCopy(p) ==
  \/ /\ In(p, "webdav", "copy", "first")
     /\ \E a \in Ans : /\ Store(job[p].key, Torn, a)
                       /\ IF a = "ok" THEN Goto(p, "second") ELSE Answer(p, "error")
     /\ UNCHANGED <<fixed, local>>
  \/ /\ In(p, "webdav", "copy", "second")
     /\ \E a \in Ans : /\ StoreCopy(job[p].source, job[p].key, a) /\ Answer(p, Outcome(a))
                       /\ Misleads(p, a = "missing")
     /\ UNCHANGED <<fixed, got, sent, page, kills>>

WebdavDelete(p) ==
  /\ In(p, "webdav", "delete", "first")
  /\ \E a \in Ans : Remove(job[p].key, a) /\ Answer(p, Failed(a))
  /\ UNCHANGED <<fixed, local>>

\* The server removes the collection, or what it can of it.
WebdavDeleteDir(p) ==
  LET below == Under[job[p].key]
  IN /\ In(p, "webdav", "deleteDir", "first")
     /\ \E a \in Ans, gone \in SUBSET below :
          /\ a = "ok" => gone = below
          /\ a = "missing" => gone = {} /\ \A k \in below : ~Has(k)
          /\ blob' = [k \in Key |-> IF k \in gone THEN Absent ELSE blob[k]]
          /\ Answer(p, Outcome(a))
     /\ UNCHANGED <<fixed, staged, local>>

Webdav(p) == \/ WebdavExists(p) \/ WebdavGet(p) \/ WebdavPut(p) \/ WebdavCopy(p)
             \/ WebdavDelete(p) \/ WebdavDeleteDir(p)

-----------------------------------------------------------------------------

\* What the goroutine of p does next.
Works(p) == S3(p) \/ Gcp(p) \/ Azure(p) \/ Openstack(p) \/ Alibaba(p) \/ Webdav(p)

Kill ==
  /\ kills < MaxKills
  /\ kills' = kills + 1
  /\ Killed
  /\ pc' = [p \in Call |-> IF Running(p) THEN "done" ELSE pc[p]]
  /\ UNCHANGED <<fixed, server, got, sent, page, misreports>>

Next == (\E p \in Call : Start(p) \/ Works(p)) \/ Kill

Spec == Init /\ [][Next]_vars

FairSpec == Spec /\ \A p \in Call : WF_vars(Works(p))

-----------------------------------------------------------------------------
(* What the callers of the blobstore rely on.                               *)

Wrote(p) ==
  \/ pc[p] = "block"
  \/ In(p, "webdav", "copy", "second")
  \/ Is(p, {"deleteDir"}) /\ pc[p] \in {"list", "remove"} /\ page[p].marker # 0

\* The method and the answer of the misreports of each backend: what it also
\* answers when the method has failed.
MisreportsOf(b) ==
  CASE b = "azure"     -> {<<"copy", "nil">>}
    [] b = "openstack" -> {<<"get", "notFound">>}
    [] b = "alibaba"   -> {<<"get", "notFound">>, <<"deleteDir", "nil">>}
    [] b = "webdav"    -> {<<"stat", "notFound">>, <<"get", "notFound">>, <<"copy", "notFound">>}
    [] OTHER           -> {}

Contract == INSTANCE BlobstoreCalls WITH
  Redirects <- Key,
  Misreports <- UNION {MisreportsOf(b) : b \in Backends},
  misled <- misreports,
  wrote <- [p \in Call |-> Wrote(p)]

\* Every call of every backend keeps the contract of Blobstore with the answer
\* its caller gets, whatever fails and whatever other calls do to other keys;
\* only where MisreportsOf says so does that answer stand for a failure.
KeepsContract ==
  Contract!CSpec /\ [](\A p \in misreports : <<job[p].kind, answer[p]>> \in MisreportsOf(backend))

\* Puts of the same resource at the same time, as two bundles with the same
\* file make of the app-stash, converge, although on Azure they share the IDs
\* of their blocks: when all of them have succeeded, the resource is whole.
SamePutsConverge ==
  \A k \in Key, c \in Content :
    LET writers == {p \in Call : k \in Writes(p) /\ answer[p] # "idle"}
    IN (writers # {} /\ \A p \in writers : job[p].content = c /\ answer[p] = "nil")
         => blob[k] = c

\* A missing bucket is never taken for a missing resource
\* (contract_integ_test/blobstore_integ_test.go:180), however the backend
\* finds out, unless its answer to the question for the bucket was lost.
NoBucketIsNotNotFound ==
  \A p \in Call : Is(p, {"get"}) /\ answer[p] = "notFound" => bucket \/ p \in misreports

\* Every call returns: a DeleteDir gets to the last page of its listing even
\* when deletions fail and others store into the directory.
CallsReturn == \A p \in Call : Running(p) ~> ~Running(p)

\* The most steps p has still to take: of a listing, three for each key behind
\* the marker, of which every page has one, and one for each key of the page.
Left(p) ==
  LET ahead == Len(Listing[job[p].key]) - page[p].marker
  IN CASE pc[p] = "first" -> IF Is(p, {"put"}) THEN Blocks[job[p].content] + 2
                             ELSE IF Is(p, {"deleteDir"}) THEN 3 * ahead + 4 ELSE 2
       [] pc[p] \in {"second", "check"} -> 1
       [] pc[p] = "block"  -> Blocks[job[p].content] - sent[p] + 1
       [] pc[p] = "list"   -> 3 * ahead + 3
       [] pc[p] = "remove" -> Cardinality(page[p].todo) + (IF page[p].more THEN 3 * ahead + 4 ELSE 1)
       [] pc[p] \in {"idle", "done"} -> 0

\* Every call comes to its end after so many requests, whatever is answered and
\* whatever others store into its directory meanwhile.
StepsAreBounded ==
  [][\A p \in Call : Running(p) => Left(p)' \in 0..(Left(p) - (IF Works(p) THEN 1 ELSE 0))]_vars

\* "copies a resource from src to dest" (blobstore_integ_test.go:130): after a
\* Copy that succeeded the destination is found.
CopiedMeansFound ==
  \A p \in Call : Is(p, {"copy"}) /\ answer[p] = "nil" /\ contended[p] = {} => Has(job[p].key)
=============================================================================
