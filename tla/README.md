# A TLA+ model of the bits-service

The bits-service stores the "bits" of Cloud Foundry - packages, droplets,
buildpacks, buildpack_cache entries and the app-stash - in a blobstore, and
tells the Cloud Controller what became of the uploads of packages. This
directory models the parts of it in which requests, failures and the Cloud
Controller can get in each other's way, checks them with TLC and proves the
safety properties and refinements with TLAPS.

File and line references are to the repository's root.

## 1. Inventory

### 1.1 Components, their state and their operations

| Component | Source | State | Operations |
|---|---|---|---|
| Resource handler, one instance per resource type | `resource_handler.go`, `routes/resource_routes.go`, `body_size_limit.go` | none of its own between requests; per request: the temporary file of an upload, the number of retries, the reply | `AddOrReplace` (form upload, synchronous or asynchronous, with or without app-stash resources), `AddOrReplaceWithDigestInHeader`, `CopySourceGuid`, `Head`, `Get`, `Delete`, `DeleteDir` |
| Cloud Controller updater | `ccupdater/ccupdater.go` | none; the package records are the Cloud Controller's | `NotifyProcessingUpload`, `NotifyUploadSucceeded`, `NotifyUploadFailed`, all by `update`; `NullUpdater` for everything but packages |
| App-stash | `app_stash_handler.go`, `package_bundle.go` | files under their SHA1 in a blobstore of its own; per request: the temporary zip | `PostMatches`, `PostEntries`, `PostBundles`; `CreateTempZipFileFrom`, also for package uploads |
| Blobstore interface | `blobstore.go` | resources under keys | `Exists`, `HeadOrRedirectAsGet`, `Get(OrRedirect)`, `Put`, `Copy`, `Delete`, `DeleteDir` |
| Local backend | `blobstores/local/local_blobstore.go` | files below a path prefix | the interface, by system calls |
| WebDAV backend | `blobstores/webdav/` | a WebDAV server | the interface, by HTTP requests; `Copy` is two of them |
| Object stores | `blobstores/{s3,gcp,azure,openstack,alibaba}/` | a bucket | the interface, by the vendors' SDKs; `DeleteDir` lists and deletes; Azure's `Put` uploads blocks |
| In-memory backend | `blobstores/inmemory/` | a map | the interface (tests) |
| Path decorators | `blobstores/decorator/p*.go` | none | put identifiers into directories (`pathFor`) and below a prefix, for blobstores and for signers |
| Metrics decorator | `blobstores/decorator/metrics_*.go` | none | time calls |
| Signed URLs | `pathsigner/`, `sign_handler.go`, `blobstores/local/signed_urls.go`, the backends' `Sign` | none; a URL carries its expiry | `Sign` a path and a verb for an hour; validate a use of a URL |
| Middlewares | `middlewares/` | none | panic to 500, limits, basic auth, logs, metrics |
| Configuration and wiring | `config/`, `cmd/bitsgo/main.go` | constant after start | validation, construction of handlers, backends, decorators and signers |
| Utilities and dashboard | `util/`, `httputil/`, `logger/`, `scripts/` | none | helpers |
| API documentation site | `api-doc/` | none | a Slate site: vendored browser scripts (jQuery, lunr) around the text of the API |

### 1.2 How they interact

- `net/http` runs every request in a goroutine of its own; a handler calls the
  backend and the updater synchronously. Nothing is locked: the blobstore and
  the Cloud Controller's records are the only shared state, and they change
  between any two calls of a handler.
- An asynchronous upload (`AddOrReplace`, `:199-208`) replies 202 and goes on in
  a second goroutine, which reports only to the Cloud Controller.
- An upload of a package is announced (`PROCESSING_UPLOAD`) before it is stored
  and gets its verdict (`READY` with checksums, or `FAILED`) afterwards. The
  announcement is where the Cloud Controller can refuse: 422 for a package in a
  state that must not change, 404 for one that is gone.
- `CreateTempZipFileFrom` writes files to, and reads files from, the app-stash
  before the package is announced; a client relies in it on what an earlier
  `PostMatches` told it.
- Every blobstore is used through decorators, and every signer through its own.
  Droplets, buildpack_cache entries and, if configured, the app-stash share a
  bucket; what keeps them apart, and what makes a signed URL lead where the
  blobstore looks, is that four wirings in `main.go` agree.
- Panics (`util.PanicOnError`) unwind to the panic middleware: 500, with deferred
  clean-ups run.

### 1.3 Hard behaviours

1. Interleaving: several uploads to one package; `Exists` before `Delete`;
   overlapping writes of the same file.
2. Lost and ambiguous calls: a failed `Put` may have stored all, some or
   nothing; a notification may be recorded although its answer was lost, and is
   sent only once.
3. Retries: `retryPolicy` repeats a `Put` for a second, bundling repeats `Put` and
   `Get` for up to 15 minutes; what they repeat must be repeatable.
4. Kills between announcement and verdict, or in the middle of a write.
5. Temporary files with two owners, and their clean-up on each error path.
6. Partial failure of directory deletion, and of uploads of many files.
7. Names: prefixes, partitions and `DeleteDir` by prefix of a key must neither mix
   up resources of different types or apps nor miss any.
8. Expiry: the hour of a signed URL, cut to whole seconds.

`PROJECT.json` lists each at its line, with the property that would catch it.

### 1.4 What makes a component correct

| Component | Properties |
|---|---|
| Resource handler | a verdict is true of the bits it was given for; the last successful write is what is found; a refused request has no effect; success is only answered for what is stored (the last three but for what a backend misreports); exactly one verdict per accepted upload, after its last write; temporary files are cleaned up; every request is answered |
| App-stash | content-addressed; what was there is never lost, and reported missing only where the backend denies it; matches and receipts are true; zips are exact; size thresholds are kept |
| Local backend, WebDAV, object stores | each method keeps the contract of the interface, whatever fails and whenever the process is killed, on the keys no other call writes meanwhile; overlapping writes of the same content converge; a missing bucket is not a missing resource; every call returns |
| Path decorators, signed URLs | every resource has a key of its own; deleting the buildpack_cache of an app, or of all apps, deletes their entries and nothing else; a URL leads to the resource it was signed for (an upload of a droplet's name to a droplet under that name), for an hour and no longer |

## 2. The modules

```
Bits                                keys and contents
 |- CloudController                 the package records
 |- UploadPromise                   abstract uploads
 |- StashPromise                    abstract app-stash
 |- Resources                       what is under a key
     |- Blobstore                   the contract of a backend
     |   |- ResourceHandler         (with CloudController, implements UploadPromise)
     |   |- AppStash                (implements StashPromise)
     |   |- BlobstoreCalls          (with Calls) the contract of calls side by side
     |       |- AtomicCall          one of those calls, as its caller sees it
     |- Calls                       calls that run side by side
         |- LocalBlobstore          (implements BlobstoreCalls)
         |- RemoteBlobstore         (implements BlobstoreCalls)
Paths                               prefixes and partitions
 |- SignedURLs                      (implements Shelves)
Shelves                             abstract resources and grants
```

`MCX` is a small instance of `X` for TLC, `X_proofs` the theorems about it;
`LocalContract_proofs` and `RemoteContract_proofs` go on from `LocalBlobstore_proofs`
and `RemoteBlobstore_proofs`.

| Module | Models | State and actions |
|---|---|---|
| `Bits` | what all modules talk about | keys and complete contents; a content stands for its bytes and its checksums |
| `Resources` | what can be under a key | `Absent`, a content, or `Torn` (bytes nobody asked to be stored); which keys are below a directory |
| `Blobstore` | the interface at the grain of calls | `blob[k]`. `Put`, `Copy`, `Delete`, `DeleteDir` relate a result to what the call may leave behind: an unsuccessful write leaves the old resource, a part of the new one, or all of it. `Misreports` has the results which the backend also gives for failures |
| `Calls` | calls that run side by side | each call's method, its answer, and `contended`, the keys other calls write while it runs |
| `BlobstoreCalls` | the interface for calls that run side by side | a running call may disturb the keys it writes, as if it failed; when it returns, the contract of `Blobstore` holds, but for contended keys. A call that has written does not answer that there was nothing to do, and what ran out of space is torn. A call that failed may return a result of `Misreports` (`misled`) |
| `AtomicCall` | a call of `BlobstoreCalls` and its caller | what was stored when the call began and when it returned (`seen`); `ActsAtOnce` says that between the two it did one operation of `Blobstore` |
| `CloudController` | `CCUpdater.update` and the records it changes | `package[k]`; `update(k, state, checksum, result)` with refused, lost and unanswered requests, and every other status as success |
| `ResourceHandler` | all operations of `ResourceHandler` | `pc[r]` is the point of the handler; one action per stretch of code up to its next call. `told`, `stored`, `writer` and `misled` only record what happened, for the properties |
| `UploadPromise` | what the Cloud Controller may expect of an upload | phases new, taken, stored or failed, reported; refused; dead |
| `LocalBlobstore` | the local backend at the grain of system calls | directory entries, inodes and their blocks, open files and their offsets. A truncated file keeps its inode, a removed one lives on for who has it open, a write beyond the end leaves a hole |
| `RemoteBlobstore` | the six backends that keep resources on a server, at the grain of requests | what the server has under each key, Azure's uncommitted blocks, whether the bucket exists; per call, the next request and the place in a listing. One action per method and backend, its disjuncts the requests |
| `AppStash` | matching, adding and bundling files | the blobstore of the stash, and per request: what is left to do, the entries of the temporary zip as lists of pieces, whether the zip is closed and on disk. `there`, `misled` and `broken` only record: what was stored when a request came, what a failed call denied it, what failed `Put`s may have left in part |
| `StashPromise` | what the clients of the app-stash may expect | a stock of files that only grows, and by the files of open requests; what each request is told of the stock between its coming and its answer, true but for what a backend that may overlook files denies (`unseen`) |
| `Paths` | the path decorators and their wiring | a path is the sequence of its characters. `KeyFor`: where the decorated blobstore of a type keeps an identifier; `SignedKey`: which key its decorated signer signs; `InDir`: what `DeleteDir` deletes |
| `SignedURLs` | resources of three types in one bucket, and the URLs signed for them | the bucket, the URLs in circulation and the time. `Put`, `Delete`, `DeleteDir`; `Sign`, `Upload` and `Download` by a URL; `Tick` |
| `Shelves` | what clients take for granted of both | a shelf for every resource; grants of uploads, good for an hour |

Every operator that carries code is in the "map" of `PROJECT.json` with its
lines. Each module also has a few *mutated forms* of its operators, marked so
in their comments: bugs the code could have had, which the properties must find
when one of them takes the place of the real operator.

Points that deserve a reader's attention:

- **Results, not errors.** `"nil"`, `"notFound"`, `"noSpace"` and `"error"` are the
  error values the handlers tell apart. Which error is wrapped (and thereby
  loses its type, as the one of `NotifyUploadSucceeded` at
  `resource_handler.go:301`, which becomes a 500 even for a 404) is part of the
  actions.
- **A call is a step in `ResourceHandler`**, the grain at which a handler can
  tell calls apart. That this is right is proved in two parts. `ContractKept` says
  `LocalBlobstore => BlobstoreCalls` and `RemoteBlobstore => BlobstoreCalls`: a call that
  is still running has had at most the effect of one that failed. `CallIsAtomic`
  says of `BlobstoreCalls` that a call does, from its start to its return and
  whatever others do meanwhile, what one operation of `Blobstore` may do with the same
  result, on the keys nobody else writes; one that dies with the process does what a
  failed one may do, which in `ResourceHandler` is a failed `Put` followed by `Crash`;
  and one whose answer stands for a failure does that too, where `Misreports` has the answer.
  `CallsAreOperations` puts the parts together for each backend.
- **Results that say less than they seem to.** `BlobstoreCalls` asks two things of a
  call that has already written, over the contract of its last step: it does not
  answer `notFound`, and after `noSpace` the resource is torn. Without the second, a
  `Put` could store all of its content, answer `noSpace` and still keep the contract in
  every step, although no single operation does that. The backends do keep to it:
  whoever runs out of space has not written its last block.
- **Overlapping calls on one key.** Two `Put`s of different contents can mix,
  although both return nil: on the local backend they write to one inode, on
  Azure they stage blocks under the same IDs. So `BlobstoreCalls` promises
  nothing of a key that another call wrote meanwhile, except where it matters:
  `Put`s of the same content converge (`SamePutsConverge`). What
  `LastWriteIsIntact` says of racing uploads to one package is therefore about
  backends whose calls take effect at once; on the local backend and on Azure it
  holds when writes of one package do not overlap. In `AppStash`, where
  overlapping `Put`s of the *same* file are the normal case, `PartialWrites`
  switches between backends that show files while they are written and backends
  that show them at once, and a `Put` there is two steps.
- **Misreported failures.** Some answers of remote backends do not say what happened:
  Azure's `Copy` answers nil for any error; Alibaba's `Get` answers `NotFound` for
  any error and its `DeleteDir` never reports one (`len(errs) < 0`); WebDAV takes
  every status but 200 for `NotFound`, and its `Copy` of a missing source answers
  `NotFound` after it has overwritten the destination; OpenStack's
  `containerExists` takes an unanswered request for a yes. `RemoteBlobstore` models
  them as they are and records such calls in `misreports`. `MisreportsOf` names the
  method and the answer per backend, `Misleading` those of all backends, and every layer
  above takes them into account: in `BlobstoreCalls` a failed call may return such an
  answer, and the refinement maps answers to themselves; `ResourceHandler` and
  `AppStash` let a call answer e when it did what a failed one may do, wherever
  `Misreports` has e for the method. `KeepsContract` also says that a backend misreports
  nothing but its own entries of `MisreportsOf`. The properties of the handlers name
  the exception where they need one, and nothing beyond it: see `Misled` in
  `ResourceHandler` and `misled[r]` in `AppStash`. With `Misreports` empty, which is the
  local backend, S3 and GCP, the exceptions are void; without them TLC refutes the
  properties. One misreport contradicts a test and has a run, `azure_copy`.
- **A part of a file** counts as stored: `Exists` and `Get` do not tell it from the whole
  one. So where `PartialWrites` holds, "there" in `MissingWasNeverThere` and in
  `MatchesAreExact` means that something is stored under the SHA1. `ReceiptIsStored` and
  `ThresholdsAreKept` say more: a file that was stored is whole and stays so until another
  `Put` of it runs or has failed (`Kept`).
- **Servers** handle a request at once and may lose its answer. A write is visible
  as a whole or not at all, but for what the backends do themselves: Azure's
  `Put` and WebDAV's `Copy` create an empty resource first, and GCP's `Put` stores a
  part when the bits cannot be read to their end. The keys with the prefix that
  `DeleteDir` is given are taken to be those below the directory (`Listing` and
  `Under` agree), and `ObjectNames` of OpenStack to list them all.
- **`StageUpload`** in `ResourceHandler` stands for `completePackageWithResources`;
  what that does to the app-stash is `AppStash`'s request of kind `"package"`.
- **`SignedURLs`** has its calls take effect at once: what happens in between is
  `ResourceHandler`'s and the backends' matter. URLs are used for what they were
  signed for (the computation of signatures is left out, and that of the vendors'
  signers is external). The routes decide where a PUT ends up, signed or not: for a
  droplet whose name has no slash, under that name and the value of the `Digest` header
  (`TakesDigest`, `Targets`), which can be any of the droplets `<name>/<digest>` of the
  instance; for all else under the name itself. A PUT without a form copies a resource
  of the type (`Copyable`); a copy of nothing is left out here, it is
  `ResourceHandler`'s. `Shelves` promises of an upload no more than that: the resource, or
  one whose name it begins (`Room`), with new bits or those of a resource of its type
  (`Kin`). `"post"` is signed as `"put"` is, and the URLs for matching
  against the app-stash lead to no resource. Packages and buildpacks are kept as
  droplets are, in buckets of their own. The three wirings `"local"`, `"webdav"` and
  `"objects"` stand for the seven backends, which differ in the directory on the
  server, in whether a deletion is by prefix or by directory, in who validates a
  URL for a download, and in the prefix of the signer for buildpack_cache entries. The
  model takes identifiers to have at least four characters, none to begin with a slash
  and the GUIDs of apps to be of one length (`URLAssumption`): a buildpack_cache is
  deleted by prefix, so with GUIDs of different lengths one app's deletion could
  take another app's entries. The double slash that `DeleteDir("")` produces
  in a WebDAV URL is taken for a single one.
- **Code outside this repository** is external: the Cloud Controller's decisions,
  the operating system's kill, `write(2)`, the scheduling of goroutines, and the
  `backoff` library, whose limits on elapsed time are the bound `MaxRetries`.
- **Observations** (`told`, `stored`, `writer`, `there`, `misled`, `broken`) are written and
  never read by the actions, but to update themselves.

## 3. What is checked

Passing runs (TLC finishes without an error; every action fires in some run):

| Run | Question and bounds |
|---|---|
| `packages` | two requests of any kind, to one package (and a second key as source of copies) or to droplets and buildpack_cache entries (NullUpdater, `Digest` uploads, `DeleteDir` over two keys); a backend that redirects and misreports all that is in `Misleading`; both contents, one retry, one kill, a Cloud Controller that loses calls and may forget the package: `TypeOK`, the safety properties with their exceptions for misreports, and the refinement `KeepsPromise` |
| `racing_uploads` | two uploads to one package, a retry and a kill, fair scheduling; the Cloud Controller always answers, so that `ProcessingHasOwner` and the liveness of verdicts say something; every upload is answered |
| `local_calls` | three calls of any method to the local backend, overlapping as they like, on two files and their directory; a file of one buffer is stored, Puts bring two, a kill: `KeepsContract`, that is the refinement of `BlobstoreCalls`, `SamePutsConverge`, and a bound on the system calls of each call (`StepsAreBounded`) |
| `remote_calls` | two calls of any method to any of the six remote backends, which may be without a bucket; two keys listed a page of one at a time, contents of one and two blocks, a kill, fair scheduling: the same, a missing bucket is not taken for a missing resource, and every call returns, after no more requests than `StepsAreBounded` leaves it |
| `stash_objects` | two requests of every kind of the app-stash; files below, on and above the size thresholds; calls may fail, and a failed `Get` or `Exists` may answer that nothing is there (`Misleading`); one retry per file, one kill; atomic writes, and reads that do not break off: the safety properties, the refinement `KeepsStashPromise`, and a bound on the steps of a request (`StepsAreBounded`) |
| `stash_files` | two requests about one file on a backend that shows files while they are written, fair scheduling, every fault and a kill, no misreports (the local backend): what is stored, if only a part of the file, is not reported missing; the files of a receipt are whole until another `Put` of them runs or fails; and every request is answered |
| `signed_urls` | a droplet, the name it is uploaded under, a file of the app-stash and buildpack_cache entries of two apps whose GUIDs begin alike, in one bucket on each kind of backend; one URL; a second is two ticks of the clock, the hour six: `DownloadsAreExact`, and the refinement `KeepsShelves` |

Why the bounds are enough to be interesting: two requests suffice for every
race over one key; one retry already
makes "failed, then repeated" differ from "failed"; a single kill separates
what survives from what does not; the second content makes mixing visible; two
buffers make a torn file distinct from both the old and the new one; pages of one
key make every `DeleteDir` go on to a second page; identifiers that share
their first characters, across types and apps, are those a wrong prefix or
partition would mix up; one URL is enough because no action reads two of them,
and two ticks a second make the cut of an expiry visible. For safety the bounds do
not matter: all the safety properties and refinements are proved (section 5).

Runs that TLC must refute. Each is a statement of the repository's documents,
comments or tests that the code does not live up to:

| Run | Statement | What happens |
|---|---|---|
| `ready_replaced` | "Cannot update an existing package." (`resource_handler.go:346`) | of two uploads announced before either is stored, the later one replaces the bits of a READY package |
| `local_self_copy` | "can be modified by its methods" (`blobstores/blobstore_test.go:31,51`) | `Copy(k, k)` truncates `k` and returns nil |
| `bundle_retry` | "creates and returns a zip file by bundling file entries from the app stash" (`api-doc/source/index.html.md:571`) | a retry after a broken-off read appends to the same zip entry |
| `azure_copy` | "copies a resource from src to dest" (`blobstores/contract_integ_test/blobstore_integ_test.go:130`) | Azure's `Copy` drops the error it was answered with and returns nil; the handler replies 201 for a copy that is not there |
| `cache_url` | "`GET /sign/:path` where `:path` is the URL path of the signed entity." (`api-doc/source/index.html.md:603`) | on the object stores the signer for buildpack_cache entries gets the prefix `buildpack_cache` (`cmd/bitsgo/main.go:265`), the blobstore `buildpack_cache/` (`:260`): the URL is one for `buildpack_cacheab/cd/...`, where nothing is stored |

More places where the code does less than it seems to are in the models as
they are, without a run of their own: the other misreported failures above, a
copy without `source_guid` is answered 200 (`CopyWithoutSource`), a 500 of the Cloud Controller counts as success
(`update`), a verdict whose notification is lost leaves the package
`PROCESSING_UPLOAD` for good, since it is sent once (cf.
`api-doc/source/index.html.md:63`), and an error of `zipWriter.Close` is dropped (`CloseZip`; with the fault
`"close"`, `BundlesAreExact` fails).

`CHECK_DEADLOCK FALSE` is set everywhere: a finite set of requests is served and
then the system rests.

## 4. Fairness

`FairSpec` of `ResourceHandler` asks for weak fairness of `Work(r)`, what the
goroutine of `r` does next, and of the reply of an asynchronous upload, for every
request: the Go scheduler runs every goroutine, and the calls they make return.
The same holds of `Goes(r)` in `AppStash` and of `Works(p)` in `RemoteBlobstore`, where a
step is a request: requests return. Nothing is assumed of clients, of
kills, of the Cloud Controller's own steps, or of which outcome a call has; in
particular no call is assumed to succeed in the end. That calls return is an
assumption: the HTTP client of the updater has no timeout
(`ccupdater/ccupdater.go:59`).

`racing_uploads` sets `CCFaults = FALSE`, and its property on verdicts excepts
behaviours with a kill, because the code guarantees nothing else: a verdict is
sent once, and nobody takes up the uploads of a process that was killed.
`SignedURLs` and `LocalBlobstore` have safety properties only, and no fairness.

## 5. What is proved

TLAPS checks the following for every value of the constants: any number of
requests, calls, keys, contents, blocks, pages, retries and kills. All of the
safety properties and all of the refinements that the passing runs check are
among them.

`ResourceHandler_proofs`, with or without an updater, faults of the Cloud
Controller, redirecting backends and misreports:

| Theorem | Statement |
|---|---|
| `Inductive`, `TypeCorrect` | `Spec => []IndInv` (section 5.1), `Spec => []TypeOK` |
| `VerdictsCorrect` | a package is READY only with the checksums of an upload that stored its bits, FAILED only because of one that did not |
| `LastWriteCorrect` | what the last successful write of a key sent is what is found there, after a copy something is, and after a 204 nothing, unless failures of `DeleteDir` are misreported (Alibaba) |
| `RefusalCorrect` | a request answered 4xx has sent no verdict, and has written nothing unless it is a copy and the backend misreports "not found" (WebDAV, which empties the destination first) |
| `CreatedCorrect` | 201 only for stored bits, or for a copy whose failure the backend misreports as nil (Azure); and for an upload after READY was sent |
| `TempFilesCorrect` | the lifetime of temporary files |
| `OwnerCorrect` | without lost calls, a PROCESSING_UPLOAD package has an upload that will report or was killed |
| `PromiseKept` | `Spec => Promise!PSpec`: the handlers implement `UploadPromise` |

`AppStash_proofs`, for any files, thresholds, faults and misreports:

| Theorem | Statement |
|---|---|
| `Inductive`, `TypeCorrect` | `Spec => []IndInv`, `Spec => []TypeOK` |
| `KeysCorrect` | the stash is content-addressed, where writes are atomic |
| `MissingCorrect` | nothing under whose SHA1 something was stored is reported missing, unless the backend is one that answers a failed `Get` as if nothing were there (Alibaba, WebDAV, OpenStack) |
| `MatchesCorrect` | `PostMatches` reports only files of admissible size under whose SHA1 something is stored, and leaves out none that was there but those that a failed `Exists` denies (WebDAV) |
| `ReceiptCorrect` | a receipt of `PostEntries` names its files in order, all of them stored, and whole but for other `Put`s of them that write in place |
| `ThresholdsCorrect` | bundling keeps the files within the thresholds, whole with the same exception, and no others |
| `BundlesCorrect` | a zip holds what was asked for, whole, once and in order, unless `Spoilt` |
| `TempZipCorrect` | the lifetime of temporary zips |
| `PromiseKept` | `AppStash` implements `StashPromise`, which excepts what a backend overlooks, unless `Spoilt` |
| `StepsBounded` | a request takes a bounded number of steps, retries included |

`Spoilt` says that writes are not atomic, reads may break off or closing a zip may
fail: `bundle_retry` shows why such a condition is needed.

`LocalBlobstore_proofs` and `LocalContract_proofs`:

| Theorem | Statement |
|---|---|
| `TypeCorrect` | `Spec => []TypeOK` |
| `SamePutsCorrect` | overlapping `Put`s of one content leave the file whole, although each truncates it |
| `StepsBounded` | a call makes a bounded number of system calls, whatever becomes of the files it has open |
| `ContractKept` | `Spec => KeepsContract`: system calls, failures and kills, seen by the callers, are the operations of `BlobstoreCalls`, and no failure is misreported |
| `CallsAreOperations` | and each call, from its start to its end, is one operation of `Blobstore` with the answer it gets |

`RemoteBlobstore_proofs` and `RemoteContract_proofs`, on each of the six backends:

| Theorem | Statement |
|---|---|
| `TypeCorrect` | `Spec => []TypeOK` |
| `SamePutsCorrect` | overlapping `Put`s of one content leave it whole, also where they share the IDs of their blocks |
| `NoBucketCorrect` | no `NotFound` because of a missing bucket, misreports excepted |
| `StepsBounded` | a call sends a bounded number of requests, whatever it is answered and whatever others store |
| `ContractKept` | `Spec => KeepsContract`, request by request, with the answers the callers get; they stand for failures only where `MisreportsOf` says so |
| `CallsAreOperations` | and each call, from its first request to its end, is one operation of `Blobstore` with the answer it gets or, where some backend misreports the failure of the method by that answer, one that failed |

`AtomicCall_proofs`:

| Theorem | Statement |
|---|---|
| `CallIsAtomic` | `ASpec => ActsAtOnce`: a call that keeps the contract of `BlobstoreCalls` in each step is to its caller one operation of `Blobstore`; with an answer that stands for a failure, which is then one of `Misreports`, one that failed |

`SignedURLs_proofs`:

| Theorem | Statement |
|---|---|
| `TypeCorrect` | `Spec => []TypeOK` |
| `DownloadsCorrect` | a URL downloads the resource it was signed for or nothing; nothing after the hour; before, the resource as it is |
| `ShelvesKept` | `Spec => KeepsShelves`: one bucket is as good as a shelf for every resource, and a signed URL as a grant for an hour, for a droplet's name one for the droplets under it |

Assumptions: the named `ASSUME`s of the modules, which say what the constants
are and are evaluated by TLC in the runs, and four conditions stated in the theorems:
`~PartialWrites` in `KeysCorrect`; `~Spoilt` in `BundlesCorrect` and `PromiseKept` of `AppStash`;
`NoSelfCopy` in `ContractKept` and `CallsAreOperations`, for the remote backends only of
WebDAV; and `Finite` in `StepsBounded` of the local backend: directories are finite and
there is a longest content, without which no bound exists. The local backend truncates
the destination of a copy, and WebDAV empties it, before they read the source:
`local_self_copy` shows what a copy of a resource onto itself does.

### 5.1 The arguments

None of the properties is inductive, and `IndInv` is no property of its own: it adds
what is true between the steps, and TLC can check it as an invariant of the runs as
well. Each proof is a strengthening, `Init` implies
it and every action keeps it, one step per action and one lemma per part.

**Resource handler.** That a READY package was stored, say, needs to know that a
goroutine at `notifyReady` has stored its bits, that it announced the upload before,
and that only uploads get there. `IndInv` adds this in named parts: `Progress`
says of each request what is true at its point of the handler (`AtPoint`), what
its verdict says (`Truthful`) and whose its temporary file is (`TempOwned`);
`PutsContent` and `WriterOwnsKey` tie the writes of a request to its operation;
`NullUpdaterIsNull` says that the Cloud Controller hears nothing of keys outside
`Notified`. First come
lemmas on what the contracts leave alone (`PutFrame`, `CopyFrame`,
`DeleteFrame`, `DeleteDirFrame`, `UpdateFrame`) and on what a step of one request
leaves alone of the others (`WorkFrame`). `PromiseKept` maps each action to the
step of `UploadPromise` it makes under `IndInv`; the one subtle case is that a write
of another kind of request is only allowed because that request exists and is no
upload.

**App-stash.** The lists a request works off are ends of the lists it came with
(`EndOf`), so "how many are done" is a difference of lengths. `IndInv` says per request
where it can be (`Control`), which temporary zip it holds (`Tempfile`), that what it saw on
its arrival is still there (`Saw`, the part that needs that nothing is ever
deleted), and that what it has listed or zipped is what is done so far (`Listed`,
`Zipped`, `Exact`); and of the stash, that it is content-addressed but for the parts of files that running
or failed `Put`s account for (`Accounted`), and that files beyond the thresholds come from `PostEntries` (`OthersAreEntries`). The
refinement then needs, of every answer, that it holds of the stash now (`Right`) and
can therefore be told.

**Same Puts.** On the local backend inodes have owners: the path itself or the call
that created one (`Owned`). `Together` then says of all that write one content
under one key that those who have created the file share it, and that what one
of them has copied is there: the last to create it has emptied it, and after that
everybody writes the same blocks, so that this one's return leaves the file whole. On Azure
the blocks staged under an ID can only be of the one content, and it is stored or
somebody is still at it (`Converging`).

**The contract.** `BlobstoreCalls` lets a running call disturb the keys it writes, and
asks for the contract when it returns, on keys no other call wrote meanwhile. So the
invariant needs two kinds of facts: that running calls know each other as
writers (`Crowded`), and, of each call on keys of its own, that what it knows is
still so (`Own`). For the local backend that is: the file it opened is the one
under the path (`Reading`), what it has copied or read so far is the beginning of
its source (`Writing`, `Seeing`), what it no longer has to remove is gone (`Removing`). For
the remote ones: what was not found is still not there while the bucket is asked for
(`Seen`), the blocks sent are staged (`Built`), what a `DeleteDir` has passed is gone or
an error was noted (`Swept`), and only calls that return can misreport (`Honest`). One
lemma per backend (`S3Effect`, `AzureEffect`, ...) bounds what a request can change at
all (`Effect`).

**Calls as operations.** What `BlobstoreCalls` says step by step adds up because of
what holds in between (`Since`): as long as the call runs, each key that is its alone
is as it was when the call began, or as the call can have made it (`Touched`): torn,
the content it puts or copies, absent. A copy needs a source that nobody writes,
and that is whole, since a part of a torn resource can look like anything: that is
`Alone`. The result then decides: `nil` is the contract of the last step, an error
allows everything in `Touched`, also when the answer misreports it, and `notFound` and `noSpace` need what the contract
says of calls that have written. `CallsAreOperations` carries
this to a backend by its refinement: the history variable `seen` watches what the
refinement stores.

**Steps.** `StepsAreBounded` has a number `Left` that every step of a call lowers and
no step of another call raises. It is bounded below only because of an invariant on
what the two have in common. On the local backend (`SizeInv`) no file is ever longer than the
longest content, and no offset further on: whoever copies extends a file only to
where its source ends, so that reading a file that others write does not run
after an end that moves on. On the remote ones (`BoundInv`) the marker of a listing lies
within the listing and a further page begins behind it, so that what others store below
the directory can keep `DeleteDir` busy only with keys it has not passed. In
`AppStash` the steps depend on no other request; there `IndInv` says how many retries are
used up, and each file starts with none of them, as each `RetryNotify` of
`CreateTempZipFileFrom` starts with a policy of its own.

**Paths.** Keys are compared element by element: below the root, the third
character of a key tells the types apart (`ThirdCharacter`), because
identifiers have two characters before the first slash of the partition; within a
type a key determines the identifier (`KeysDiffer`). A directory's key is a prefix of an
entry's key exactly if the directory is a prefix of its identifier (`PrefixOfKey`), and
GUIDs of one length are prefixes of nothing but their own entries (`EntriesOfApps`).
Keys that are signed with the prefix that lacks its slash are no keys of any
resource (`MisnamedAreEmpty`), which is why such a URL finds nothing rather than
something else.

### 5.2 What is only model-checked

Liveness (`EveryRequestIsAnswered`, `AnnouncedUploadsGetVerdict`, `CallsReturn`,
`StashAnswers`), which is out of the prover's reach. Of `CallsReturn` and `StashAnswers` the part
that could be wrong for larger instances is proved all the same: by `StepsBounded`, a
call or request that goes on comes to an end. What TLC alone checks is that it
never gets stuck, that is that a step is enabled (`ENABLED`) as long as it has not ended;
which of its steps that is depends on no bound. The handlers of
`ResourceHandler` have no loop but the retries of a `Put`, which `MaxRetries` bounds, and have no such theorem.

## 6. What is not modelled

- The in-memory backend, which serves tests only: a map, whose methods are those of
  `Blobstore` without failures, and whose `DeleteDir` is by prefix as in `InDir`.
- Metrics, logging, authentication and the dashboard: no state the properties
  are about.
- Configuration: read once at the start. What it decides appears as constants and
  in `Paths`; the reading and checking of the YAML is left out.
- The API documentation site: browser scripts, nearly all of them vendored, that the
  service neither serves nor calls. They are the only JavaScript in the repository;
  the service is written in Go.
- File modes and names in zips, the wording of responses, checksums and signatures as
  computations (a content stands for its checksums; SHA1 is taken to be
  injective on the contents of an instance).
- Skipping irregular files of an uploaded zip: the models start from its regular
  ones.
- The size limit of bodies, beyond the refusal itself (`RefuseBody`), and calls that
  hang for ever.

## 7. Plan

1. *Core* (done): `ResourceHandler` over `Blobstore` and `CloudController`, refinement
   of `UploadPromise`; `AppStash`, refinement of `StashPromise`.
2. *Backends* (done): `LocalBlobstore` and `RemoteBlobstore` against `BlobstoreCalls`.
3. *Paths and signed URLs* (done): `Paths` and `SignedURLs` against `Shelves`.
4. *Proofs* (done): every safety property and every refinement of the above; that
   calls are operations, and bounds on their steps.
5. *Left*: package uploads over `ResourceHandler` and `AppStash` composed step by step,
   with one temporary zip changing hands (now each models its side, and `StageUpload` the
   other's outcome); a version of `ResourceHandler` whose calls overlap as in
   `BlobstoreCalls`, to say what racing uploads of different bits can leave behind.

## 8. Running it

```
tlc -config packages.cfg MCResourceHandler.tla      # any run: its .cfg and module
tlapm ResourceHandler_proofs.tla                    # any *_proofs module
```

The module of each run is in `PROJECT.json`.
