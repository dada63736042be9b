----------------------------- MODULE SignedURLs -----------------------------
(***************************************************************************)
(* Resources of several types in one bucket, and the URLs signed for them  *)
(* (sign_handler.go, pathsigner, blobstores/local/signed_urls.go and the   *)
(* wiring in cmd/bitsgo/main.go).  An upload through a signed URL comes    *)
(* back to the bits-service, which checks the signature and routes it to   *)
(* the handler of the type; a download does so with the local backend, and *)
(* else goes to the backend's server, under the key its decorated signer   *)
(* was asked for.  A PUT, signed or not, brings bits, or the name of        *)
(* another resource of the type to be copied; one of a droplet whose name  *)
(* has no slash is stored under that name and a digest, which the client    *)
(* sends with the bits.  URLs are used for what they were signed for.       *)
(* Calls take effect at once and succeed: what happens between them, and   *)
(* when they fail, is ResourceHandler's and the backends' matter.          *)
(***************************************************************************)
EXTENDS Paths

CONSTANTS
  Resource,  \* [type, id] of the resources clients have
  PlainChar, \* the characters [a-z0-9\-] of a droplet's name without digest
  App,       \* the GUIDs of apps
  Content,   \* what the operators of the platform store
  Parcel,    \* what is uploaded through signed URLs
  Absent,    \* no resource under a key
  Refused,   \* the answer to a URL that is not good any more
  Second,    \* ticks of the clock in a second
  Hour,      \* ticks in the hour a URL is signed for
  MaxTime,   \* bounds the clock
  MaxURLs    \* bounds the URLs in circulation

\* The identifier of a buildpack_cache entry is "<app GUID>/<stack>".
EntryOf(a, r) == r.type = "buildpack_cache" /\ IsPrefix(a \o Slash, r.id)

ASSUME URLAssumption ==
  /\ Resource \subseteq [type : Type, id : Path]
  /\ App \subseteq Path
  /\ PlainChar \subseteq Char \ {"/"}
  /\ \A r \in Resource : Len(r.id) >= 4 /\ r.id[1] # "/"
  /\ \A r \in Resource : r.type = "buildpack_cache" => \E a \in App : EntryOf(a, r)
  /\ \A a, b \in App : Len(a) >= 4 /\ Len(a) = Len(b)
  /\ Absent \notin Content \cup Parcel
  /\ Refused \notin Content \cup Parcel \cup {Absent}
  /\ Second \in Nat \ {0} /\ Hour \in Nat /\ Hour % Second = 0
  /\ MaxTime \in Nat /\ MaxURLs \in Nat

VARIABLES
  backend, \* how the bucket is wired, fixed by the configuration
  bucket,  \* bucket[key]: what is stored
  urls,    \* the signed URLs
  now      \* the time, in ticks

vars == <<backend, bucket, urls, now>>

Key(b) == {KeyFor(b, r.type, r.id) : r \in Resource}

KeyOf(r) == KeyFor(backend, r.type, r.id)

\* What was asked for and when, and the last second the URL is good in.
URL == [resource : Resource, verb : {"get", "put"}, since : Nat, expires : Nat]

TypeOK ==
  /\ backend \in Backend
  /\ bucket \in [Key(backend) -> Content \cup Parcel \cup {Absent}]
  /\ urls \subseteq URL
  /\ now \in 0..MaxTime

Init ==
  /\ backend \in Backend
  /\ bucket = [k \in Key(backend) |-> Absent]
  /\ urls = {}
  /\ now = 0

-----------------------------------------------------------------------------
(* What the routes make of a request.                                       *)

\* PUT of such a droplet goes to AddOrReplaceWithDigestInHeader.
TakesDigest(r) == r.type = "droplets" /\ \A i \in DOMAIN r.id : r.id[i] \in PlainChar

\* The droplets <name>/<digest> of a name.
Versions(r) ==
  {s \in Resource : s.type = "droplets" /\ r.type = "droplets" /\ IsPrefix(r.id \o Slash, s.id)}

\* Where a PUT of r is stored; the value of the digest, of which the client only
\* says that it is one, is any.
Targets(r) == IF TakesDigest(r) THEN Versions(r) ELSE {r}

\* Without a form, the body of a PUT names the resource to copy.
Copyable(r) ==
  IF TakesDigest(r) \/ r.type = "app_stash" THEN {}
  ELSE {s \in Resource : s.type = r.type /\ bucket[KeyOf(s)] # Absent}

Store(r, cs) ==
  \E s \in Targets(r), c \in cs \cup {bucket[KeyOf(t)] : t \in Copyable(r)} :
    bucket' = [bucket EXCEPT ![KeyOf(s)] = c]

-----------------------------------------------------------------------------
(* Clients that need no signature.                                          *)

Put(r) == Store(r, Content) /\ UNCHANGED <<backend, urls, now>>

Delete(r) ==
  /\ r.type # "app_stash"
  /\ bucket' = [bucket EXCEPT ![KeyOf(r)] = Absent]
  /\ UNCHANGED <<backend, urls, now>>

\* DELETE of /buildpack_cache/entries/<dir> and, with the empty directory, of
\* /buildpack_cache/entries.
DeleteDir(dir) ==
  /\ bucket' = [k \in Key(backend) |->
                  IF InDir(backend, "buildpack_cache", dir, k) THEN Absent ELSE bucket[k]]
  /\ UNCHANGED <<backend, urls, now>>

-----------------------------------------------------------------------------
(* Signing.                                                                 *)

\* Expiries are cut to whole seconds.
Unix(t) == t - (t % Second)

\* Uploads are always signed by the LocalResourceSigner, downloads with the
\* local backend; such a URL leads through the routes to the handler of the
\* type.
SignedLocally(verb) == verb = "put" \/ backend = "local"

\* Mutated form: the backend's signer is not decorated with a prefix.
KeyWithoutPrefix(r) ==
  IF SignedLocally("get") THEN KeyOf(r) ELSE pathFor(r.id)

\* The key a download of r through a signed URL asks for.
KeyOfURL(r) ==
  IF SignedLocally("get") THEN KeyOf(r) ELSE SignedKey(backend, r.type, r.id)

\* Mutated form: the hour is subtracted.
ExpiriesInThePast(verb) == {Unix(now) - Hour}

\* The vendors' SDKs that take a duration cut it to whole seconds as well.
Expiries(verb) ==
  IF SignedLocally(verb) \/ backend = "webdav"
    THEN {Unix(now + Hour)}
    ELSE {Unix(now + Hour) - s : s \in {0, Second} \cap 0..Unix(now + Hour)}

\* GET /sign/<type>/<id>, verb "get" by default; "post" is signed as "put" is.
\* No URL leads to a resource of the app-stash.
Sign(r, verb) ==
  /\ r.type # "app_stash"
  /\ \E e \in Expiries(verb) :
       urls' = urls \cup {[resource |-> r, verb |-> verb, since |-> now, expires |-> e]}
  /\ UNCHANGED <<backend, bucket, now>>

-----------------------------------------------------------------------------
(* Use of signed URLs.                                                      *)

\* A URL is good up to and including the second it expires in.
SignatureValid(u) == now <= u.expires

\* PUT: the middleware lets a good URL pass, and the routes do with it what
\* they do with any other PUT.
Upload(u) ==
  /\ u.verb = "put"
  /\ SignatureValid(u)
  /\ Store(u.resource, Parcel)
  /\ UNCHANGED <<backend, urls, now>>

\* GET: 403, the resource, or 404.
Download(u) ==
  IF ~SignatureValid(u) THEN Refused
  ELSE IF KeyOfURL(u.resource) \in Key(backend) THEN bucket[KeyOfURL(u.resource)]
  ELSE Absent

Tick ==
  /\ now < MaxTime
  /\ now' = now + 1
  /\ UNCHANGED <<backend, bucket, urls>>

Next ==
  \/ \E r \in Resource : Put(r) \/ Delete(r)
  \/ \E dir \in App \cup {<<>>} : DeleteDir(dir)
  \/ /\ Cardinality(urls) < MaxURLs
     /\ \E r \in Resource, verb \in {"get", "put"} : Sign(r, verb)
  \/ \E u \in urls : Upload(u)
  \/ Tick

Spec == Init /\ [][Next]_vars

-----------------------------------------------------------------------------

\* Is a URL for r, signed by a backend, one for another key?
Misnamed(r) == backend = "objects" /\ r.type = "buildpack_cache"

\* A URL for a download never gets anything but the resource it was signed
\* for, whatever else is kept in the bucket, and nothing after the hour
\* (SignedKey, SignatureValid).  Until two seconds before, it gets the
\* resource as it is, on every backend and for every type but the ones that
\* DownloadsAreOfWhatIsSigned is about.
DownloadsAreExact ==
  \A u \in urls : u.verb = "get" =>
    /\ Download(u) \in {bucket[KeyOf(u.resource)], Absent, Refused}
    /\ now > u.since + Hour => Download(u) = Refused
    /\ now + 2 * Second <= u.since + Hour /\ ~Misnamed(u.resource) =>
         Download(u) = bucket[KeyOf(u.resource)]

\* "where :path is the URL path of the signed entity" (api-doc): a good URL
\* leads to the entity it was signed for.
DownloadsAreOfWhatIsSigned ==
  \A u \in urls :
    u.verb = "get" /\ SignatureValid(u) => Download(u) = bucket[KeyOf(u.resource)]

-----------------------------------------------------------------------------
(* Refinement: one bucket is as good as a shelf for every resource.         *)

CacheOf == [a \in App |-> {r \in Resource : EntryOf(a, r)}]

GrantOf(u) == [resource |-> u.resource, since |-> u.since]

Shelf == INSTANCE Shelves WITH
  Room <- [r \in Resource |-> {r} \cup Versions(r)],
  Kin <- [r \in Resource |-> {s \in Resource : s.type = r.type}],
  Cache <- CacheOf, Lifetime <- Hour,
  shelf <- [r \in Resource |-> bucket[KeyOf(r)]],
  grants <- {GrantOf(u) : u \in {v \in urls : v.verb = "put"}}

\* No operation on a resource, nor the deletion of the buildpack_cache of an
\* app or of all apps, disturbs another resource in the bucket; and what
\* comes in through a signed URL, within an hour, is the resource it was signed
\* for or, for a droplet's name, one under that name: new bits, or a copy of a
\* resource of the type (pathFor, the decorators, main.go's prefixes, SetUpDropletRoutes).
KeepsShelves == Shelf!SSpec
=============================================================================
