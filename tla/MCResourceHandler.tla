------------------------- MODULE MCResourceHandler -------------------------
(***************************************************************************)
(* Small instances of ResourceHandler: the routes of packages, of droplets *)
(* and of buildpack_cache entries, with values for the constants that are  *)
(* not model values.                                                       *)
(***************************************************************************)
EXTENDS ResourceHandler, TLC

CONSTANTS k1, k2, e1, e2, dir, c1, c2, r1, r2, r3

Ask(kind, k, c, src, a) ==
  [kind |-> kind, key |-> k, content |-> c, source |-> src, async |-> a]

Uploads(ks, cs, as) == {Ask("upload", k, c, NoSource, a) : k \in ks, c \in cs, a \in as}
Digests(ks, cs)     == {Ask("digest", k, c, NoSource, FALSE) : k \in ks, c \in cs}
Copies(ks, srcs)    == {Ask("copy", k, NoContent, s, FALSE) : k \in ks, s \in srcs}
Reads(ks, cs)       == {Ask(d, k, c, NoSource, FALSE) : d \in {"get", "head"}, k \in ks, c \in cs}
Deletes(ks)         == {Ask("delete", k, NoContent, NoSource, FALSE) : k \in ks}
DirDeletes(ks)      == {Ask("deleteDir", k, NoContent, NoSource, FALSE) : k \in ks}

\* PUT, GET, HEAD, DELETE of /packages/{identifier}.
PackageOps ==
  Uploads({k1}, {c1, c2}, BOOLEAN) \cup Copies({k1}, {k2, NoSource})
  \cup Reads({k1}, {c1}) \cup Deletes({k1})

\* Uploads to one package only.
UploadOps == Uploads({k1}, {c1, c2}, BOOLEAN)

\* Resources without an updater: buildpack_cache entries e1 and e2 are below
\* dir and can be deleted with it; e1 is also PUT as droplets are, with a
\* Digest header.
PlainOps ==
  Digests({e1}, {c2}) \cup Uploads({e2}, {c1}, {FALSE})
  \cup Copies({e2}, {e1}) \cup Reads({e1}, {c2})
  \cup Deletes({e1}) \cup DirDeletes({dir})

AllOps == PackageOps \cup PlainOps

Tree == [k \in Key |-> IF k = dir THEN {e1, e2} ELSE {}]

Requests == Permutations(Req)
=============================================================================
