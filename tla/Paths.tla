------------------------------- MODULE Paths -------------------------------
(***************************************************************************)
(* Where in a bucket the resources of each type are kept                   *)
(* (blobstores/decorator, cmd/bitsgo/main.go).  A path is the sequence of  *)
(* its characters.  Droplets, buildpack_cache entries and, when it is      *)
(* configured so, the app-stash are in one bucket: what keeps them apart   *)
(* is the prefix of each type and the partitioning of the identifiers.     *)
(* Packages and buildpacks are kept as droplets are, in buckets of their   *)
(* own.                                                                    *)
(***************************************************************************)
EXTENDS Naturals, Sequences, SequencesExt

CONSTANTS
  Char,        \* the characters of paths
  DirectoryKey \* the directory on the WebDAV server

Type == {"droplets", "buildpack_cache", "app_stash"}

\* All the backends are wired as one of these; "objects" are the five stores
\* with a bucket.
Backend == {"local", "webdav", "objects"}

Path == Seq(Char)

Slash == <<"/">>

BuildpackCache == <<"b", "u", "i", "l", "d", "p", "a", "c", "k", "_", "c", "a", "c", "h", "e">>
AppBitsCache == <<"a", "p", "p", "_", "b", "i", "t", "s", "_", "c", "a", "c", "h", "e">>

ASSUME PathsAssumption ==
  /\ {"/", "_", "a", "b", "c", "d", "e", "h", "i", "k", "l", "p", "s", "t", "u"} \subseteq Char
  /\ DirectoryKey \in Path

\* The directories an identifier is put into: its first two characters and
\* its next two, or as many of them as it has.
Partition(id) ==
  IF Len(id) >= 4 THEN SubSeq(id, 1, 2) \o Slash \o SubSeq(id, 3, 4) \o Slash
  ELSE IF Len(id) = 3 THEN SubSeq(id, 1, 2) \o Slash \o SubSeq(id, 3, 3) \o Slash
  ELSE IF Len(id) \in {1, 2} THEN id \o Slash
  ELSE <<>>

pathFor(id) == Partition(id) \o id

\* The prefix of the PrefixingPathBlobstoreDecorator below the partitioning.
TypePrefix(type) ==
  IF type = "buildpack_cache" THEN BuildpackCache \o Slash
  ELSE IF type = "app_stash" THEN AppBitsCache \o Slash
  ELSE <<>>

Root(backend) == IF backend = "webdav" THEN DirectoryKey \o Slash ELSE <<>>

BlobstorePrefix(backend, type) == Root(backend) \o TypePrefix(type)

\* Mutated form: no prefix for buildpack_cache entries.
UnprefixedKey(backend, type, id) == Root(backend) \o pathFor(id)

\* The key under which the decorated blobstore of a type keeps an identifier.
KeyFor(backend, type, id) == BlobstorePrefix(backend, type) \o pathFor(id)

\* What DeleteDir of the decorated blobstore of a type deletes: the files
\* below a directory, or, in a bucket, every key with the prefix.
InDir(backend, type, dir, key) ==
  LET path == KeyFor(backend, type, dir)
  IN  \/ IsPrefix(path, key) /\ (backend = "objects" \/ dir = <<>>)
      \/ IsPrefix(path \o Slash, key)

\* The prefix of the PrefixingPathResourceSigner below the partitioning: for
\* buildpack_cache entries in a bucket it is "buildpack_cache".
SignerPrefix(backend, type) ==
  IF backend = "objects" /\ type = "buildpack_cache"
    THEN BuildpackCache
    ELSE BlobstorePrefix(backend, type)

\* The key whose URL the backend's decorated signer returns.
SignedKey(backend, type, id) == SignerPrefix(backend, type) \o pathFor(id)
=============================================================================
