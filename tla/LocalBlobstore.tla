--------------------------- MODULE LocalBlobstore ---------------------------
(***************************************************************************)
(* The local backend (blobstores/local/local_blobstore.go): resources are  *)
(* files below a path prefix.  A step is one system call: os.Create        *)
(* truncates the file that is there, io.Copy writes a buffer at a time,    *)
(* os.RemoveAll unlinks file after file.  Calls of different requests      *)
(* interleave at every step, a call can fail half way, and the process can *)
(* be killed, which leaves the files as they are.                          *)
(***************************************************************************)
EXTENDS Calls, Naturals, Sequences, FiniteSets

CONSTANTS
  Files,   \* the resources that may be stored when it starts
  Length,  \* Length[c]: the buffers of io.Copy content c takes
  NoFile,  \* no file under a path
  MaxKills \* bounds how often the process is killed

ASSUME LocalAssumption ==
  /\ Files \subseteq [Key -> Content \cup {NoContent}]
  /\ Length \in [Content -> Nat \ {0}]
  /\ NoFile \notin Key \cup Call /\ Key \cap Call = {}
  /\ MaxKills \in Nat

\* A file is an inode; each call creates at most one.
Inode == Key \cup Call

Hole == <<NoContent, 0>>
Block == {Hole} \cup UNION {{<<c, i>> : i \in 1..Length[c]} : c \in Content}
Blocks(c) == [i \in 1..Length[c] |-> <<c, i>>]

VARIABLES
  pc,     \* pc[p]: where p is in the method
  dir,    \* dir[k]: the inode under the path of k
  data,   \* data[n]: the blocks of inode n
  src,    \* src[p]: the inode p has open for reading
  dest,   \* dest[p]: the inode p has open for writing
  off,    \* off[p]: the blocks p has copied
  got,    \* got[p]: the blocks a reader of p's Get has seen
  todo,   \* todo[p]: the paths RemoveAll has still to remove
  kills

fs == <<dir, data>>
fds == <<src, dest, off, got, todo>>
vars == <<calls, pc, fs, fds, kills>>

TypeOK ==
  /\ CallsTypeOK
  /\ pc \in [Call -> {"idle", "open", "create", "copy", "read", "stat", "remove", "done"}]
  /\ dir \in [Key -> Inode \cup {NoFile}]
  /\ data \in [Inode -> Seq(Block)]
  /\ src \in [Call -> Inode \cup {NoFile}]
  /\ dest \in [Call -> Inode \cup {NoFile}]
  /\ off \in [Call -> Nat]
  /\ got \in [Call -> Seq(Block)]
  /\ todo \in [Call -> SUBSET Key]
  /\ kills \in 0..MaxKills

Init ==
  /\ CallsInit
  /\ pc = [p \in Call |-> "idle"]
  /\ \E f \in Files :
       /\ dir = [k \in Key |-> IF f[k] = NoContent THEN NoFile ELSE k]
       /\ data = [n \in Inode |-> IF n \in Key /\ f[n] # NoContent THEN Blocks(f[n]) ELSE <<>>]
  /\ src = [p \in Call |-> NoFile]
  /\ dest = [p \in Call |-> NoFile]
  /\ off = [p \in Call |-> 0]
  /\ got = [p \in Call |-> <<>>]
  /\ todo = [p \in Call |-> {}]
  /\ kills = 0

-----------------------------------------------------------------------------

Goto(p, l) == pc' = [pc EXCEPT ![p] = l] /\ UNCHANGED calls
Answer(p, e) ==
  /\ pc' = [pc EXCEPT ![p] = "done"]
  /\ answer' = [answer EXCEPT ![p] = e]
  /\ UNCHANGED <<job, contended>>

\* What os.RemoveAll is to remove.
Targets(p) == IF Is(p, {"deleteDir"}) THEN Under[job[p].key] ELSE {job[p].key}

Start(p) ==
  /\ Begins(p)
  /\ pc' = [pc EXCEPT ![p] = CASE Is(p, {"put"})            -> "create"
                               [] Is(p, {"copy", "get"})    -> "open"
                               [] Is(p, {"stat", "delete"}) -> "stat"
                               [] Is(p, {"deleteDir"})      -> "remove"]
  /\ todo' = [todo EXCEPT ![p] = Targets(p)]
  /\ UNCHANGED <<fs, src, dest, off, got, kills>>

\* What io.Copy reads from: the bits of a Put, the open file of a Copy or Get.
Source(p) == IF Is(p, {"put"}) THEN Blocks(job[p].content) ELSE data[src[p]]

\* A system call fails; ENOSPC has a result of its own.
Fail(p) ==
  /\ pc[p] \in {"open", "create", "copy", "read", "stat"}
  /\ \/ Answer(p, "error")
     \/ pc[p] = "create" /\ Answer(p, "noSpace")
     \/ pc[p] = "copy" /\ off[p] < Len(Source(p)) /\ Answer(p, "noSpace")
  /\ UNCHANGED <<fs, fds, kills>>

\* Exists and HeadOrRedirectAsGet are a Stat; Delete starts with one.
Stat(p) ==
  /\ pc[p] = "stat"
  /\ \/ dir[job[p].key] = NoFile /\ Answer(p, "notFound")
     \/ dir[job[p].key] # NoFile /\ Is(p, {"stat"}) /\ Answer(p, "nil")
     \/ dir[job[p].key] # NoFile /\ Is(p, {"delete"}) /\ Goto(p, "remove")
  /\ UNCHANGED <<fs, fds, kills>>

\* Copy opens its source before it creates its destination; Get hands the
\* open file to its caller.
Open(p) ==
  LET path == IF Is(p, {"copy"}) THEN job[p].source ELSE job[p].key
  IN /\ pc[p] = "open"
     /\ \/ /\ dir[path] = NoFile
           /\ Answer(p, "notFound")
           /\ UNCHANGED src
        \/ /\ dir[path] # NoFile
           /\ src' = [src EXCEPT ![p] = dir[path]]
           /\ Goto(p, IF Is(p, {"copy"}) THEN "create" ELSE "read")
     /\ UNCHANGED <<fs, dest, off, got, todo, kills>>

\* os.MkdirAll and os.Create: a new file, or the old one with no bytes.
Create(p) ==
  LET n == dir[job[p].key]
  IN /\ pc[p] = "create"
     /\ dest' = [dest EXCEPT ![p] = IF n = NoFile THEN p ELSE n]
     /\ dir' = [dir EXCEPT ![job[p].key] = dest'[p]]
     /\ data' = [data EXCEPT ![dest'[p]] = <<>>]
     /\ Goto(p, "copy")
     /\ UNCHANGED <<src, off, got, todo, kills>>

\* A write at an offset; beyond the end of a file it leaves a hole.
Written(file, i, b) ==
  [j \in 1..(IF i > Len(file) THEN i ELSE Len(file)) |->
     IF j = i THEN b ELSE IF j <= Len(file) THEN file[j] ELSE Hole]

\* Mutated form: the file is opened with O_APPEND.
AppendBlock(p) ==
  /\ pc[p] = "copy"
  /\ off[p] < Len(Source(p))
  /\ data' = [data EXCEPT ![dest[p]] = Append(@, Source(p)[off[p] + 1])]
  /\ off' = [off EXCEPT ![p] = @ + 1]
  /\ UNCHANGED <<calls, pc, dir, src, dest, got, todo, kills>>

CopyBlock(p) ==
  /\ pc[p] = "copy"
  /\ off[p] < Len(Source(p))
  /\ data' = [data EXCEPT ![dest[p]] = Written(@, off[p] + 1, Source(p)[off[p] + 1])]
  /\ off' = [off EXCEPT ![p] = @ + 1]
  /\ UNCHANGED <<calls, pc, dir, src, dest, got, todo, kills>>

\* The caller of Get reads the body.
ReadBlock(p) ==
  /\ pc[p] = "read"
  /\ off[p] < Len(Source(p))
  /\ got' = [got EXCEPT ![p] = Append(@, Source(p)[off[p] + 1])]
  /\ off' = [off EXCEPT ![p] = @ + 1]
  /\ UNCHANGED <<calls, pc, fs, src, dest, todo, kills>>

\* Mutated form: the EOF of the reader is returned as it is.
EndOfFileIsAnError(p) ==
  /\ pc[p] \in {"copy", "read"}
  /\ off[p] >= Len(Source(p))
  /\ Answer(p, "eof")
  /\ UNCHANGED <<fs, fds, kills>>

EndOfFile(p) ==
  /\ pc[p] \in {"copy", "read"}
  /\ off[p] >= Len(Source(p))
  /\ Answer(p, "nil")
  /\ UNCHANGED <<fs, fds, kills>>

\* os.RemoveAll unlinks a file; whoever has it open goes on with the inode.
Unlink(p) ==
  /\ pc[p] = "remove"
  /\ \E k \in todo[p] :
       /\ dir' = [dir EXCEPT ![k] = NoFile]
       /\ todo' = [todo EXCEPT ![p] = @ \ {k}]
  /\ UNCHANGED <<calls, pc, data, src, dest, off, got, kills>>

\* Mutated form: RemoveAll's error is not looked at.
RemovedAnyway(p) ==
  /\ pc[p] = "remove"
  /\ Answer(p, "nil")
  /\ UNCHANGED <<fs, fds, kills>>

\* RemoveAll returns nil when nothing is left below the path, and an error
\* when it could not remove something, or when something was created there.
Removed(p) ==
  /\ pc[p] = "remove"
  /\ \/ todo[p] = {} /\ (\A k \in Under[job[p].key] : dir[k] = NoFile) /\ Answer(p, "nil")
     \/ Answer(p, "error")
  /\ UNCHANGED <<fs, fds, kills>>

Kill ==
  /\ kills < MaxKills
  /\ kills' = kills + 1
  /\ Killed
  /\ pc' = [p \in Call |-> IF Running(p) THEN "done" ELSE pc[p]]
  /\ UNCHANGED <<fs, fds>>

\* What the goroutine of p does next.
Works(p) == \/ Fail(p) \/ Stat(p) \/ Open(p) \/ Create(p)
            \/ CopyBlock(p) \/ ReadBlock(p) \/ EndOfFile(p)
            \/ Unlink(p) \/ Removed(p)

Next == (\E p \in Call : Start(p) \/ Works(p)) \/ Kill

Spec == Init /\ [][Next]_vars

-----------------------------------------------------------------------------
(* What the callers of the blobstore rely on.                               *)

Reads(blocks) ==
  IF \E c \in Content : blocks = Blocks(c)
    THEN CHOOSE c \in Content : blocks = Blocks(c) ELSE Torn

Resource(k) == IF dir[k] = NoFile THEN Absent ELSE Reads(data[dir[k]])

Wrote(p) == pc[p] = "copy" \/ (pc[p] = "remove" /\ todo[p] # Targets(p))

Contract == INSTANCE BlobstoreCalls WITH
  Redirects <- {}, Misreports <- {}, misled <- {},
  blob <- [k \in Key |-> Resource(k)],
  wrote <- [p \in Call |-> Wrote(p)],
  got <- [p \in Call |-> IF Is(p, {"get"}) /\ answer[p] = "nil" THEN Reads(got[p]) ELSE Absent]

\* Every call keeps the contract of Blobstore, step by step, whatever fails
\* half way, whenever the process is killed and whatever other calls do to
\* other keys, and its answer is what happened: this is what ResourceHandler
\* assumes of a call.
KeepsContract == Contract!CSpec

\* Overlapping Puts of the same resource, as two bundles with the same file
\* make of the app-stash, converge: when all of them have returned and none
\* has failed, the resource is whole.
SamePutsConverge ==
  \A k \in Key, c \in Content :
    LET writers == {p \in Call : k \in Writes(p) /\ answer[p] # "idle"}
    IN (writers # {} /\ \A p \in writers : job[p].content = c /\ answer[p] = "nil")
         => Resource(k) = c

\* The most system calls p has still to make: as many writes as the longest
\* content has buffers, and the files of a directory once each.
Longest == CHOOSE n \in {Length[c] : c \in Content} : \A c \in Content : Length[c] <= n
Left(p) ==
  CASE pc[p] = "open"             -> Longest + 3
    [] pc[p] = "create"           -> Longest + 2
    [] pc[p] \in {"copy", "read"} -> Longest - off[p] + 1
    [] pc[p] = "stat"             -> Cardinality(todo[p]) + 2
    [] pc[p] = "remove"           -> Cardinality(todo[p]) + 1
    [] pc[p] \in {"idle", "done"} -> 0

\* Every call comes to its end after so many system calls, whatever others do
\* meanwhile: who copies or reads a file that others write, each at an offset
\* of its own, does not run after an end that moves on.
StepsAreBounded ==
  [][\A p \in Call : Running(p) => Left(p)' \in 0..(Left(p) - (IF Works(p) THEN 1 ELSE 0))]_vars

\* "can be modified by its methods" (blobstores/blobstore_test.go): a Copy that
\* succeeds, one onto itself included, leaves the copied resource intact.
CopiesLeaveTheSourceIntact ==
  [][\A p \in Call : Is(p, {"copy"}) /\ Running(p) =>
       Resource(job[p].source)' = Resource(job[p].source)]_vars
=============================================================================
