------------------------ MODULE LocalBlobstore_proofs -----------------------
(***************************************************************************)
(* Theorems about LocalBlobstore for any calls, contents and directories.  *)
(***************************************************************************)
EXTENDS LocalBlobstore, FiniteSetTheorems, TLAPS

-----------------------------------------------------------------------------
(* Where a call is, and which files it has open.                            *)

Result == {"nil", "notFound", "noSpace", "error"}
Busy == {"open", "create", "copy", "read", "stat", "remove"}

Control ==
  \A p \in Call :
    /\ pc[p] = "idle" <=> answer[p] = "idle"
    /\ pc[p] \in Busy <=> answer[p] = "running"
    /\ pc[p] = "open" => Is(p, {"copy", "get"})
    /\ pc[p] \in {"create", "copy"} => Is(p, {"put", "copy"})
    /\ pc[p] = "read" => Is(p, {"get"})
    /\ pc[p] = "stat" => Is(p, {"stat", "delete"})
    /\ pc[p] = "remove" => Is(p, {"delete", "deleteDir"})
    /\ todo[p] \subseteq Targets(p)

Opened ==
  \A p \in Call :
    /\ pc[p] \in {"create", "copy", "read"} /\ ~Is(p, {"put"}) => src[p] \in Inode
    /\ pc[p] = "copy" => dest[p] \in Inode
    /\ pc[p] \in {"idle", "open", "create", "stat", "remove"} => off[p] = 0

\* An inode belongs to a path: its own, or that of the call that created it.
Of(n, k) == n = NoFile \/ n = k \/ (n \in Call /\ job[n].key = k)
Owned == /\ \A k \in Key : Of(dir[k], k)
         /\ \A p \in Call : Of(dest[p], job[p].key)

TypeInv == TypeOK /\ Control /\ Opened /\ Owned

-----------------------------------------------------------------------------
(* Types.                                                                   *)

\* A content is a sequence of blocks, as long as Length says.
LEMMA BlocksTyped ==
  ASSUME NEW c \in Content
  PROVE  /\ Blocks(c) \in Seq(Block) /\ Len(Blocks(c)) = Length[c]
         /\ Length[c] \in Nat \ {0}
         /\ \A i \in 1..Length[c] : Blocks(c)[i] = <<c, i>>
  <1>1. Length[c] \in Nat \ {0}
    BY LocalAssumption
  <1>2. \A i \in 1..Length[c] : <<c, i>> \in Block
    BY DEF Block
  <1>3. QED
    BY <1>1, <1>2 DEF Blocks

\* What the assumptions say of a call.
LEMMA CallTypes ==
  ASSUME TypeInv, NEW p \in Call
  PROVE  /\ job[p] \in Job /\ job[p] \in Jobs
         /\ job[p].key \in Key /\ job[p].source \in Key
         /\ Is(p, {"put"}) => job[p].content \in Content
         /\ job[p].content \in Content => Is(p, {"put"})
         /\ Under[job[p].key] \subseteq Key /\ Targets(p) \subseteq Key
         /\ job[p].kind \in {"put", "copy", "get", "stat", "delete", "deleteDir"}
  <1>1. job[p] \in Jobs
    BY DEF TypeInv, TypeOK, CallsTypeOK
  <1>2. job[p] \in Job /\ (job[p].kind = "put" <=> job[p].content \in Content)
    BY <1>1, CallsAssumption
  <1>3. job[p].key \in Key
    BY <1>2 DEF Job
  <1>4. Under[job[p].key] \subseteq Key
    BY <1>3, ResourcesAssumption
  <1>5. QED
    BY <1>1, <1>2, <1>3, <1>4 DEF Job, Is, Targets

\* What a call writes.
LEMMA WritesWhat ==
  ASSUME NEW p \in Call
  PROVE  /\ Is(p, {"put", "copy", "delete"}) => Writes(p) = {job[p].key}
         /\ Is(p, {"deleteDir"}) => Writes(p) = Under[job[p].key]
         /\ Is(p, {"get"}) \/ Is(p, {"stat"}) => Writes(p) = {}
  BY DEF Is, Writes

\* What is copied consists of blocks.
LEMMA SourceTyped ==
  ASSUME TypeInv, NEW p \in Call, pc[p] \in {"copy", "read"}
  PROVE  Source(p) \in Seq(Block)
  <1>1. CASE Is(p, {"put"})
    BY <1>1, CallTypes, BlocksTyped DEF Source
  <1>2. CASE ~Is(p, {"put"})
    BY <1>2 DEF Source, TypeInv, Opened, TypeOK
  <1>3. QED
    BY <1>1, <1>2

\* A write at an offset.
LEMMA WrittenTyped ==
  ASSUME NEW file \in Seq(Block), NEW i \in Nat \ {0}, NEW b \in Block
  PROVE  /\ Written(file, i, b) \in Seq(Block)
         /\ Len(Written(file, i, b)) = IF i > Len(file) THEN i ELSE Len(file)
         /\ Written(file, i, b)[i] = b
         /\ \A j \in 1..Len(file) : j # i => Written(file, i, b)[j] = file[j]
  <1> DEFINE n == IF i > Len(file) THEN i ELSE Len(file)
  <1>1. n \in Nat /\ i \in 1..n /\ 1..Len(file) \subseteq 1..n
    OBVIOUS
  <1>2. Hole \in Block /\ \A j \in 1..Len(file) : file[j] \in Block
    BY DEF Block
  <1>3. Written(file, i, b) = [j \in 1..n |-> IF j = i THEN b ELSE IF j <= Len(file) THEN file[j] ELSE Hole]
    BY DEF Written
  <1> HIDE DEF n
  <1>4. \A j \in 1..n : j <= Len(file) => j \in 1..Len(file)
    BY <1>1
  <1>5. Written(file, i, b) \in [1..n -> Block]
    BY <1>2, <1>3, <1>4
  <1>6. QED
    BY <1>1, <1>3, <1>5 DEF n

-----------------------------------------------------------------------------
(* Type correctness.                                                        *)

\* Initially nothing is stored and nothing runs.
LEMMA TypeInit == Init => TypeInv
  <1> SUFFICES ASSUME Init PROVE TypeInv
    OBVIOUS
  <1>1. CallsTypeOK
    BY DEF Init, CallsInit, CallsTypeOK
  <1>2. PICK f \in Files :
          /\ dir = [k \in Key |-> IF f[k] = NoContent THEN NoFile ELSE k]
          /\ data = [n \in Inode |-> IF n \in Key /\ f[n] # NoContent THEN Blocks(f[n]) ELSE <<>>]
    BY DEF Init
  <1>3. f \in [Key -> Content \cup {NoContent}]
    BY LocalAssumption
  <1>4. dir \in [Key -> Inode \cup {NoFile}] /\ \A k \in Key : Of(dir[k], k)
    BY <1>2 DEF Inode, Of
  <1>5. data \in [Inode -> Seq(Block)]
    <2>1. \A n \in Inode : n \in Key /\ f[n] # NoContent => Blocks(f[n]) \in Seq(Block)
      BY <1>3, BlocksTyped
    <2>2. <<>> \in Seq(Block)
      OBVIOUS
    <2>3. QED
      BY <1>2, <2>1, <2>2
  <1>6. /\ pc \in [Call -> {"idle", "open", "create", "copy", "read", "stat", "remove", "done"}]
        /\ src \in [Call -> Inode \cup {NoFile}]
        /\ dest \in [Call -> Inode \cup {NoFile}]
        /\ off \in [Call -> Nat]
        /\ got \in [Call -> Seq(Block)]
        /\ todo \in [Call -> SUBSET Key]
        /\ kills \in 0..MaxKills
    BY LocalAssumption DEF Init
  <1>7. Control
    BY DEF Control, Init, CallsInit, Busy
  <1>8. Opened
    BY DEF Opened, Init
  <1>9. Owned
    BY <1>4 DEF Owned, Of, Init
  <1>10. QED
    BY <1>1, <1>4, <1>5, <1>6, <1>7, <1>8, <1>9 DEF TypeInv, TypeOK

\* A call that returns and changes nothing.
LEMMA Returns ==
  ASSUME TypeInv, NEW p \in Call, pc[p] \in Busy, NEW e \in Result, Answer(p, e),
         UNCHANGED <<fs, fds, kills>>
  PROVE  TypeInv'
  <1>1. CallsTypeOK'
    BY DEF Answer, Result, TypeInv, TypeOK, CallsTypeOK
  <1>2. pc' \in [Call -> {"idle", "open", "create", "copy", "read", "stat", "remove", "done"}]
    BY DEF Answer, TypeInv, TypeOK
  <1>3. Control'
    BY DEF Answer, Result, Busy, Control, Is, Targets, fds, TypeInv, TypeOK, CallsTypeOK
  <1>4. Opened'
    BY DEF Answer, Opened, Is, fs, fds, TypeInv, TypeOK
  <1>5. Owned'
    BY DEF Answer, Owned, Of, fs, fds, TypeInv
  <1>6. QED
    BY <1>1, <1>2, <1>3, <1>4, <1>5 DEF TypeInv, TypeOK, fs, fds

\* One lemma for each action: it keeps the types, where the call is and whose its inodes are.
LEMMA TypeFail ==
  ASSUME TypeInv, NEW p \in Call, Fail(p)
  PROVE  TypeInv'
  BY Returns DEF Fail, Busy, Result

LEMMA TypeStat ==
  ASSUME TypeInv, NEW p \in Call, Stat(p)
  PROVE  TypeInv'
  <1>1. CASE \E e \in {"notFound", "nil"} : Answer(p, e)
    BY <1>1, Returns DEF Stat, Busy, Result
  <1>2. CASE Is(p, {"delete"}) /\ Goto(p, "remove")
    <2>1. TypeOK'
      BY <1>2 DEF Stat, Goto, calls, fs, fds, TypeInv, TypeOK, CallsTypeOK
    <2>2. Control'
      BY <1>2 DEF Stat, Goto, calls, fds, Busy, Control, Is, Targets, TypeInv, TypeOK
    <2>3. Opened'
      BY <1>2 DEF Stat, Goto, calls, fs, fds, Opened, Is, TypeInv, TypeOK
    <2>4. Owned'
      BY <1>2 DEF Stat, Goto, calls, fs, fds, Owned, Of, TypeInv
    <2>5. QED
      BY <2>1, <2>2, <2>3, <2>4 DEF TypeInv
  <1>3. QED
    BY <1>1, <1>2 DEF Stat

LEMMA TypeOpen ==
  ASSUME TypeInv, NEW p \in Call, Open(p)
  PROVE  TypeInv'
  <1> DEFINE path == IF Is(p, {"copy"}) THEN job[p].source ELSE job[p].key
             next == IF Is(p, {"copy"}) THEN "create" ELSE "read"
  <1>1. CASE Answer(p, "notFound") /\ UNCHANGED src
    BY <1>1, Returns DEF Open, Busy, Result, fs, fds
  <1>2. CASE dir[path] # NoFile /\ src' = [src EXCEPT ![p] = dir[path]] /\ Goto(p, next)
    <2>1. path \in Key /\ dir[path] \in Inode
      BY <1>2, CallTypes DEF TypeInv, TypeOK
    <2>2. pc' = [pc EXCEPT ![p] = next] /\ UNCHANGED calls
      BY <1>2 DEF Goto
    <2>3. TypeOK'
      BY <1>2, <2>1, <2>2 DEF Open, calls, fs, TypeInv, TypeOK, CallsTypeOK
    <2>4. pc[p] = "open" /\ Is(p, {"copy", "get"})
      BY DEF Open, TypeInv, Control
    <2>5. Control'
      BY <2>2, <2>4 DEF Open, calls, Busy, Control, Is, Targets, TypeInv, TypeOK
    <2>6. Opened'
      BY <1>2, <2>1, <2>2, <2>4 DEF Open, calls, fs, Opened, Is, TypeInv, TypeOK
    <2>7. Owned'
      BY <2>2 DEF Open, calls, fs, Owned, Of, TypeInv
    <2>8. QED
      BY <2>3, <2>5, <2>6, <2>7 DEF TypeInv
  <1>3. QED
    BY <1>1, <1>2 DEF Open

\* What os.Create opens.
LEMMA CreateOpens ==
  ASSUME TypeInv, NEW p \in Call, Create(p)
  PROVE  LET n == IF dir[job[p].key] = NoFile THEN p ELSE dir[job[p].key]
         IN  /\ n \in Inode /\ Of(n, job[p].key)
             /\ dest' = [dest EXCEPT ![p] = n]
             /\ dir' = [dir EXCEPT ![job[p].key] = n]
             /\ data' = [data EXCEPT ![n] = <<>>]
  <1>1. job[p].key \in Key /\ dir[job[p].key] \in Inode \cup {NoFile} /\ Of(dir[job[p].key], job[p].key)
    BY CallTypes DEF TypeInv, TypeOK, Owned
  <1> DEFINE n == IF dir[job[p].key] = NoFile THEN p ELSE dir[job[p].key]
  <1>2. n \in Inode /\ Of(n, job[p].key)
    BY <1>1 DEF Inode, Of
  <1>3. dest' = [dest EXCEPT ![p] = n]
    BY DEF Create
  <1>4. dest'[p] = n
    BY <1>3 DEF TypeInv, TypeOK
  <1>5. QED
    BY <1>2, <1>3, <1>4 DEF Create

LEMMA TypeCreate ==
  ASSUME TypeInv, NEW p \in Call, Create(p)
  PROVE  TypeInv'
  <1> DEFINE n == IF dir[job[p].key] = NoFile THEN p ELSE dir[job[p].key]
  <1>1. /\ n \in Inode /\ Of(n, job[p].key)
        /\ dest' = [dest EXCEPT ![p] = n]
        /\ dir' = [dir EXCEPT ![job[p].key] = n]
        /\ data' = [data EXCEPT ![n] = <<>>]
    BY CreateOpens
  <1> HIDE DEF n
  <1>2. /\ pc[p] = "create" /\ Is(p, {"put", "copy"})
        /\ pc' = [pc EXCEPT ![p] = "copy"] /\ UNCHANGED <<job, answer, contended>>
    BY DEF Create, Goto, calls, TypeInv, Control
  <1>3. TypeOK'
    <2>1. <<>> \in Seq(Block)
      OBVIOUS
    <2>2. data' \in [Inode -> Seq(Block)]
      BY <1>1, <2>1 DEF TypeInv, TypeOK
    <2>3. /\ dir' \in [Key -> Inode \cup {NoFile}]
          /\ dest' \in [Call -> Inode \cup {NoFile}]
      BY <1>1 DEF TypeInv, TypeOK
    <2>4. pc' \in [Call -> {"idle", "open", "create", "copy", "read", "stat", "remove", "done"}]
      BY <1>2 DEF TypeInv, TypeOK
    <2>5. CallsTypeOK'
      BY <1>2 DEF TypeInv, TypeOK, CallsTypeOK
    <2>6. QED
      BY <2>2, <2>3, <2>4, <2>5 DEF Create, TypeInv, TypeOK
  <1>4. Control'
    BY <1>2 DEF Create, Busy, Control, Is, Targets, TypeInv, TypeOK
  <1>5. Opened'
    BY <1>1, <1>2 DEF Create, Opened, Is, TypeInv, TypeOK
  <1>6. Owned'
    BY <1>1, <1>2 DEF Owned, Of, TypeInv, TypeOK
  <1>7. QED
    BY <1>3, <1>4, <1>5, <1>6 DEF TypeInv

\* A block is copied or read.
LEMMA MoreTypes ==
  ASSUME TypeInv, NEW p \in Call, pc[p] \in {"copy", "read"}, off[p] < Len(Source(p)),
         off' = [off EXCEPT ![p] = @ + 1],
         UNCHANGED <<calls, pc, dir, src, dest, todo, kills>>,
         data' \in [Inode -> Seq(Block)], got' \in [Call -> Seq(Block)]
  PROVE  TypeInv'
  <1>1. TypeOK'
    <2>1. off' \in [Call -> Nat] /\ CallsTypeOK'
      BY DEF calls, TypeInv, TypeOK, CallsTypeOK
    <2>2. QED
      BY <2>1 DEF TypeInv, TypeOK
  <1>2. Control'
    BY DEF calls, Control, Is, Targets, TypeInv
  <1>3. Opened'
    BY DEF calls, Opened, Is, TypeInv, TypeOK
  <1>4. Owned'
    BY DEF calls, Owned, Of, TypeInv
  <1>5. QED
    BY <1>1, <1>2, <1>3, <1>4 DEF TypeInv

\* The block that is next.
LEMMA NextBlock ==
  ASSUME TypeInv, NEW p \in Call, pc[p] \in {"copy", "read"}, off[p] < Len(Source(p))
  PROVE  off[p] \in Nat /\ off[p] + 1 \in Nat \ {0} /\ Source(p)[off[p] + 1] \in Block
  <1>1. off[p] \in Nat /\ Source(p) \in Seq(Block)
    BY SourceTyped DEF TypeInv, TypeOK
  <1>2. off[p] + 1 \in 1..Len(Source(p))
    BY <1>1
  <1>3. QED
    BY <1>1, <1>2

LEMMA TypeCopyBlock ==
  ASSUME TypeInv, NEW p \in Call, CopyBlock(p)
  PROVE  TypeInv'
  <1>1. dest[p] \in Inode /\ data[dest[p]] \in Seq(Block)
    BY DEF CopyBlock, TypeInv, TypeOK, Opened
  <1>2. Written(data[dest[p]], off[p] + 1, Source(p)[off[p] + 1]) \in Seq(Block)
    BY <1>1, NextBlock, WrittenTyped DEF CopyBlock
  <1>3. data' \in [Inode -> Seq(Block)] /\ got' \in [Call -> Seq(Block)]
    BY <1>2 DEF CopyBlock, TypeInv, TypeOK
  <1>4. QED
    BY <1>3, MoreTypes DEF CopyBlock

LEMMA TypeReadBlock ==
  ASSUME TypeInv, NEW p \in Call, ReadBlock(p)
  PROVE  TypeInv'
  <1>1. Append(got[p], Source(p)[off[p] + 1]) \in Seq(Block)
    BY NextBlock DEF ReadBlock, TypeInv, TypeOK
  <1>2. data' \in [Inode -> Seq(Block)] /\ got' \in [Call -> Seq(Block)]
    BY <1>1 DEF ReadBlock, fs, TypeInv, TypeOK
  <1>3. QED
    BY <1>2, MoreTypes DEF ReadBlock, fs

LEMMA TypeEndOfFile ==
  ASSUME TypeInv, NEW p \in Call, EndOfFile(p)
  PROVE  TypeInv'
  BY Returns DEF EndOfFile, Busy, Result

LEMMA TypeUnlink ==
  ASSUME TypeInv, NEW p \in Call, Unlink(p)
  PROVE  TypeInv'
  <1>1. PICK k \in todo[p] : /\ dir' = [dir EXCEPT ![k] = NoFile]
                             /\ todo' = [todo EXCEPT ![p] = @ \ {k}]
    BY DEF Unlink
  <1>2. k \in Key /\ todo[p] \subseteq Key
    BY DEF TypeInv, TypeOK
  <1>3. TypeOK'
    BY <1>1, <1>2 DEF Unlink, calls, TypeInv, TypeOK, CallsTypeOK
  <1>4. Control'
    BY <1>1 DEF Unlink, calls, Control, Is, Targets, TypeInv, TypeOK
  <1>5. Opened'
    BY DEF Unlink, calls, Opened, Is, TypeInv
  <1>6. Owned'
    BY <1>1, <1>2 DEF Unlink, calls, Owned, Of, TypeInv, TypeOK
  <1>7. QED
    BY <1>3, <1>4, <1>5, <1>6 DEF TypeInv

LEMMA TypeRemoved ==
  ASSUME TypeInv, NEW p \in Call, Removed(p)
  PROVE  TypeInv'
  BY Returns DEF Removed, Busy, Result

LEMMA TypeStart ==
  ASSUME TypeInv, NEW p \in Call, Start(p)
  PROVE  TypeInv'
  <1>1. \A q \in Call : Writes(q) \subseteq Key
    BY CallTypes, WritesWhat DEF Writes
  <1>2. contended' \in [Call -> SUBSET Key]
    BY <1>1 DEF Start, Begins, TypeInv, TypeOK, CallsTypeOK
  <1>3. CallsTypeOK'
    BY <1>2 DEF Start, Begins, TypeInv, TypeOK, CallsTypeOK
  <1>4. PICK l \in {"create", "open", "stat", "remove"} :
          /\ pc' = [pc EXCEPT ![p] = l]
          /\ l = "create" => Is(p, {"put"})
          /\ l = "open" => Is(p, {"copy", "get"})
          /\ l = "stat" => Is(p, {"stat", "delete"})
          /\ l = "remove" => Is(p, {"deleteDir"})
    <2>1. CASE Is(p, {"put"})
      BY <2>1 DEF Start, Is
    <2>2. CASE Is(p, {"copy", "get"})
      BY <2>2 DEF Start, Is
    <2>3. CASE Is(p, {"stat", "delete"})
      BY <2>3 DEF Start, Is
    <2>4. CASE Is(p, {"deleteDir"})
      BY <2>4 DEF Start, Is
    <2>5. QED
      BY <2>1, <2>2, <2>3, <2>4, CallTypes DEF Is
  <1>5. /\ pc[p] = "idle" /\ answer' = [answer EXCEPT ![p] = "running"] /\ UNCHANGED job
        /\ todo' = [todo EXCEPT ![p] = Targets(p)]
    BY DEF Start, Begins, TypeInv, Control
  <1>6. TypeOK'
    BY <1>3, <1>4, <1>5, CallTypes DEF Start, fs, TypeInv, TypeOK
  <1>7. Control'
    BY <1>4, <1>5 DEF Control, Busy, Is, Targets, TypeInv, TypeOK, CallsTypeOK
  <1>8. Opened'
    BY <1>4, <1>5 DEF Start, Opened, Is, TypeInv, TypeOK
  <1>9. Owned'
    BY <1>5 DEF Start, fs, Owned, Of, TypeInv
  <1>10. QED
    BY <1>6, <1>7, <1>8, <1>9 DEF TypeInv

LEMMA TypeKill ==
  ASSUME TypeInv, Kill
  PROVE  TypeInv'
  <1>1. CallsTypeOK'
    BY DEF Kill, Killed, TypeInv, TypeOK, CallsTypeOK
  <1>2. pc' \in [Call -> {"idle", "open", "create", "copy", "read", "stat", "remove", "done"}]
    BY DEF Kill, TypeInv, TypeOK
  <1>3. Control'
    BY DEF Kill, Killed, Running, Busy, Control, Is, Targets, fds, TypeInv, TypeOK, CallsTypeOK
  <1>4. Opened'
    BY DEF Kill, Killed, Running, Opened, Is, fs, fds, TypeInv, TypeOK
  <1>5. Owned'
    BY DEF Kill, Killed, Owned, Of, fs, fds, TypeInv
  <1>6. kills' \in 0..MaxKills
    BY LocalAssumption DEF Kill, TypeInv, TypeOK
  <1>7. QED
    BY <1>1, <1>2, <1>3, <1>4, <1>5, <1>6 DEF Kill, TypeInv, TypeOK, fs, fds

\* All steps together.
LEMMA TypeStep == TypeInv /\ [Next]_vars => TypeInv'
  <1> SUFFICES ASSUME TypeInv, [Next]_vars PROVE TypeInv'
    OBVIOUS
  <1>1. CASE UNCHANGED vars
    <2>1. TypeOK'
      BY <1>1 DEF vars, calls, fs, fds, TypeInv, TypeOK, CallsTypeOK
    <2>2. Control' /\ Opened' /\ Owned'
      BY <1>1 DEF vars, calls, fs, fds, TypeInv, Control, Opened, Owned, Of, Is, Targets
    <2>3. QED
      BY <2>1, <2>2 DEF TypeInv
  <1>2. QED
    BY <1>1, TypeStart, TypeFail, TypeStat, TypeOpen, TypeCreate, TypeCopyBlock, TypeReadBlock,
       TypeEndOfFile, TypeUnlink, TypeRemoved, TypeKill DEF Next, Works

\* The invariant holds in every behaviour.
LEMMA Typed == Spec => []TypeInv
  BY TypeInit, TypeStep, PTL DEF Spec

\* Every variable stays within its type, wherever system calls fail and the
\* process is killed.
THEOREM TypeCorrect == Spec => []TypeOK
  <1>1. TypeInv => TypeOK
    BY DEF TypeInv
  <1>2. QED
    BY <1>1, Typed, PTL

-----------------------------------------------------------------------------
(* Puts of the same resource converge.                                      *)

\* A step of the goroutine of p, and what it leaves of the others.
Steps(p) == \/ Start(p) \/ Fail(p) \/ Stat(p) \/ Open(p) \/ Create(p)
            \/ CopyBlock(p) \/ ReadBlock(p) \/ EndOfFile(p) \/ Unlink(p) \/ Removed(p)

\* A step of a call leaves the control of the other calls alone.
LEMMA StepIsLocal ==
  ASSUME TypeInv, NEW p \in Call, Steps(p)
  PROVE  /\ UNCHANGED job /\ answer'[p] # "idle"
         /\ answer[p] = "idle" => Start(p)
         /\ \A q \in Call \ {p} : /\ pc'[q] = pc[q] /\ answer'[q] = answer[q]
                                  /\ dest'[q] = dest[q] /\ off'[q] = off[q]
                                  /\ todo'[q] = todo[q]
  <1> USE DEF TypeInv, TypeOK, CallsTypeOK, Control, Busy
  <1>1. CASE Start(p)
    BY <1>1 DEF Start, Begins
  <1>2. CASE Fail(p) \/ Stat(p) \/ EndOfFile(p) \/ Removed(p)
    BY <1>2 DEF Fail, Stat, EndOfFile, Removed, Answer, Goto, calls, fds
  <1>3. CASE Open(p)
    BY <1>3 DEF Open, Answer, Goto, calls
  <1>4. CASE Create(p)
    BY <1>4 DEF Create, Goto, calls
  <1>5. CASE CopyBlock(p) \/ ReadBlock(p) \/ Unlink(p)
    BY <1>5 DEF CopyBlock, ReadBlock, Unlink, calls
  <1>6. QED
    BY <1>1, <1>2, <1>3, <1>4, <1>5 DEF Steps

\* A call leaves the files of other paths alone: each inode belongs to one.
LEMMA OthersFiles ==
  ASSUME TypeInv, NEW p \in Call, Steps(p), NEW k \in Key, k \notin Writes(p)
  PROVE  dir'[k] = dir[k] /\ (dir[k] # NoFile => data'[dir[k]] = data[dir[k]])
  <1>1. CASE Create(p)
    <2> DEFINE n == IF dir[job[p].key] = NoFile THEN p ELSE dir[job[p].key]
    <2>1. /\ n \in Inode /\ Of(n, job[p].key)
          /\ dir' = [dir EXCEPT ![job[p].key] = n]
          /\ data' = [data EXCEPT ![n] = <<>>]
      BY <1>1, CreateOpens
    <2> HIDE DEF n
    <2>2. k # job[p].key
      BY <1>1, WritesWhat DEF Create, TypeInv, Control, Is
    <2>3. dir'[k] = dir[k]
      BY <2>1, <2>2, CallTypes DEF TypeInv, TypeOK
    <2>4. dir[k] # NoFile => dir[k] # n
      BY <2>1, <2>2, CallTypes, LocalAssumption DEF Of, TypeInv, Owned, Inode
    <2>5. QED
      BY <2>1, <2>3, <2>4 DEF TypeInv, TypeOK
  <1>2. CASE CopyBlock(p)
    <2>1. k # job[p].key /\ dest[p] \in Inode
      BY <1>2, WritesWhat DEF CopyBlock, TypeInv, Control, Opened, Is
    <2>2. dir[k] # NoFile => dir[k] # dest[p]
      BY <2>1, CallTypes, LocalAssumption DEF Of, TypeInv, Owned, Inode
    <2>3. QED
      BY <1>2, <2>1, <2>2 DEF CopyBlock, TypeInv, TypeOK
  <1>3. CASE Unlink(p)
    <2>1. todo[p] \subseteq Writes(p)
      BY <1>3, WritesWhat DEF Unlink, TypeInv, Control, Targets, Is
    <2>2. QED
      BY <1>3, <2>1 DEF Unlink, TypeInv, TypeOK
  <1>4. CASE Start(p) \/ Fail(p) \/ Stat(p) \/ Open(p) \/ ReadBlock(p) \/ EndOfFile(p) \/ Removed(p)
    BY <1>4 DEF Start, Fail, Stat, Open, ReadBlock, EndOfFile, Removed, fs
  <1>5. QED
    BY <1>1, <1>2, <1>3, <1>4 DEF Steps

\* While all that write k have content c and none of them has failed: those
\* that have created their file share it, and what one of them has copied is
\* there, since the last of them emptied it.
Writers(k) == {p \in Call : k \in Writes(p) /\ answer[p] # "idle"}
Copied(k) == {p \in Writers(k) : pc[p] \in {"copy", "done"}}
Agree(k, c) == \A p \in Writers(k) : job[p].content = c /\ answer[p] \in {"running", "nil"}

Shares(p, k, c) ==
  /\ dest[p] = dir[k]
  /\ off[p] <= Length[c]
  /\ pc[p] = "done" => off[p] = Length[c]
IsThere(q, k, c) ==
  /\ off[q] <= Len(data[dir[k]])
  /\ \A j \in 1..off[q] : data[dir[k]][j] = <<c, j>>
Together(k, c) ==
  Copied(k) # {} => /\ dir[k] # NoFile
                    /\ \A p \in Copied(k) : Shares(p, k, c)
                    /\ Len(data[dir[k]]) <= Length[c]
                    /\ \E q \in Copied(k) : IsThere(q, k, c)
Converging(k, c) == Agree(k, c) => Together(k, c)
AllConverge == \A k \in Key, c \in Content : Converging(k, c)

\* Who takes part does not change, but for the one that starts.
LEMMA SameWriters ==
  ASSUME TypeInv, NEW p \in Call, Steps(p), NEW k \in Key, NEW c \in Content, Agree(k, c)'
  PROVE  /\ Agree(k, c)
         /\ Writers(k)' = Writers(k) \cup (IF k \in Writes(p) THEN {p} ELSE {})
         /\ k \in Writes(p) => /\ job[p].content = c /\ Is(p, {"put"}) /\ job[p].key = k
                               /\ answer'[p] \in {"running", "nil"}
  <1>1. \A q \in Call : Writes(q)' = Writes(q)
    BY StepIsLocal DEF Writes, Is
  <1>2. Writers(k)' = Writers(k) \cup (IF k \in Writes(p) THEN {p} ELSE {})
    BY <1>1, StepIsLocal DEF Writers
  <1>3. \A q \in Writers(k) : q # p => job[q].content = c /\ answer[q] \in {"running", "nil"}
    BY <1>2, StepIsLocal DEF Agree, Writers
  <1>4. p \in Writers(k) => answer[p] \in {"running", "nil"} /\ job[p].content = c
    <2>1. p \in Writers(k) => answer[p] = "running"
      <3>1. Start(p) => answer[p] = "idle"
        BY DEF Start, Begins
      <3>2. ~Start(p) => pc[p] \in Busy
        BY DEF Steps, Fail, Stat, Open, Create, CopyBlock, ReadBlock, EndOfFile, Unlink, Removed, Busy
      <3>3. QED
        BY <3>1, <3>2 DEF Writers, TypeInv, Control
    <2>2. QED
      BY <1>2, <2>1, StepIsLocal DEF Agree
  <1>5. ASSUME k \in Writes(p)
        PROVE  /\ job[p].content = c /\ Is(p, {"put"}) /\ job[p].key = k
               /\ answer'[p] \in {"running", "nil"}
    <2>1. job[p].content = c /\ answer'[p] \in {"running", "nil"}
      BY <1>2, <1>5, StepIsLocal DEF Agree
    <2>2. Is(p, {"put"})
      BY <2>1, CallTypes
    <2>3. job[p].key = k
      BY <1>5, <2>2, WritesWhat DEF Is
    <2>4. QED
      BY <2>1, <2>2, <2>3
  <1>6. QED
    BY <1>2, <1>3, <1>4, <1>5 DEF Agree

\* A step on another path disturbs nothing here.
LEMMA TogetherElsewhere ==
  ASSUME TypeInv, NEW p \in Call, Steps(p), NEW k \in Key, NEW c \in Content,
         Agree(k, c)', Together(k, c), k \notin Writes(p)
  PROVE  Together(k, c)'
  <1>1. Writers(k)' = Writers(k) /\ p \notin Writers(k)
    BY SameWriters DEF Writers
  <1>2. \A q \in Writers(k) : pc'[q] = pc[q] /\ dest'[q] = dest[q] /\ off'[q] = off[q]
    BY <1>1, StepIsLocal DEF Writers
  <1>3. Copied(k)' = Copied(k)
    BY <1>1, <1>2 DEF Copied
  <1>4. dir'[k] = dir[k] /\ (dir[k] # NoFile => data'[dir[k]] = data[dir[k]])
    BY OthersFiles
  <1>5. \A q \in Copied(k) : Shares(q, k, c) => Shares(q, k, c)'
    BY <1>2, <1>4 DEF Copied, Shares
  <1>6. dir[k] # NoFile => \A q \in Copied(k) : IsThere(q, k, c) => IsThere(q, k, c)'
    BY <1>2, <1>4 DEF Copied, IsThere
  <1>7. QED
    BY <1>3, <1>4, <1>5, <1>6 DEF Together

\* A Put that starts joins those that write the same content.
LEMMA TogetherStart ==
  ASSUME TypeInv, NEW p \in Call, Start(p), NEW k \in Key, NEW c \in Content,
         Agree(k, c)', Together(k, c), k \in Writes(p)
  PROVE  Together(k, c)'
  <1>1. Steps(p) /\ Is(p, {"put"}) /\ Writers(k)' = Writers(k) \cup {p}
    BY SameWriters DEF Steps
  <1>2. pc' = [pc EXCEPT ![p] = "create"] /\ pc[p] = "idle"
    BY <1>1 DEF Start, Begins, Is, TypeInv, Control
  <1>3. Copied(k)' = Copied(k) /\ p \notin Copied(k)
    BY <1>1, <1>2 DEF Copied, Writers, TypeInv, TypeOK
  <1>4. UNCHANGED <<fs, dest, off>> /\ \A q \in Copied(k) : pc'[q] = pc[q]
    BY <1>2, <1>3 DEF Start, Copied, Writers, TypeInv, TypeOK
  <1>5. QED
    BY <1>3, <1>4 DEF Together, Shares, IsThere, fs

\* Truncating the file leaves an empty part of the content, and every Put at its own offset behind its end.
LEMMA TogetherCreate ==
  ASSUME TypeInv, NEW p \in Call, Create(p), NEW k \in Key, NEW c \in Content,
         Agree(k, c)', Together(k, c), k \in Writes(p)
  PROVE  Together(k, c)'
  <1>1. /\ Steps(p) /\ job[p].key = k /\ p \in Writers(k)
        /\ Writers(k)' = Writers(k)
    BY SameWriters DEF Steps, Writers, Create, TypeInv, Control, Busy
  <1>2. pc[p] = "create" /\ pc' = [pc EXCEPT ![p] = "copy"] /\ off[p] = 0 /\ UNCHANGED off
    BY DEF Create, Goto, TypeInv, Opened
  <1>3. Copied(k)' = Copied(k) \cup {p}
    BY <1>1, <1>2 DEF Copied, Writers, TypeInv, TypeOK
  <1> DEFINE n == IF dir[k] = NoFile THEN p ELSE dir[k]
  <1>4. /\ n \in Inode
        /\ dest' = [dest EXCEPT ![p] = n]
        /\ dir' = [dir EXCEPT ![k] = n]
        /\ data' = [data EXCEPT ![n] = <<>>]
    BY <1>1, CreateOpens
  <1>5. \A q \in Copied(k) : Shares(q, k, c) /\ dir[k] = n /\ q # p
    BY <1>2 DEF Together, Copied
  <1> HIDE DEF n
  <1>6. dir'[k] = n /\ data'[n] = <<>> /\ dest'[p] = n /\ n # NoFile
    BY <1>4, LocalAssumption DEF TypeInv, TypeOK, Inode
  <1>7. Length[c] \in Nat
    BY LocalAssumption
  <1>8. Shares(p, k, c)'
    BY <1>2, <1>6, <1>7 DEF Shares, TypeInv, TypeOK
  <1>9. \A q \in Copied(k) : Shares(q, k, c)'
    BY <1>2, <1>4, <1>5, <1>6 DEF Shares, Copied, Writers, TypeInv, TypeOK
  <1>10. IsThere(p, k, c)' /\ Len(data'[dir'[k]]) = 0
    BY <1>2, <1>6 DEF IsThere
  <1>11. QED
    BY <1>3, <1>6, <1>7, <1>8, <1>9, <1>10 DEF Together

\* A block written at a Put's offset is the block the content has there.
LEMMA TogetherCopyBlock ==
  ASSUME TypeInv, NEW p \in Call, CopyBlock(p), NEW k \in Key, NEW c \in Content,
         Agree(k, c)', Together(k, c), k \in Writes(p)
  PROVE  Together(k, c)'
  <1>1. /\ Is(p, {"put"}) /\ job[p].content = c /\ Writers(k)' = Writers(k) /\ p \in Writers(k)
    BY SameWriters DEF Steps, Writers, CopyBlock, TypeInv, Control, Busy
  <1>2. /\ pc[p] = "copy" /\ UNCHANGED <<pc, dir, dest>> /\ p \in Copied(k)
        /\ Copied(k)' = Copied(k)
    BY <1>1 DEF CopyBlock, Copied
  <1> DEFINE n == dir[k]
             file == data[n]
             i == off[p] + 1
  <1>3. Source(p) = Blocks(c) /\ Len(Blocks(c)) = Length[c] /\ Length[c] \in Nat
    BY <1>1, BlocksTyped DEF Source
  <1>4. off[p] \in Nat /\ i \in 1..Length[c] /\ Source(p)[i] = <<c, i>> /\ <<c, i>> \in Block
    <2>1. off[p] \in Nat /\ off[p] < Length[c]
      BY <1>3 DEF CopyBlock, TypeInv, TypeOK
    <2>2. i \in 1..Length[c]
      BY <1>3, <2>1
    <2>3. Source(p)[i] = <<c, i>>
      BY <1>3, <2>2, BlocksTyped
    <2>4. Source(p)[i] \in Block
      BY <1>2, NextBlock DEF CopyBlock
    <2>5. QED
      BY <2>1, <2>2, <2>3, <2>4
  <1>5. n # NoFile /\ n \in Inode /\ dest[p] = n /\ file \in Seq(Block) /\ Len(file) <= Length[c]
    BY <1>2 DEF Together, Shares, TypeInv, TypeOK
  <1> DEFINE new == Written(file, i, <<c, i>>)
  <1>6. data' = [data EXCEPT ![n] = new] /\ off' = [off EXCEPT ![p] = i]
    BY <1>4, <1>5 DEF CopyBlock
  <1>7. data'[n] = new /\ off'[p] = i /\ \A q \in Call \ {p} : off'[q] = off[q]
    BY <1>5, <1>6 DEF TypeInv, TypeOK
  <1>8. /\ Len(new) = IF i > Len(file) THEN i ELSE Len(file)
        /\ new[i] = <<c, i>>
        /\ \A j \in 1..Len(file) : j # i => new[j] = file[j]
    <2>1. file \in Seq(Block) /\ i \in Nat \ {0} /\ <<c, i>> \in Block
      BY <1>4, <1>5
    <2> HIDE DEF file, i
    <2>2. QED
      BY <2>1, WrittenTyped, ZenonT(20)
  <1>9. \A q \in Call : off[q] \in Nat
    BY DEF TypeInv, TypeOK
  <1> HIDE DEF n, file, i, new
  <1>10. Len(file) \in Nat /\ Len(new) <= Length[c] /\ Len(file) <= Len(new) /\ i <= Len(new)
    BY <1>3, <1>4, <1>5, <1>8
  <1>11. \A q \in Copied(k) : Shares(q, k, c)'
    <2> SUFFICES ASSUME NEW q \in Copied(k) PROVE Shares(q, k, c)'
      OBVIOUS
    <2>1. Shares(q, k, c) /\ q \in Call
      BY DEF Together, Copied, Writers
    <2>2. CASE q = p
      BY <1>2, <1>3, <1>4, <1>7, <2>1, <2>2 DEF Shares
    <2>3. CASE q # p
      BY <1>2, <1>7, <2>1, <2>3 DEF Shares
    <2>4. QED
      BY <2>2, <2>3
  <1>12. PICK q \in Copied(k) : IsThere(q, k, c)
    BY <1>2 DEF Together
  <1>13. /\ q \in Call /\ off[q] <= Len(file)
         /\ \A j \in 1..off[q] : file[j] = <<c, j>>
    BY <1>12 DEF IsThere, Copied, Writers, file, n
  <1>14. /\ off'[q] <= Len(new)
         /\ \A j \in 1..off'[q] : new[j] = <<c, j>>
    <2>1. \A j \in 1..off[q] : new[j] = <<c, j>>
      <3> SUFFICES ASSUME NEW j \in 1..off[q] PROVE new[j] = <<c, j>>
        OBVIOUS
      <3>1. j \in 1..Len(file)
        BY <1>9, <1>10, <1>13
      <3>2. QED
        BY <1>8, <1>13, <3>1
    <2>2. CASE q = p
      <3>1. off'[q] = off[q] + 1 /\ off'[q] = i
        BY <1>7, <2>2 DEF i
      <3>2. \A j \in 1..off'[q] : j \in 1..off[q] \/ j = i
        BY <1>9, <1>13, <3>1
      <3>3. QED
        BY <1>8, <1>10, <2>1, <3>1, <3>2
    <2>3. CASE q # p
      BY <1>7, <1>9, <1>10, <1>13, <2>1, <2>3
    <2>4. QED
      BY <2>2, <2>3
  <1>15. IsThere(q, k, c)' /\ Len(data'[dir'[k]]) <= Length[c]
    BY <1>2, <1>7, <1>10, <1>14 DEF IsThere, n
  <1>16. dir'[k] # NoFile
    BY <1>2, <1>5 DEF n
  <1>17. QED
    BY <1>2, <1>11, <1>15, <1>16 DEF Together

\* A Put is done when it has written all its blocks.
LEMMA TogetherEnd ==
  ASSUME TypeInv, NEW p \in Call, EndOfFile(p), NEW k \in Key, NEW c \in Content,
         Agree(k, c)', Together(k, c), k \in Writes(p)
  PROVE  Together(k, c)'
  <1>1. /\ Is(p, {"put"}) /\ job[p].content = c /\ Writers(k)' = Writers(k) /\ p \in Writers(k)
    BY SameWriters DEF Steps, Writers, EndOfFile, TypeInv, Control, Busy
  <1>2. /\ pc[p] = "copy" /\ pc' = [pc EXCEPT ![p] = "done"]
        /\ UNCHANGED <<dir, data, dest, off>>
    BY <1>1 DEF EndOfFile, Answer, fs, fds, Is, TypeInv, Control
  <1>3. p \in Copied(k) /\ Copied(k)' = Copied(k)
    BY <1>1, <1>2 DEF Copied, Writers, TypeInv, TypeOK
  <1>4. off[p] >= Length[c] /\ Length[c] \in Nat /\ off[p] \in Nat
    BY <1>1, BlocksTyped DEF EndOfFile, Source, TypeInv, TypeOK
  <1>5. Shares(p, k, c)'
    BY <1>2, <1>3, <1>4 DEF Together, Shares
  <1>6. \A q \in Copied(k) : q # p => Shares(q, k, c)'
    BY <1>2 DEF Together, Shares, Copied, Writers, TypeInv, TypeOK
  <1>7. QED
    BY <1>2, <1>3, <1>5, <1>6 DEF Together, IsThere

\* Initially nobody has written.
LEMMA ConvergeInit == Init => AllConverge
  <1> SUFFICES ASSUME Init, NEW k \in Key, NEW c \in Content PROVE Together(k, c)
    BY DEF AllConverge, Converging
  <1>1. Copied(k) = {}
    BY DEF Copied, Writers, Init, CallsInit
  <1>2. QED
    BY <1>1 DEF Together

\* All steps together.
LEMMA ConvergeStep == TypeInv /\ AllConverge /\ [Next]_vars => AllConverge'
  <1> SUFFICES ASSUME TypeInv, AllConverge, [Next]_vars, NEW k \in Key, NEW c \in Content,
                      Agree(k, c)'
               PROVE  Together(k, c)'
    BY DEF AllConverge, Converging
  <1>1. ASSUME NEW p \in Call, Steps(p) PROVE Together(k, c)'
    <2>1. Together(k, c)
      BY <1>1, SameWriters DEF AllConverge, Converging
    <2>2. CASE k \notin Writes(p)
      BY <1>1, <2>1, <2>2, TogetherElsewhere
    <2>3. CASE k \in Writes(p)
      <3>1. /\ Is(p, {"put"}) /\ answer'[p] \in {"running", "nil"}
        BY <1>1, <2>3, SameWriters
      <3>2. ~Fail(p)
        BY <3>1 DEF Fail, Answer, TypeInv, TypeOK, CallsTypeOK
      <3>3. ~Stat(p) /\ ~Open(p) /\ ~ReadBlock(p) /\ ~Unlink(p) /\ ~Removed(p)
        BY <3>1 DEF Stat, Open, ReadBlock, Unlink, Removed, TypeInv, Control, Is
      <3>4. QED
        BY <1>1, <2>1, <2>3, <3>2, <3>3, TogetherStart, TogetherCreate, TogetherCopyBlock, TogetherEnd
           DEF Steps
    <2>4. QED
      BY <2>2, <2>3
  <1>2. CASE Kill
    <2>1. \A q \in Call : Writes(q)' = Writes(q)
      BY <1>2 DEF Kill, Killed, Writes, Is
    <2>2. \A q \in Call : answer'[q] = IF Running(q) THEN "killed" ELSE answer[q]
      BY <1>2 DEF Kill, Killed
    <2>3. Writers(k)' = Writers(k)
      BY <2>1, <2>2 DEF Writers, Running
    <2>4. \A q \in Writers(k) : ~Running(q) /\ answer'[q] = answer[q]
      BY <2>2, <2>3 DEF Agree, Writers
    <2>5. \A q \in Writers(k) : pc'[q] = pc[q]
      BY <1>2, <2>4 DEF Kill, Writers
    <2>6. Agree(k, c) /\ Copied(k)' = Copied(k)
      BY <1>2, <2>3, <2>4, <2>5 DEF Kill, Killed, Agree, Copied
    <2>7. UNCHANGED <<fs, fds>> /\ \A q \in Copied(k) : pc'[q] = pc[q]
      BY <1>2, <2>5 DEF Kill, Copied
    <2>8. QED
      BY <2>6, <2>7 DEF AllConverge, Converging, Together, Shares, IsThere, fs, fds
  <1>3. CASE UNCHANGED vars
    BY <1>3 DEF AllConverge, Converging, Together, Shares, IsThere, Agree, Copied, Writers, Writes, Is,
                vars, calls, fs, fds
  <1>4. QED
    BY <1>1, <1>2, <1>3 DEF Next, Steps, Works

\* Puts of one resource that overlap, as two bundles with the same file make
\* of the app-stash, leave the file whole once all of them have succeeded, for
\* any number of them and any length, although each of them empties the file
\* the others are writing to.
THEOREM SamePutsCorrect == Spec => []SamePutsConverge
  <1>1. TypeInv /\ AllConverge => SamePutsConverge
    <2> SUFFICES ASSUME TypeInv, AllConverge, NEW k \in Key, NEW c \in Content, Writers(k) # {},
                        \A p \in Writers(k) : job[p].content = c /\ answer[p] = "nil"
                 PROVE  Resource(k) = c
      BY DEF SamePutsConverge, Writers
    <2>1. Agree(k, c) /\ Copied(k) = Writers(k) /\ \A p \in Writers(k) : pc[p] = "done"
      BY DEF Agree, Copied, Writers, TypeInv, TypeOK, Control, Busy
    <2>2. PICK q \in Copied(k) : Shares(q, k, c) /\ IsThere(q, k, c)
      BY <2>1 DEF AllConverge, Converging, Together
    <2>3. /\ dir[k] # NoFile /\ data[dir[k]] \in Seq(Block) /\ Len(data[dir[k]]) <= Length[c]
          /\ off[q] = Length[c] /\ Length[c] \in Nat \ {0}
      BY <2>1, <2>2, LocalAssumption DEF AllConverge, Converging, Together, Shares, TypeInv, TypeOK
    <2>4. Len(data[dir[k]]) = Length[c] /\ \A j \in 1..Length[c] : data[dir[k]][j] = <<c, j>>
      BY <2>2, <2>3 DEF IsThere
    <2>5. data[dir[k]] = Blocks(c)
      <3>1. data[dir[k]] \in [1..Length[c] -> Block]
        BY <2>3, <2>4
      <3>2. data[dir[k]] = [j \in 1..Length[c] |-> <<c, j>>]
        BY <2>4, <3>1
      <3>3. QED
        BY <3>2 DEF Blocks
    <2>6. \A b \in Content : data[dir[k]] = Blocks(b) => b = c
      <3> SUFFICES ASSUME NEW b \in Content, Blocks(c) = Blocks(b) PROVE b = c
        BY <2>5
      <3>1. Blocks(b)[1] = <<b, 1>> /\ Blocks(c)[1] = <<c, 1>>
        BY BlocksTyped
      <3>2. QED
        BY <3>1
    <2>7. (CHOOSE b \in Content : data[dir[k]] = Blocks(b)) = c
      BY <2>5, <2>6
    <2>8. QED
      BY <2>3, <2>5, <2>7 DEF Resource, Reads
  <1>2. QED
    BY <1>1, Typed, ConvergeInit, ConvergeStep, PTL DEF Spec

-----------------------------------------------------------------------------
(* Every call comes to its end.                                             *)

\* There is a longest content, and directories are finite.
Finite ==
  /\ \E c \in Content : \A b \in Content : Length[b] <= Length[c]
  /\ \A k \in Key : IsFiniteSet(Under[k])

\* No file grows beyond the longest content, and nobody reads beyond it.
SizeInv ==
  /\ TypeInv
  /\ \A n \in Inode : Len(data[n]) <= Longest
  /\ \A p \in Call : off[p] <= Longest

LEMMA LongestIs ==
  ASSUME Finite
  PROVE  Longest \in Nat /\ \A c \in Content : Length[c] <= Longest
  <1>1. \E n \in {Length[c] : c \in Content} : \A c \in Content : Length[c] <= n
    BY DEF Finite
  <1>2. Longest \in {Length[c] : c \in Content} /\ \A c \in Content : Length[c] <= Longest
    BY <1>1 DEF Longest
  <1>3. QED
    BY <1>2, LocalAssumption

\* What a call copies or reads is no longer than the longest content.
LEMMA SourceIsBounded ==
  ASSUME Finite, SizeInv, NEW p \in Call, pc[p] \in {"copy", "read"}
  PROVE  Len(Source(p)) \in Nat /\ Len(Source(p)) <= Longest
  <1>1. Source(p) \in Seq(Block)
    BY SourceTyped DEF SizeInv
  <1>2. CASE Is(p, {"put"})
    BY <1>1, <1>2, CallTypes, BlocksTyped, LongestIs DEF Source, SizeInv
  <1>3. CASE ~Is(p, {"put"})
    BY <1>1, <1>3 DEF Source, SizeInv, TypeInv, Opened
  <1>4. QED
    BY <1>2, <1>3

\* Initially the files are contents, and nothing has been copied.
LEMMA SizeInit == Finite /\ Init => SizeInv
  <1> SUFFICES ASSUME Finite, Init PROVE SizeInv
    OBVIOUS
  <1>1. PICK f \in Files :
          data = [n \in Inode |-> IF n \in Key /\ f[n] # NoContent THEN Blocks(f[n]) ELSE <<>>]
    BY DEF Init
  <1>2. f \in [Key -> Content \cup {NoContent}]
    BY LocalAssumption
  <1>3. ASSUME NEW n \in Inode PROVE Len(data[n]) <= Longest
    <2>1. CASE n \in Key /\ f[n] # NoContent
      <3>1. f[n] \in Content /\ data[n] = Blocks(f[n])
        BY <1>1, <1>2, <2>1
      <3>2. QED
        BY <3>1, BlocksTyped, LongestIs
    <2>2. CASE ~(n \in Key /\ f[n] # NoContent)
      <3>1. data[n] = <<>>
        BY <1>1, <2>2
      <3>2. QED
        BY <3>1, LongestIs
    <2>3. QED
      BY <2>1, <2>2
  <1>4. \A p \in Call : off[p] <= Longest
    BY LongestIs DEF Init
  <1>5. QED
    BY <1>3, <1>4, TypeInit DEF SizeInv

\* A step of a call keeps the sizes: it writes no further than it reads.
LEMMA SizeSteps ==
  ASSUME Finite, SizeInv, TypeInv', NEW p \in Call, Steps(p)
  PROVE  SizeInv'
  <1>1. Longest \in Nat
    BY LongestIs
  <1>2. CASE CopyBlock(p) \/ ReadBlock(p)
    <2>1. off[p] < Len(Source(p)) /\ pc[p] \in {"copy", "read"}
      BY <1>2 DEF CopyBlock, ReadBlock
    <2>2. off[p] \in Nat /\ off[p] + 1 <= Longest /\ off' = [off EXCEPT ![p] = @ + 1]
      BY <1>1, <1>2, <2>1, NextBlock, SourceIsBounded DEF CopyBlock, ReadBlock, SizeInv
    <2>3. \A q \in Call : off'[q] <= Longest
      BY <2>2 DEF SizeInv, TypeInv, TypeOK
    <2>4. ASSUME NEW n \in Inode PROVE Len(data'[n]) <= Longest
      <3>1. CASE CopyBlock(p) /\ n = dest[p]
        <4> DEFINE b == Source(p)[off[p] + 1]
        <4>1. data[n] \in Seq(Block) /\ b \in Block /\ off[p] + 1 \in Nat \ {0}
          BY <2>1, NextBlock DEF SizeInv, TypeInv, TypeOK
        <4>2. data'[n] = Written(data[n], off[p] + 1, b)
          BY <3>1 DEF CopyBlock, SizeInv, TypeInv, TypeOK
        <4> HIDE DEF b
        <4>3. Len(data'[n]) = IF off[p] + 1 > Len(data[n]) THEN off[p] + 1 ELSE Len(data[n])
          BY <4>1, <4>2, WrittenTyped
        <4>4. QED
          BY <2>2, <4>3 DEF SizeInv
      <3>2. CASE ~(CopyBlock(p) /\ n = dest[p])
        <4>1. data'[n] = data[n]
          BY <1>2, <3>2 DEF CopyBlock, ReadBlock, fs, SizeInv, TypeInv, TypeOK
        <4>2. QED
          BY <4>1 DEF SizeInv
      <3>3. QED
        BY <3>1, <3>2
    <2>5. QED
      BY <2>3, <2>4 DEF SizeInv
  <1>3. CASE Create(p)
    <2>1. UNCHANGED off
      BY <1>3 DEF Create
    <2>2. PICK m \in Inode : data' = [data EXCEPT ![m] = <<>>]
      BY <1>3, CreateOpens DEF SizeInv
    <2>3. \A n \in Inode : data'[n] = data[n] \/ data'[n] = <<>>
      BY <2>2 DEF SizeInv, TypeInv, TypeOK
    <2>4. \A n \in Inode : Len(data'[n]) <= Longest
      BY <1>1, <2>3 DEF SizeInv
    <2>5. QED
      BY <2>1, <2>4 DEF SizeInv
  <1>4. CASE Start(p) \/ Fail(p) \/ Stat(p) \/ Open(p) \/ EndOfFile(p) \/ Unlink(p) \/ Removed(p)
    <2>1. UNCHANGED <<data, off>>
      BY <1>4 DEF Start, Fail, Stat, Open, EndOfFile, Unlink, Removed, fs, fds
    <2>2. QED
      BY <2>1 DEF SizeInv
  <1>5. QED
    BY <1>2, <1>3, <1>4 DEF Steps

LEMMA Counts ==
  ASSUME Finite, SizeInv, NEW p \in Call
  PROVE  /\ IsFiniteSet(todo[p]) /\ Cardinality(todo[p]) \in Nat
         /\ off[p] \in Nat /\ off[p] <= Longest /\ Longest \in Nat
         /\ pc[p] \in {"idle", "done"} \cup Busy
         /\ pc[p] \in {"open", "create", "stat", "remove"} => off[p] = 0
         /\ Running(p) <=> pc[p] \in Busy
  <1>1. IsFiniteSet(Targets(p))
    BY CallTypes, FS_Singleton DEF Targets, Finite, SizeInv
  <1>2. IsFiniteSet(todo[p])
    BY <1>1, FS_Subset DEF SizeInv, TypeInv, Control
  <1>3. Cardinality(todo[p]) \in Nat
    BY <1>2, FS_CardinalityType
  <1>4. QED
    BY <1>2, <1>3, LongestIs DEF SizeInv, TypeInv, TypeOK, Control, Opened, Busy, Running

LEMMA LeftTyped ==
  ASSUME Finite, SizeInv, NEW p \in Call
  PROVE  Left(p) \in Nat /\ (Running(p) => Left(p) > 0)
  BY Counts DEF Left, Busy

\* With every step the call takes there is less left.
LEMMA WorksDown ==
  ASSUME Finite, SizeInv, SizeInv', NEW p \in Call, Works(p)
  PROVE  Left(p)' \in 0..(Left(p) - 1)
  <1>1. /\ Left(p) \in Nat /\ pc \in [Call -> {"idle", "done"} \cup Busy]
        /\ off[p] \in Nat /\ off[p] <= Longest /\ Longest \in Nat /\ Cardinality(todo[p]) \in Nat
    BY Counts, LeftTyped DEF SizeInv, TypeInv, TypeOK, Busy
  <1>2. ASSUME pc[p] \in Busy, NEW e, Answer(p, e) PROVE Left(p)' \in 0..(Left(p) - 1)
    <2>1. Left(p)' = 0
      BY <1>1, <1>2 DEF Answer, Left
    <2>2. Left(p) > 0
      BY <1>2, Counts, LeftTyped
    <2>3. QED
      BY <1>1, <2>1, <2>2
  <1>3. CASE Fail(p) \/ EndOfFile(p) \/ Removed(p)
    BY <1>2, <1>3 DEF Fail, EndOfFile, Removed, Busy
  <1>4. CASE Stat(p)
    <2>1. CASE \E e \in Result : Answer(p, e)
      BY <1>2, <1>4, <2>1 DEF Stat, Busy
    <2>2. CASE Goto(p, "remove")
      <3>1. Left(p)' = Cardinality(todo[p]) + 1
        BY <1>1, <1>4, <2>2 DEF Stat, Goto, Left, fds
      <3>2. Left(p) = Cardinality(todo[p]) + 2
        BY <1>4 DEF Stat, Left
      <3>3. QED
        BY <1>1, <3>1, <3>2
    <2>3. QED
      BY <1>4, <2>1, <2>2 DEF Stat, Result
  <1>5. CASE Open(p)
    <2>1. CASE Answer(p, "notFound")
      BY <1>2, <1>5, <2>1 DEF Open, Busy
    <2>2. CASE \E l \in {"create", "read"} : Goto(p, l)
      <3>1. pc'[p] \in {"create", "read"} /\ off'[p] = 0
        BY <1>1, <1>5, <2>2, Counts DEF Open, Goto
      <3>2. Left(p)' \in {Longest + 1, Longest + 2}
        BY <1>1, <3>1 DEF Left
      <3>3. Left(p) = Longest + 3
        BY <1>5 DEF Open, Left
      <3>4. QED
        BY <1>1, <3>2, <3>3
    <2>3. QED
      BY <1>5, <2>1, <2>2 DEF Open
  <1>6. CASE Create(p)
    <2>1. pc'[p] = "copy" /\ off'[p] = 0
      BY <1>1, <1>6, Counts DEF Create, Goto
    <2>2. Left(p)' = Longest + 1
      BY <1>1, <2>1 DEF Left
    <2>3. Left(p) = Longest + 2
      BY <1>6 DEF Create, Left
    <2>4. QED
      BY <1>1, <2>2, <2>3
  <1>7. CASE CopyBlock(p) \/ ReadBlock(p)
    <2>1. pc[p] \in {"copy", "read"} /\ UNCHANGED pc /\ off'[p] = off[p] + 1
      BY <1>7 DEF CopyBlock, ReadBlock, SizeInv, TypeInv, TypeOK
    <2>2. Left(p) = Longest - off[p] + 1 /\ Left(p)' = Longest - off'[p] + 1
      BY <2>1 DEF Left
    <2>3. off'[p] <= Longest
      BY DEF SizeInv
    <2>4. QED
      BY <1>1, <2>1, <2>2, <2>3
  <1>8. CASE Unlink(p)
    <2>1. PICK k \in todo[p] : todo' = [todo EXCEPT ![p] = @ \ {k}]
      BY <1>8 DEF Unlink
    <2>2. todo'[p] = todo[p] \ {k}
      BY <2>1 DEF SizeInv, TypeInv, TypeOK
    <2>3. Cardinality(todo'[p]) = Cardinality(todo[p]) - 1 /\ Cardinality(todo'[p]) \in Nat
      <3>1. IsFiniteSet(todo[p])
        BY Counts
      <3>2. IsFiniteSet(todo[p] \ {k}) /\ Cardinality(todo[p] \ {k}) = Cardinality(todo[p]) - 1
        BY <3>1, FS_RemoveElement
      <3>3. Cardinality(todo[p] \ {k}) \in Nat
        BY <3>2, FS_CardinalityType
      <3>4. QED
        BY <2>2, <3>2, <3>3
    <2>4. Left(p) = Cardinality(todo[p]) + 1 /\ Left(p)' = Cardinality(todo'[p]) + 1
      BY <1>8 DEF Unlink, Left
    <2>5. QED
      BY <1>1, <2>3, <2>4
  <1>9. QED
    BY <1>3, <1>4, <1>5, <1>6, <1>7, <1>8 DEF Works

\* What a step does to the steps left.
Fewer(p) == Running(p) => Left(p)' \in 0..(Left(p) - (IF Works(p) THEN 1 ELSE 0))

LEMMA LeftStays ==
  ASSUME Finite, SizeInv, NEW p \in Call, UNCHANGED <<pc[p], off[p], todo[p]>>, ~Works(p)
  PROVE  Fewer(p)
  <1>1. Left(p)' = Left(p)
    BY DEF Left
  <1>2. QED
    BY <1>1, LeftTyped DEF Fewer

\* All steps together.
LEMMA SizeStep ==
  ASSUME Finite, SizeInv, [Next]_vars
  PROVE  SizeInv' /\ \A p \in Call : Fewer(p)
  <1>1. TypeInv'
    BY TypeStep DEF SizeInv
  <1>2. ASSUME UNCHANGED <<data, off>> PROVE SizeInv'
    BY <1>1, <1>2 DEF SizeInv
  <1>3. ASSUME NEW p \in Call, Steps(p) PROVE SizeInv' /\ \A q \in Call : Fewer(q)
    <2>1. SizeInv'
      BY <1>1, <1>3, SizeSteps
    <2> SUFFICES ASSUME NEW q \in Call PROVE Fewer(q)
      BY <2>1
    <2>2. CASE Works(q)
      BY <2>1, <2>2, WorksDown DEF Fewer
    <2>3. CASE ~Works(q) /\ q # p
      BY <1>3, <2>3, StepIsLocal, LeftStays DEF SizeInv
    <2>4. CASE ~Works(q) /\ q = p
      BY <1>3, <2>4 DEF Steps, Works, Start, Begins, Fewer, Running
    <2>5. QED
      BY <2>2, <2>3, <2>4
  <1>4. CASE Kill
    <2>1. SizeInv'
      BY <1>2, <1>4 DEF Kill, fs, fds
    <2> SUFFICES ASSUME NEW q \in Call PROVE Fewer(q)
      BY <2>1
    <2>2. CASE Works(q)
      BY <2>1, <2>2, WorksDown DEF Fewer
    <2>3. CASE ~Works(q) /\ Running(q)
      <3>1. Left(q)' = 0
        BY <1>4, <2>3 DEF Kill, Left
      <3>2. QED
        BY <2>3, <3>1, LeftTyped DEF Fewer
    <2>4. CASE ~Running(q)
      BY <2>4 DEF Fewer
    <2>5. QED
      BY <2>2, <2>3, <2>4
  <1>5. CASE UNCHANGED vars
    <2>1. SizeInv'
      BY <1>2, <1>5 DEF vars, fs, fds
    <2> SUFFICES ASSUME NEW q \in Call PROVE Fewer(q)
      BY <2>1
    <2>2. CASE Works(q)
      BY <2>1, <2>2, WorksDown DEF Fewer
    <2>3. CASE ~Works(q)
      BY <1>5, <2>3, LeftStays DEF vars, fds
    <2>4. QED
      BY <2>2, <2>3
  <1>6. QED
    BY <1>3, <1>4, <1>5 DEF Next, Steps, Works

\* A call makes no more system calls than are left when it starts, whoever
\* else has its files open, and whatever happens to them.
THEOREM StepsBounded ==
  ASSUME Finite
  PROVE  Spec => StepsAreBounded
  <1>1. Init => SizeInv
    BY SizeInit
  <1>2. SizeInv /\ [Next]_vars => SizeInv'
    BY SizeStep
  <1>3. SizeInv /\ [Next]_vars =>
          [\A p \in Call : Running(p) => Left(p)' \in 0..(Left(p) - (IF Works(p) THEN 1 ELSE 0))]_vars
    BY SizeStep DEF Fewer
  <1>4. QED
    BY <1>1, <1>2, <1>3, PTL DEF Spec, StepsAreBounded
=============================================================================
