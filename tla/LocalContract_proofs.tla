------------------------- MODULE LocalContract_proofs -----------------------
(***************************************************************************)
(* LocalBlobstore implements BlobstoreCalls: a call opens, truncates,      *)
(* copies and unlinks in steps that fail, interleave with those of others  *)
(* and die with the process, and is still one operation of Blobstore to    *)
(* its caller.                                                             *)
(***************************************************************************)
EXTENDS LocalBlobstore_proofs

-----------------------------------------------------------------------------
(* What a call knows between two system calls, of keys nobody else writes.  *)

\* Copy opens its source before it truncates its destination: copied onto
\* itself, a resource is lost (CopiesLeaveTheSourceIntact).
NoSelfCopy == \A j \in Jobs : j.kind = "copy" => j.source # j.key

\* The key a call reads, and whether others write what it reads or writes.
From(p) == IF Is(p, {"copy"}) THEN job[p].source ELSE job[p].key
Clean(p) == {job[p].key, From(p)} \cap contended[p] = {}

\* Running calls are known to each other as writers.
Crowded ==
  \A p, q \in Call : p # q /\ Running(p) /\ Running(q) => Writes(q) \subseteq contended[p]

\* file is the beginning of whole, n blocks long.
Begun(file, whole, n) ==
  /\ Len(file) = n /\ n <= Len(whole)
  /\ \A i \in 1..n : file[i] = whole[i]

\* An open file is still the one under its path.
Reading(p) ==
  pc[p] \in {"create", "copy", "read"} /\ ~Is(p, {"put"}) /\ Clean(p) => dir[From(p)] = src[p]

\* What was copied is there, and what was read was there.
Writing(p) ==
  pc[p] = "copy" /\ Clean(p) => /\ dir[job[p].key] = dest[p]
                                /\ Begun(data[dest[p]], Source(p), off[p])
Seeing(p) == pc[p] = "read" /\ Clean(p) => Begun(got[p], Source(p), off[p])

\* What is no longer to be removed is gone.
Removing(p) ==
  pc[p] = "remove" => \A k \in Targets(p) : k \in todo[p] \cup contended[p] \/ dir[k] = NoFile

\* A call that has only looked has nothing to show.
Waiting(p) == /\ pc[p] = "stat" => todo[p] = Targets(p)
              /\ pc[p] \in {"idle", "open"} => got[p] = <<>>

Own(p) == Reading(p) /\ Writing(p) /\ Seeing(p) /\ Removing(p) /\ Waiting(p)

ContractInv == TypeInv /\ Crowded /\ \A p \in Call : Own(p)

-----------------------------------------------------------------------------
(* What is found under a path.                                              *)

\* Contents are told apart by their blocks.
LEMMA ReadsWhat ==
  ASSUME NEW b
  PROVE  /\ Reads(b) \in Content \cup {Torn}
         /\ Reads(b) \in Content => b = Blocks(Reads(b))
         /\ \A c \in Content : Reads(Blocks(c)) = c
  <1>1. \A c, d \in Content : Blocks(c) = Blocks(d) => c = d
    <2> SUFFICES ASSUME NEW c \in Content, NEW d \in Content, Blocks(c) = Blocks(d) PROVE c = d
      OBVIOUS
    <2>1. 1 \in 1..Length[c] /\ 1 \in 1..Length[d]
      BY BlocksTyped
    <2>2. Blocks(c)[1] = <<c, 1>> /\ Blocks(d)[1] = <<d, 1>>
      BY <2>1, BlocksTyped
    <2>3. QED
      BY <2>2
  <1>2. \A file : (\E c \in Content : file = Blocks(c)) =>
            /\ (CHOOSE c \in Content : file = Blocks(c)) \in Content
            /\ file = Blocks(CHOOSE c \in Content : file = Blocks(c))
    OBVIOUS
  <1>3. \A file : (\E c \in Content : file = Blocks(c)) => Reads(file) \in Content /\ file = Blocks(Reads(file))
    BY <1>2 DEF Reads
  <1>4. \A file : ~(\E c \in Content : file = Blocks(c)) => Reads(file) = Torn
    BY DEF Reads
  <1>5. Torn \notin Content
    BY ResourcesAssumption
  <1>6. QED
    BY <1>1, <1>3, <1>4, <1>5

\* The beginning of a content reads as the content, or as a part.
LEMMA ReadsPart ==
  ASSUME NEW c \in Content, NEW file \in Seq(Block), NEW n \in Nat, Begun(file, Blocks(c), n)
  PROVE  Reads(file) \in {c, Torn}
  <1> SUFFICES ASSUME Reads(file) \in Content PROVE Reads(file) = c
    BY ReadsWhat
  <1> DEFINE d == Reads(file)
  <1>1. file = Blocks(d) /\ d \in Content
    BY ReadsWhat
  <1> HIDE DEF d
  <1>2. Len(file) = Length[d] /\ Length[d] \in Nat \ {0} /\ Length[c] \in Nat \ {0}
    BY <1>1, BlocksTyped
  <1>3. 1 \in 1..n /\ 1 \in 1..Length[d] /\ 1 \in 1..Length[c]
    BY <1>2 DEF Begun
  <1>4. file[1] = <<d, 1>> /\ Blocks(c)[1] = <<c, 1>> /\ file[1] = Blocks(c)[1]
    BY <1>1, <1>3, BlocksTyped DEF Begun
  <1>5. d = c
    BY <1>4
  <1>6. QED
    BY <1>5 DEF d

\* What is under a key.
LEMMA ResourceWhat ==
  ASSUME TypeInv, NEW k \in Key
  PROVE  /\ Resource(k) \in Stored
         /\ Resource(k) # Absent <=> dir[k] # NoFile
         /\ dir[k] # NoFile => Resource(k) = Reads(data[dir[k]])
         /\ dir[k] = NoFile => Resource(k) = Absent
  BY ReadsWhat, ResourcesAssumption DEF Resource, Stored

LEMMA SameResource ==
  ASSUME NEW k \in Key, dir'[k] = dir[k], dir[k] # NoFile => data'[dir[k]] = data[dir[k]]
  PROVE  Resource(k)' = Resource(k)
  BY DEF Resource, Reads

-----------------------------------------------------------------------------
(* What the contract says, in the terms of this module.                     *)

Store == [k \in Key |-> Resource(k)]
Writings == [q \in Call |-> Wrote(q)]
Seen == [q \in Call |-> IF Is(q, {"get"}) /\ answer[q] = "nil" THEN Reads(got[q]) ELSE Absent]

\* The contract's own copies of what both modules define are these.
LEMMA SameTerms ==
  /\ \A p \in Call : /\ \A K : Contract!Is(p, K) <=> Is(p, K)
                     /\ Contract!Writes(p) = Writes(p)
                     /\ Contract!Uses(p) = Uses(p)
                     /\ Contract!Running(p) <=> Running(p)
  /\ \A k : Contract!Exists(k) <=> Store[k] # Absent
  /\ Contract!Stored = Stored /\ Contract!Result = Result
  BY DEF Contract!Is, Is, Contract!Writes, Writes, Contract!Uses, Uses, Contract!Running, Running,
         Contract!Exists, Store, Contract!Stored, Stored, Contract!Result, Result

\* Only what a call writes is changed by it.
LEMMA StepTouches ==
  ASSUME TypeInv, NEW p \in Call, Steps(p), NEW k \in Key
  PROVE  /\ k \notin Writes(p) => Resource(k)' = Resource(k)
         /\ Resource(k)' \in Stored
  <1>1. k \notin Writes(p) => Resource(k)' = Resource(k)
    BY OthersFiles, SameResource
  <1>2. TypeInv'
    BY TypeStart, TypeFail, TypeStat, TypeOpen, TypeCreate, TypeCopyBlock, TypeReadBlock,
       TypeEndOfFile, TypeUnlink, TypeRemoved DEF Steps
  <1>3. Resource(k)' \in Stored
    BY <1>2, ReadsWhat, ResourcesAssumption DEF Resource, Stored
  <1>4. QED
    BY <1>1, <1>3

\* The store after one key has changed, or none.
LEMMA StoreChanges ==
  ASSUME NEW k \in Key, \A j \in Key \ {k} : Resource(j)' = Resource(j)
  PROVE  Store' = [Store EXCEPT ![k] = Resource(k)']
  BY DEF Store

LEMMA StoreStays ==
  ASSUME UNCHANGED fs
  PROVE  /\ \A k \in Key : Resource(k)' = Resource(k)
         /\ Store' = Store
  <1>1. \A k \in Key : Resource(k)' = Resource(k)
    BY SameResource DEF fs
  <1>2. QED
    BY <1>1 DEF Store

\* A Put that succeeds stores its content; one that fails stores a part of
\* it, unless it ran out of space, or nothing.
LEMMA KeepsPut ==
  ASSUME NEW p \in Call, Is(p, {"put"}), NEW e \in {"nil", "noSpace", "error"}, NEW v,
         Store' = [Store EXCEPT ![job[p].key] = v],
         e = "nil" => v = job[p].content,
         e = "noSpace" => v \in {Store[job[p].key], Torn},
         e = "error" => v \in {Store[job[p].key], Torn, job[p].content}
  PROVE  Contract!Keeps(p, e)
  <1>1. Contract!Put(job[p].key, job[p].content, e)
    BY DEF Contract!Put, Contract!Leftovers, Store
  <1>2. ~Is(p, {"deleteDir"})
    BY DEF Is
  <1>3. Contract!Does(p, e)
    BY <1>1, SameTerms DEF Contract!Does, Contract!Is, Is
  <1>4. QED
    BY <1>2, <1>3, SameTerms DEF Contract!Keeps

\* A Copy puts what it has found under its source.
LEMMA KeepsCopy ==
  ASSUME NEW p \in Call, Is(p, {"copy"}), NEW e,
         \/ /\ e = "nil" /\ Store[job[p].source] # Absent
            /\ Store' = [Store EXCEPT ![job[p].key] = Store[job[p].source]]
         \/ /\ e = "error" /\ Store[job[p].source] # Absent
            /\ Store' = [Store EXCEPT ![job[p].key] = Store[job[p].source]]
         \/ e = "notFound" /\ Store[job[p].source] = Absent /\ Store' = Store
         \/ /\ e \in {"noSpace", "error"}
            /\ \/ Store' = [Store EXCEPT ![job[p].key] = Torn]
               \/ Store' = [Store EXCEPT ![job[p].key] = Store[job[p].key]]
  PROVE  Contract!Keeps(p, e)
  <1>1. Contract!Copy(job[p].source, job[p].key, e)
    BY SameTerms DEF Contract!Copy, Contract!Put, Contract!Leftovers, Store
  <1>2. ~Is(p, {"deleteDir"}) /\ ~Is(p, {"put"})
    BY DEF Is
  <1>3. Contract!Does(p, e)
    BY <1>1, <1>2, SameTerms DEF Contract!Does, Contract!Is, Is
  <1>4. QED
    BY <1>2, <1>3, SameTerms DEF Contract!Keeps

\* A Delete removes the resource or, when it fails, may do so.
LEMMA KeepsDelete ==
  ASSUME NEW p \in Call, Is(p, {"delete"}), NEW e,
         \/ e \in {"nil", "error"} /\ Store' = [Store EXCEPT ![job[p].key] = Absent]
         \/ e = "notFound" /\ Store[job[p].key] = Absent /\ Store' = Store
         \/ e = "error" /\ Store' = [Store EXCEPT ![job[p].key] = Store[job[p].key]]
  PROVE  Contract!Keeps(p, e)
  <1>1. Contract!Delete(job[p].key, e)
    BY SameTerms DEF Contract!Delete, Store
  <1>2. ~Is(p, {"deleteDir"}) /\ ~Is(p, {"put"}) /\ ~Is(p, {"copy"})
    BY DEF Is
  <1>3. Contract!Does(p, e)
    BY <1>1, <1>2, SameTerms DEF Contract!Does, Contract!Is, Is
  <1>4. QED
    BY <1>2, <1>3, SameTerms DEF Contract!Keeps

\* A reader changes nothing and says what is there.
LEMMA KeepsRead ==
  ASSUME NEW p \in Call, Is(p, {"stat", "get"}), NEW e, Store' = Store,
         e = "nil" => Store[job[p].key] # Absent,
         e = "notFound" => Store[job[p].key] = Absent
  PROVE  Contract!Keeps(p, e)
  <1>1. ~Is(p, {"deleteDir"}) /\ ~Is(p, {"put"}) /\ ~Is(p, {"copy"}) /\ ~Is(p, {"delete"})
    BY DEF Is
  <1>2. Contract!Does(p, e)
    BY <1>1, SameTerms DEF Contract!Does, Contract!Is, Is, Store
  <1>3. QED
    BY <1>1, <1>2, SameTerms DEF Contract!Keeps

\* A DeleteDir removes some of the keys below it, all if it succeeds.
LEMMA KeepsClears ==
  ASSUME TypeInv, NEW p \in Call, Is(p, {"deleteDir"}), NEW e \in {"nil", "error"},
         NEW ks \in SUBSET Under[job[p].key],
         Store' = [k \in Key |-> IF k \in ks THEN Absent ELSE Store[k]],
         e = "nil" => \A k \in Under[job[p].key] : Store'[k] = Absent
  PROVE  Contract!Keeps(p, e)
  <1>1. Writes(p) = Under[job[p].key]
    BY WritesWhat
  <1>2. Contract!Removed(ks) = [k \in Key |-> IF k \in ks THEN Absent ELSE Store[k]]
    BY DEF Contract!Removed, Store
  <1>3. Contract!Clears(p, e)
    BY <1>1, <1>2, SameTerms DEF Contract!Clears, Store
  <1>4. QED
    BY <1>3, SameTerms DEF Contract!Keeps

\* With others at the same keys, or a torn source, all that counts is what
\* is written.
LEMMA KeepsClash ==
  ASSUME TypeInv, NEW p \in Call, ~Is(p, {"deleteDir"}), NEW e, Steps(p),
         ~Clean(p) \/ (Is(p, {"copy"}) /\ Store[job[p].source] = Torn)
  PROVE  Contract!Keeps(p, e)
  <1>1. ~Clean(p) => Uses(p) \cap contended[p] # {}
    BY DEF Clean, From, Uses
  <1>2. Store' \in [Key -> Stored] /\ \A k \in Key \ Writes(p) : Store'[k] = Store[k]
    BY StepTouches DEF Store
  <1>3. Contract!Clashes(p)
    BY <1>1, <1>2, SameTerms DEF Contract!Clashes, Store
  <1>4. QED
    BY <1>3, SameTerms DEF Contract!Keeps

-----------------------------------------------------------------------------
(* A step of a call is a step of the contract.                              *)

Step == [Contract!CNext]_(Contract!cvars)

\* A running call is in the middle of its method.
LEMMA IsRunning ==
  ASSUME TypeInv, NEW p \in Call
  PROVE  /\ Running(p) <=> pc[p] \in Busy
         /\ Wrote(p) => Running(p)
  BY DEF TypeInv, Control, Running, Busy, Wrote

\* Functions to Booleans are the same when they say the same.
LEMMA SameClaims ==
  ASSUME NEW S, NEW f \in [S -> BOOLEAN], NEW g \in [S -> BOOLEAN], \A q \in S : f[q] <=> g[q]
  PROVE  f = g
  <1>1. ASSUME NEW q \in S PROVE f[q] = g[q]
    <2>1. f[q] \in BOOLEAN /\ g[q] \in BOOLEAN /\ (f[q] <=> g[q])
      OBVIOUS
    <2>2. QED
      BY <2>1
  <1>2. f = [q \in S |-> f[q]] /\ g = [q \in S |-> g[q]]
    OBVIOUS
  <1>3. QED
    BY <1>1, <1>2

\* How the record of who has written changes.
LEMMA WritingsChange ==
  ASSUME NEW p \in Call, \A q \in Call \ {p} : Wrote(q)' <=> Wrote(q)
  PROVE  /\ Wrote(p)' => Writings' = [Writings EXCEPT ![p] = TRUE]
         /\ ~Wrote(p)' => Writings' = [Writings EXCEPT ![p] = FALSE]
         /\ (Wrote(p)' <=> Wrote(p)) => Writings' = Writings
  <1>1. \A b \in BOOLEAN : [Writings EXCEPT ![p] = b] \in [Call -> BOOLEAN]
    BY DEF Writings, Wrote
  <1>2. Writings \in [Call -> BOOLEAN] /\ Writings' \in [Call -> BOOLEAN]
    BY DEF Writings, Wrote
  <1>3. ASSUME NEW b \in BOOLEAN, Wrote(p)' <=> b PROVE Writings' = [Writings EXCEPT ![p] = b]
    <2> DEFINE f == Writings'
               g == [Writings EXCEPT ![p] = b]
    <2>1. f \in [Call -> BOOLEAN] /\ g \in [Call -> BOOLEAN]
      BY <1>1, <1>2
    <2>2. \A q \in Call : f[q] <=> g[q]
      BY <1>3 DEF Writings
    <2> HIDE DEF f, g
    <2>3. f = g
      BY <2>1, <2>2, SameClaims
    <2>4. QED
      BY <2>3 DEF f, g
  <1>4. (Wrote(p)' <=> Wrote(p)) => Writings' = Writings
    <2> SUFFICES ASSUME Wrote(p)' <=> Wrote(p) PROVE Writings' = Writings
      OBVIOUS
    <2> DEFINE f == Writings'
               g == Writings
    <2>1. f \in [Call -> BOOLEAN] /\ g \in [Call -> BOOLEAN]
      BY <1>2
    <2>2. \A q \in Call : f[q] <=> g[q]
      BY DEF Writings
    <2> HIDE DEF f, g
    <2>3. f = g
      BY <2>1, <2>2, SameClaims
    <2>4. QED
      BY <2>3 DEF f, g
  <1>5. QED
    BY <1>3, <1>4

\* What a step leaves of the other calls.
LEMMA OthersStay ==
  ASSUME TypeInv, NEW p \in Call, Steps(p), NEW q \in Call \ {p}
  PROVE  /\ src'[q] = src[q] /\ got'[q] = got[q] /\ todo'[q] = todo[q]
         /\ ~Start(p) => contended'[q] = contended[q]
         /\ Wrote(q)' <=> Wrote(q)
  <1> USE DEF TypeInv, TypeOK
  <1>1. src'[q] = src[q] /\ got'[q] = got[q] /\ todo'[q] = todo[q]
    <2>1. CASE Start(p) \/ Fail(p) \/ Stat(p) \/ EndOfFile(p) \/ Removed(p)
      BY <2>1 DEF Start, Fail, Stat, EndOfFile, Removed, fds
    <2>2. CASE Open(p) \/ Create(p) \/ CopyBlock(p)
      BY <2>2 DEF Open, Create, CopyBlock
    <2>3. CASE ReadBlock(p) \/ Unlink(p)
      BY <2>3 DEF ReadBlock, Unlink
    <2>4. QED
      BY <2>1, <2>2, <2>3 DEF Steps
  <1>2. ~Start(p) => contended'[q] = contended[q]
    <2>1. CASE Fail(p) \/ Stat(p) \/ EndOfFile(p) \/ Removed(p)
      BY <2>1 DEF Fail, Stat, EndOfFile, Removed, Answer, Goto, calls
    <2>2. CASE Open(p) \/ Create(p) \/ CopyBlock(p) \/ ReadBlock(p) \/ Unlink(p)
      BY <2>2 DEF Open, Create, CopyBlock, ReadBlock, Unlink, Answer, Goto, calls
    <2>3. QED
      BY <2>1, <2>2 DEF Steps
  <1>3. pc'[q] = pc[q] /\ UNCHANGED job
    BY StepIsLocal
  <1>4. Wrote(q)' <=> Wrote(q)
    BY <1>1, <1>3 DEF Wrote, Targets, Is
  <1>5. QED
    BY <1>1, <1>2, <1>4

\* How the record of what was read changes.
LEMMA SeenChanges ==
  ASSUME TypeInv, NEW p \in Call, Steps(p)
  PROVE  /\ answer'[p] = "running" => Seen' = Seen
         /\ \A e \in Result : answer'[p] = e /\ got'[p] = got[p] =>
              Seen' = IF Is(p, {"get"}) /\ e = "nil"
                        THEN [Seen EXCEPT ![p] = Reads(got[p])] ELSE Seen
  <1>1. \A q \in Call \ {p} : answer'[q] = answer[q] /\ got'[q] = got[q]
    BY StepIsLocal, OthersStay
  <1>2. UNCHANGED job /\ answer[p] \in {"idle", "running"}
    <2>1. Start(p) => answer[p] = "idle"
      BY DEF Start, Begins
    <2>2. ~Start(p) => pc[p] \in Busy
      BY DEF Steps, Fail, Stat, Open, Create, CopyBlock, ReadBlock, EndOfFile, Unlink, Removed, Busy
    <2>3. QED
      BY <2>1, <2>2, StepIsLocal DEF TypeInv, Control
  <1>3. \A q \in Call : Reads(got[q])' = Reads(got'[q])
    BY DEF Reads
  <1>4. Seen' = [q \in Call |-> IF Is(q, {"get"}) /\ answer'[q] = "nil" THEN Reads(got'[q]) ELSE Absent]
    BY <1>2, <1>3 DEF Seen, Is
  <1>5. answer'[p] = "running" => Seen' = Seen
    BY <1>1, <1>2, <1>4 DEF Seen
  <1>6. ASSUME NEW e \in Result, answer'[p] = e, got'[p] = got[p]
        PROVE  Seen' = IF Is(p, {"get"}) /\ e = "nil"
                         THEN [Seen EXCEPT ![p] = Reads(got[p])] ELSE Seen
    <2>1. CASE Is(p, {"get"}) /\ e = "nil"
      BY <1>1, <1>2, <1>4, <1>6, <2>1 DEF Seen
    <2>2. CASE ~(Is(p, {"get"}) /\ e = "nil")
      BY <1>1, <1>2, <1>4, <1>6, <2>2 DEF Seen
    <2>3. QED
      BY <2>1, <2>2
  <1>7. QED
    BY <1>5, <1>6

\* A call that returns.
LEMMA Answers ==
  ASSUME ContractInv, NEW p \in Call, Steps(p), pc[p] \in Busy, NEW e \in Result, Answer(p, e),
         UNCHANGED <<fs, fds, kills>>, Contract!Keeps(p, e),
         Is(p, {"get"}) /\ e = "nil" => job[p].key \in contended[p] \/ Reads(got[p]) = Resource(job[p].key),
         Wrote(p) => e # "notFound" /\ (e = "nil" /\ Is(p, {"copy"}) => job[p].source # job[p].key),
         Wrote(p) /\ e = "noSpace" => Store[job[p].key] = Torn \/ Contract!Clashes(p)
  PROVE  Step
  <1>1. TypeInv /\ Running(p)
    BY IsRunning DEF ContractInv
  <1>2. /\ answer' = [answer EXCEPT ![p] = e] /\ answer'[p] = e /\ pc'[p] = "done"
        /\ UNCHANGED <<job, contended>> /\ got'[p] = got[p]
    BY <1>1 DEF Answer, fds, TypeInv, TypeOK, CallsTypeOK
  <1>3. Writings' = [Writings EXCEPT ![p] = FALSE]
    BY <1>1, <1>2, OthersStay, WritingsChange DEF Wrote
  <1>4. Seen' = IF Is(p, {"get"}) /\ e = "nil" THEN [Seen EXCEPT ![p] = Reads(got[p])] ELSE Seen
    BY <1>1, <1>2, SeenChanges
  <1>5. Reads(got[p]) \in Stored /\ Store[job[p].key] = Resource(job[p].key)
    BY <1>1, CallTypes, ReadsWhat DEF Stored, Store
  <1>6. IF Is(p, {"get"}) /\ e = "nil"
          THEN \E v \in Stored : /\ Seen' = [Seen EXCEPT ![p] = v]
                                 /\ job[p].key \in contended[p] \/ v = Store[job[p].key]
          ELSE Seen' = Seen
    BY <1>4, <1>5
  <1>7. Contract!Running(p)
    BY <1>1, SameTerms
  <1>8. Writings[p] => /\ e # "notFound" /\ (e = "nil" /\ Is(p, {"copy"}) => job[p].source # job[p].key)
                       /\ e = "noSpace" => Store'[job[p].key] = Torn \/ Contract!Clashes(p)
    BY StoreStays DEF Writings
  <1>9. Contract!Ends(p, e)
    BY <1>2, <1>3, <1>6, <1>7, <1>8, SameTerms DEF Contract!Ends, Store, Writings, Seen
  <1>10. e \in Contract!Result
    BY SameTerms
  <1>11. Contract!Return(p, e)
    BY <1>2, <1>9 DEF Contract!Return, Contract!Meant
  <1>12. QED
    BY <1>10, <1>11 DEF Step, Contract!CNext

\* A call that goes on and has shown nothing.
LEMMA Stutters ==
  ASSUME ContractInv, NEW p \in Call, Steps(p), UNCHANGED <<calls, fs>>, pc[p] \in Busy,
         Wrote(p)' <=> Wrote(p)
  PROVE  Step
  <1>1. TypeInv /\ answer'[p] = "running"
    BY IsRunning DEF ContractInv, Running, calls
  <1>2. Writings' = Writings
    BY <1>1, OthersStay, WritingsChange
  <1>3. Seen' = Seen
    BY <1>1, SeenChanges
  <1>4. Store' = Store
    BY StoreStays
  <1>5. UNCHANGED Contract!cvars
    BY <1>2, <1>3, <1>4 DEF Contract!cvars, Contract!calls, calls, Store, Writings, Seen
  <1>6. QED
    BY <1>5 DEF Step

\* A call that goes on and has written.
LEMMA Disturbs ==
  ASSUME ContractInv, NEW p \in Call, Steps(p), UNCHANGED calls, pc[p] \in Busy,
         Contract!Keeps(p, "error"), Wrote(p)'
  PROVE  Step
  <1>1. TypeInv /\ Running(p) /\ answer'[p] = "running"
    BY IsRunning DEF ContractInv, Running, calls
  <1>2. Writings' = [Writings EXCEPT ![p] = TRUE]
    BY <1>1, OthersStay, WritingsChange
  <1>3. Seen' = Seen
    BY <1>1, SeenChanges
  <1>4. Contract!Disturb(p)
    BY <1>1, <1>2, <1>3, SameTerms DEF Contract!Disturb, Contract!calls, calls, Writings, Seen
  <1>5. QED
    BY <1>4 DEF Step, Contract!CNext

\* A call that fails may have changed nothing.
LEMMA KeepsNothing ==
  ASSUME TypeInv, NEW p \in Call, UNCHANGED fs, NEW e \in {"noSpace", "error"},
         e = "noSpace" => Is(p, {"put", "copy"})
  PROVE  Contract!Keeps(p, e)
  <1>1. Store' = Store /\ Store' = [Store EXCEPT ![job[p].key] = Store[job[p].key]]
    BY StoreStays, CallTypes DEF Store
  <1>2. PICK none \in SUBSET Under[job[p].key] : none = {}
    OBVIOUS
  <1>3. CASE Is(p, {"put"})
    BY <1>1, <1>3, KeepsPut
  <1>4. CASE Is(p, {"copy"})
    BY <1>1, <1>4, KeepsCopy
  <1>5. CASE Is(p, {"delete"})
    BY <1>1, <1>5, KeepsDelete DEF Is
  <1>6. CASE Is(p, {"stat", "get"})
    BY <1>1, <1>6, KeepsRead
  <1>7. CASE Is(p, {"deleteDir"})
    <2>1. Store' = [k \in Key |-> IF k \in none THEN Absent ELSE Store[k]]
      BY <1>1, <1>2 DEF Store
    <2>2. e = "error"
      BY <1>7 DEF Is
    <2>3. QED
      BY <1>7, <2>1, <2>2, KeepsClears
  <1>8. QED
    BY <1>3, <1>4, <1>5, <1>6, <1>7, CallTypes DEF Is

\* One lemma for each action: it is a step of the contract.
LEMMA StatStep ==
  ASSUME ContractInv, NEW p \in Call, Stat(p)
  PROVE  Step
  <1>1. /\ TypeInv /\ pc[p] = "stat" /\ pc[p] \in Busy /\ Steps(p) /\ UNCHANGED <<fs, fds, kills>>
        /\ Is(p, {"stat", "delete"}) /\ ~Wrote(p) /\ ~Is(p, {"get"})
    BY DEF ContractInv, Stat, Busy, Steps, TypeInv, Control, Wrote, Is
  <1>2. /\ Store' = Store
        /\ Store[job[p].key] = Absent <=> dir[job[p].key] = NoFile
    BY <1>1, StoreStays, CallTypes, ResourceWhat DEF Store
  <1>3. CASE dir[job[p].key] = NoFile /\ Answer(p, "notFound")
    <2>1. Contract!Keeps(p, "notFound")
      <3>1. CASE Is(p, {"stat"})
        BY <1>2, <1>3, <3>1, KeepsRead DEF Is
      <3>2. CASE Is(p, {"delete"})
        BY <1>2, <1>3, <3>2, KeepsDelete
      <3>3. QED
        BY <1>1, <3>1, <3>2 DEF Is
    <2>2. QED
      BY <1>1, <1>3, <2>1, Answers DEF Result
  <1>4. CASE dir[job[p].key] # NoFile /\ Is(p, {"stat"}) /\ Answer(p, "nil")
    <2>1. Contract!Keeps(p, "nil")
      BY <1>2, <1>4, KeepsRead DEF Is
    <2>2. QED
      BY <1>1, <1>4, <2>1, Answers DEF Result
  <1>5. CASE Goto(p, "remove")
    <2>1. UNCHANGED calls /\ pc'[p] = "remove" /\ todo[p] = Targets(p)
      BY <1>1, <1>5 DEF Goto, TypeInv, TypeOK, ContractInv, Own, Waiting
    <2>2. ~Wrote(p)'
      BY <1>1, <2>1 DEF Wrote, Targets, Is, calls, fds
    <2>3. QED
      BY <1>1, <2>1, <2>2, Stutters
  <1>6. QED
    BY <1>3, <1>4, <1>5 DEF Stat

LEMMA OpenStep ==
  ASSUME ContractInv, NEW p \in Call, Open(p)
  PROVE  Step
  <1>1. /\ TypeInv /\ pc[p] = "open" /\ pc[p] \in Busy /\ Steps(p)
        /\ UNCHANGED <<fs, dest, off, got, todo, kills>>
        /\ Is(p, {"copy", "get"}) /\ ~Wrote(p)
    BY DEF ContractInv, Open, Busy, Steps, TypeInv, Control, Wrote, Is
  <1>2. /\ From(p) \in Key /\ Store' = Store
        /\ Store[From(p)] = Absent <=> dir[From(p)] = NoFile
    BY <1>1, StoreStays, CallTypes, ResourceWhat DEF Store, From
  <1>3. CASE dir[From(p)] = NoFile /\ Answer(p, "notFound") /\ UNCHANGED src
    <2>1. Contract!Keeps(p, "notFound")
      <3>1. CASE Is(p, {"copy"})
        BY <1>2, <1>3, <3>1, KeepsCopy DEF From
      <3>2. CASE Is(p, {"get"})
        <4>1. From(p) = job[p].key
          BY <3>2 DEF From, Is
        <4>2. QED
          BY <1>2, <1>3, <3>2, <4>1, KeepsRead DEF Is
      <3>3. QED
        BY <1>1, <3>1, <3>2 DEF Is
    <2>2. UNCHANGED <<fs, fds, kills>>
      BY <1>1, <1>3 DEF fds
    <2>3. QED
      BY <1>1, <1>3, <2>1, <2>2, Answers DEF Result
  <1>4. CASE Goto(p, IF Is(p, {"copy"}) THEN "create" ELSE "read")
    <2>1. UNCHANGED calls /\ pc'[p] \in {"create", "read"}
      BY <1>1, <1>4 DEF Goto, TypeInv, TypeOK
    <2>2. ~Wrote(p)'
      BY <2>1 DEF Wrote
    <2>3. QED
      BY <1>1, <2>1, <2>2, Stutters
  <1>5. QED
    BY <1>3, <1>4 DEF Open, From

\* What a call that writes has open, when others leave its keys alone.
LEMMA Undisturbed ==
  ASSUME ContractInv, NEW p \in Call, pc[p] \in {"create", "copy", "read"}, Clean(p)
  PROVE  /\ ~Is(p, {"put"}) => /\ dir[From(p)] = src[p] /\ src[p] \in Inode
                               /\ Resource(From(p)) = Reads(data[src[p]])
                               /\ Store[From(p)] = Reads(data[src[p]]) /\ Store[From(p)] # Absent
         /\ pc[p] = "copy" => /\ dir[job[p].key] = dest[p] /\ dest[p] \in Inode
                              /\ Resource(job[p].key) = Reads(data[dest[p]])
                              /\ Begun(data[dest[p]], Source(p), off[p])
  <1>1. From(p) \in Key /\ job[p].key \in Key /\ TypeInv /\ NoFile \notin Inode
    BY CallTypes, LocalAssumption DEF ContractInv, From, Inode
  <1>2. ASSUME ~Is(p, {"put"})
        PROVE  /\ dir[From(p)] = src[p] /\ src[p] \in Inode
               /\ Resource(From(p)) = Reads(data[src[p]])
               /\ Store[From(p)] = Reads(data[src[p]]) /\ Store[From(p)] # Absent
    <2>1. dir[From(p)] = src[p] /\ src[p] \in Inode
      BY <1>1, <1>2 DEF ContractInv, Own, Reading, TypeInv, Opened
    <2>2. QED
      BY <1>1, <2>1, ResourceWhat DEF Store
  <1>3. ASSUME pc[p] = "copy"
        PROVE  /\ dir[job[p].key] = dest[p] /\ dest[p] \in Inode
               /\ Resource(job[p].key) = Reads(data[dest[p]])
               /\ Begun(data[dest[p]], Source(p), off[p])
    <2>1. /\ dir[job[p].key] = dest[p] /\ dest[p] \in Inode
          /\ Begun(data[dest[p]], Source(p), off[p])
      BY <1>1, <1>3 DEF ContractInv, Own, Writing, TypeInv, Opened
    <2>2. QED
      BY <1>1, <2>1, ResourceWhat
  <1>4. QED
    BY <1>2, <1>3

\* Before everything is copied, what is there is torn.
LEMMA ShortIsTorn ==
  ASSUME ContractInv, NEW p \in Call, pc[p] = "copy", off[p] < Len(Source(p)), UNCHANGED fs
  PROVE  Store[job[p].key] = Torn \/ Contract!Clashes(p)
  <1> DEFINE file == data[dest[p]]
  <1>1. TypeInv /\ Is(p, {"put", "copy"}) /\ job[p].key \in Key
    BY CallTypes DEF ContractInv, TypeInv, Control
  <1>2. Clean(p) \/ Contract!Clashes(p)
    <2>1. Store' = Store /\ Store \in [Key -> Stored]
      BY <1>1, StoreStays, ResourceWhat DEF Store
    <2>2. ~Clean(p) => Uses(p) \cap contended[p] # {}
      BY DEF Clean, From, Uses
    <2>3. QED
      BY <2>1, <2>2, SameTerms DEF Contract!Clashes, Store
  <1>3. CASE Clean(p)
    <2>1. /\ dest[p] \in Inode /\ Resource(job[p].key) = Reads(file) /\ Begun(file, Source(p), off[p])
          /\ file \in Seq(Block)
      BY <1>1, <1>3, Undisturbed DEF TypeInv, TypeOK
    <2>2. Reads(Source(p)) \in Content \/ Contract!Clashes(p)
      <3>1. CASE Is(p, {"put"})
        BY <1>1, <3>1, CallTypes, ReadsWhat DEF Source
      <3>2. CASE Is(p, {"copy"})
        <4>1. Store[job[p].source] = Reads(Source(p)) /\ Store' = Store /\ Store \in [Key -> Stored]
          BY <1>1, <1>3, <3>2, Undisturbed, StoreStays, ResourceWhat DEF From, Source, Is, Store
        <4>2. Reads(Source(p)) = Torn => Contract!Clashes(p)
          BY <3>2, <4>1, SameTerms DEF Contract!Clashes, Store
        <4>3. QED
          BY <4>2, ReadsWhat
      <3>3. QED
        BY <1>1, <3>1, <3>2 DEF Is
    <2>3. ASSUME NEW c \in Content, c = Reads(Source(p)) PROVE Reads(file) = Torn
      <3>1. Source(p) = Blocks(c) /\ off[p] \in Nat
        BY <1>1, <2>3, ReadsWhat DEF TypeInv, TypeOK
      <3>2. Reads(file) \in {c, Torn}
        BY <2>1, <3>1, ReadsPart
      <3>3. Reads(file) = c => file = Blocks(c)
        BY ReadsWhat
      <3>4. file # Blocks(c)
        BY <2>1, <3>1 DEF Begun
      <3>5. QED
        BY <3>2, <3>3, <3>4
    <2>4. QED
      BY <1>1, <2>1, <2>2, <2>3 DEF Store
  <1>4. QED
    BY <1>2, <1>3

LEMMA FailStep ==
  ASSUME ContractInv, NEW p \in Call, Fail(p)
  PROVE  Step
  <1>1. PICK e \in {"noSpace", "error"} :
          /\ Answer(p, e)
          /\ e = "noSpace" => pc[p] = "create" \/ (pc[p] = "copy" /\ off[p] < Len(Source(p)))
    BY DEF Fail
  <1>2. TypeInv /\ pc[p] \in Busy /\ Steps(p) /\ e \in Result /\ UNCHANGED <<fs, fds, kills>>
    BY DEF ContractInv, Fail, Busy, Steps, Result
  <1>3. e = "noSpace" => Is(p, {"put", "copy"})
    BY <1>1, <1>2 DEF TypeInv, Control
  <1>4. Contract!Keeps(p, e)
    BY <1>2, <1>3, KeepsNothing
  <1>5. Wrote(p) /\ e = "noSpace" => Store[job[p].key] = Torn \/ Contract!Clashes(p)
    BY <1>1, <1>2, ShortIsTorn DEF Wrote
  <1>6. Wrote(p) => e # "nil" /\ e # "notFound"
    OBVIOUS
  <1>7. QED
    BY <1>1, <1>2, <1>4, <1>5, <1>6, Answers

\* The files of two keys are two.
LEMMA TwoFiles ==
  ASSUME TypeInv, NEW j \in Key, NEW k \in Key, j # k, NEW m \in Inode, NEW n \in Inode,
         Of(m, j), Of(n, k)
  PROVE  m # n
  BY LocalAssumption DEF Of, Inode

\* A file that a call writes, and others do not, has a part of its content.
LEMMA KeepsPart ==
  ASSUME ContractInv, NoSelfCopy, NEW p \in Call, Is(p, {"put", "copy"}), Steps(p), TypeInv', UNCHANGED job,
         Clean(p) => /\ dir'[job[p].key] = dest'[p] /\ dest'[p] \in Inode
                     /\ Begun(data'[dest'[p]], Source(p), off'[p]),
         Is(p, {"copy"}) /\ Clean(p) => Resource(job[p].source) = Reads(Source(p))
  PROVE  Contract!Keeps(p, "error")
  <1> DEFINE k == job[p].key
  <1>1. TypeInv /\ k \in Key /\ job[p].source \in Key /\ Writes(p) = {k} /\ ~Is(p, {"deleteDir"})
    BY CallTypes, WritesWhat DEF ContractInv, Is
  <1>2. \A j \in Key \ {k} : Resource(j)' = Resource(j)
    BY <1>1, StepTouches
  <1>3. Store' = [Store EXCEPT ![k] = Resource(k)']
    BY <1>1, <1>2, StoreChanges
  <1>4. CASE ~Clean(p)
    BY <1>1, <1>4, KeepsClash
  <1>5. ASSUME Clean(p), NEW c \in Content, Source(p) = Blocks(c) PROVE Resource(k)' \in {c, Torn}
    <2>1. NoFile \notin Inode
      BY LocalAssumption DEF Inode
    <2>2. Resource(k)' = Reads(data'[dest'[p]])
      BY <1>5, <2>1 DEF Resource, Reads
    <2>3. data'[dest'[p]] \in Seq(Block) /\ off'[p] \in Nat
      BY <1>5 DEF TypeInv, TypeOK
    <2>4. QED
      BY <1>5, <2>2, <2>3, ReadsPart
  <1>6. CASE Clean(p) /\ Is(p, {"put"})
    <2>1. Source(p) = Blocks(job[p].content) /\ job[p].content \in Content
      BY <1>1, <1>6, CallTypes DEF Source
    <2>2. QED
      BY <1>3, <1>5, <1>6, <2>1, KeepsPut
  <1>7. CASE Clean(p) /\ Is(p, {"copy"})
    <2>1. Store[job[p].source] = Reads(Source(p))
      BY <1>1, <1>7 DEF Store
    <2>2. CASE Reads(Source(p)) = Torn
      BY <1>1, <1>7, <2>1, <2>2, KeepsClash
    <2>3. CASE Reads(Source(p)) \in Content
      <3>1. Source(p) = Blocks(Reads(Source(p)))
        BY <2>3, ReadsWhat
      <3>2. Resource(k)' \in {Reads(Source(p)), Torn}
        BY <1>5, <1>7, <2>3, <3>1
      <3>3. Store[job[p].source] # Absent
        BY <2>1, <2>3, ResourcesAssumption
      <3>4. QED
        BY <1>3, <1>7, <2>1, <3>2, <3>3, KeepsCopy
    <2>4. QED
      BY <2>2, <2>3, ReadsWhat
  <1>8. QED
    BY <1>4, <1>6, <1>7 DEF Is

LEMMA CreateStep ==
  ASSUME ContractInv, NoSelfCopy, NEW p \in Call, Create(p)
  PROVE  Step
  <1>1. /\ TypeInv /\ TypeInv' /\ pc[p] = "create" /\ pc[p] \in Busy /\ Steps(p)
        /\ Is(p, {"put", "copy"}) /\ UNCHANGED calls /\ pc'[p] = "copy"
    BY TypeCreate DEF ContractInv, Create, Goto, Busy, Steps, TypeInv, TypeOK, Control
  <1> DEFINE n == IF dir[job[p].key] = NoFile THEN p ELSE dir[job[p].key]
  <1>2. /\ n \in Inode
        /\ dest' = [dest EXCEPT ![p] = n]
        /\ dir' = [dir EXCEPT ![job[p].key] = n]
        /\ data' = [data EXCEPT ![n] = <<>>]
    BY <1>1, CreateOpens
  <1> HIDE DEF n
  <1>3. dest'[p] = n /\ dir'[job[p].key] = n /\ data'[n] = <<>> /\ off'[p] = 0
    BY <1>1, <1>2, CallTypes DEF Create, TypeInv, TypeOK, Opened
  <1>4. Is(p, {"copy"}) /\ Clean(p) => Resource(job[p].source) = Reads(data[src[p]]) /\ src[p] \in Inode
    BY <1>1, Undisturbed DEF From, Is
  <1>5. Source(p) \in Seq(Block) \/ ~Clean(p)
    <2>1. CASE Is(p, {"put"})
      BY <1>1, <2>1, CallTypes, BlocksTyped DEF Source
    <2>2. CASE Is(p, {"copy"})
      BY <1>1, <1>4, <2>2 DEF Source, Is, TypeInv, TypeOK
    <2>3. QED
      BY <1>1, <2>1, <2>2 DEF Is
  <1>6. Clean(p) => Begun(data'[dest'[p]], Source(p), off'[p])
    BY <1>3, <1>5 DEF Begun
  <1>7. Is(p, {"copy"}) /\ Clean(p) => Resource(job[p].source) = Reads(Source(p))
    BY <1>4 DEF Source, Is
  <1>8. Contract!Keeps(p, "error")
    BY <1>1, <1>2, <1>3, <1>6, <1>7, KeepsPart DEF calls
  <1>9. QED
    BY <1>1, <1>8, Disturbs DEF Wrote

\* A block is copied: one more of them is there.
LEMMA CopiesBlock ==
  ASSUME ContractInv, NEW p \in Call, CopyBlock(p), Clean(p)
  PROVE  Begun(data'[dest[p]], Source(p), off'[p])
  <1> DEFINE n == off[p]
             file == data[dest[p]]
             b == Source(p)[n + 1]
             new == Written(file, n + 1, b)
  <1>1. /\ n \in Nat /\ b \in Block /\ n < Len(Source(p)) /\ Source(p) \in Seq(Block)
        /\ dest[p] \in Inode /\ file \in Seq(Block) /\ Begun(file, Source(p), n)
    BY Undisturbed, NextBlock, SourceTyped DEF CopyBlock, ContractInv, TypeInv, TypeOK
  <1>2. data'[dest[p]] = new /\ off'[p] = n + 1
    BY <1>1 DEF CopyBlock, ContractInv, TypeInv, TypeOK
  <1> HIDE DEF file, new
  <1>3. /\ Len(new) = IF n + 1 > Len(file) THEN n + 1 ELSE Len(file)
        /\ new[n + 1] = b
        /\ \A j \in 1..Len(file) : j # n + 1 => new[j] = file[j]
    <2>1. n + 1 \in Nat \ {0}
      BY <1>1
    <2>2. file \in Seq(Block) /\ b \in Block
      BY <1>1
    <2> HIDE DEF n, b
    <2>3. QED
      BY <2>1, <2>2, WrittenTyped, ZenonT(20) DEF new
  <1> HIDE DEF n, b
  <1>4. Len(file) = n /\ \A i \in 1..n : file[i] = Source(p)[i]
    BY <1>1 DEF Begun
  <1>5. Len(new) = n + 1 /\ n + 1 <= Len(Source(p))
    BY <1>1, <1>3, <1>4
  <1>6. ASSUME NEW i \in 1..(n + 1) PROVE new[i] = Source(p)[i]
    <2>1. CASE i = n + 1
      BY <1>3, <2>1 DEF b
    <2>2. CASE i # n + 1
      <3>1. i \in 1..n
        BY <1>1, <2>2
      <3>2. QED
        BY <1>3, <1>4, <2>2, <3>1
    <2>3. QED
      BY <2>1, <2>2
  <1>7. QED
    BY <1>2, <1>5, <1>6 DEF Begun

LEMMA CopyBlockStep ==
  ASSUME ContractInv, NoSelfCopy, NEW p \in Call, CopyBlock(p)
  PROVE  Step
  <1>1. /\ TypeInv /\ TypeInv' /\ pc[p] = "copy" /\ pc[p] \in Busy /\ Steps(p)
        /\ Is(p, {"put", "copy"}) /\ UNCHANGED <<calls, pc, dir, dest>>
    BY TypeCopyBlock DEF ContractInv, CopyBlock, Busy, Steps, TypeInv, Control
  <1>2. Clean(p) => /\ dir'[job[p].key] = dest'[p] /\ dest'[p] \in Inode
                    /\ Begun(data'[dest'[p]], Source(p), off'[p])
    BY <1>1, CopiesBlock, Undisturbed
  <1>3. Is(p, {"copy"}) /\ Clean(p) => Resource(job[p].source) = Reads(Source(p))
    BY <1>1, Undisturbed DEF From, Source, Is
  <1>4. Contract!Keeps(p, "error")
    BY <1>1, <1>2, <1>3, KeepsPart DEF calls
  <1>5. QED
    BY <1>1, <1>4, Disturbs DEF Wrote

LEMMA ReadBlockStep ==
  ASSUME ContractInv, NEW p \in Call, ReadBlock(p)
  PROVE  Step
  <1>1. pc[p] = "read" /\ pc[p] \in Busy /\ Steps(p) /\ UNCHANGED <<calls, fs, pc>>
    BY DEF ReadBlock, Busy, Steps
  <1>2. Wrote(p)' <=> Wrote(p)
    BY <1>1 DEF Wrote
  <1>3. QED
    BY <1>1, <1>2, Stutters

\* Two files with the same blocks.
LEMMA Whole ==
  ASSUME NEW file \in Seq(Block), NEW whole \in Seq(Block), Begun(file, whole, Len(whole))
  PROVE  file = whole
  BY DEF Begun

LEMMA EndOfFileStep ==
  ASSUME ContractInv, NoSelfCopy, NEW p \in Call, EndOfFile(p)
  PROVE  Step
  <1>1. /\ TypeInv /\ pc[p] \in {"copy", "read"} /\ pc[p] \in Busy /\ Steps(p) /\ UNCHANGED <<fs, fds, kills>>
        /\ off[p] >= Len(Source(p)) /\ Answer(p, "nil") /\ "nil" \in Result
    BY DEF ContractInv, EndOfFile, Busy, Steps, Result
  <1>2. /\ Source(p) \in Seq(Block) /\ off[p] \in Nat /\ job[p].key \in Key
        /\ Store' = Store /\ Store' = [Store EXCEPT ![job[p].key] = Resource(job[p].key)]
    BY <1>1, SourceTyped, StoreStays, CallTypes DEF TypeInv, TypeOK, Store
  <1>3. \A file \in Seq(Block) : Begun(file, Source(p), off[p]) => file = Source(p)
    <2> SUFFICES ASSUME NEW file \in Seq(Block), Begun(file, Source(p), off[p]) PROVE file = Source(p)
      OBVIOUS
    <2>1. off[p] = Len(Source(p))
      BY <1>1, <1>2 DEF Begun
    <2>2. QED
      BY <1>2, <2>1, Whole
  <1>4. CASE pc[p] = "copy"
    <2>1. Is(p, {"put", "copy"}) /\ ~Is(p, {"get"}) /\ ~Is(p, {"deleteDir"})
      BY <1>1, <1>4 DEF TypeInv, Control, Is
    <2>2. Clean(p) => Resource(job[p].key) = Reads(Source(p))
      <3>1. Clean(p) => Begun(data[dest[p]], Source(p), off[p]) /\ dest[p] \in Inode
        BY <1>4, Undisturbed
      <3>2. Clean(p) => data[dest[p]] = Source(p)
        BY <1>1, <1>3, <3>1 DEF TypeInv, TypeOK
      <3>3. QED
        BY <1>4, <3>2, Undisturbed
    <2>3. Contract!Keeps(p, "nil")
      <3>1. CASE ~Clean(p)
        BY <1>1, <2>1, <3>1, KeepsClash
      <3>2. CASE Clean(p) /\ Is(p, {"put"})
        <4>1. Source(p) = Blocks(job[p].content) /\ job[p].content \in Content
          BY <1>1, <3>2, CallTypes DEF Source
        <4>2. Resource(job[p].key) = job[p].content
          BY <2>2, <3>2, <4>1, ReadsWhat
        <4>3. QED
          BY <1>2, <3>2, <4>2, KeepsPut
      <3>3. CASE Clean(p) /\ Is(p, {"copy"})
        <4>1. Store[job[p].source] = Reads(Source(p)) /\ Store[job[p].source] # Absent
          BY <1>4, <3>3, Undisturbed DEF From, Source, Is
        <4>2. QED
          BY <1>2, <2>2, <3>3, <4>1, KeepsCopy
      <3>4. QED
        BY <2>1, <3>1, <3>2, <3>3 DEF Is
    <2>4. Is(p, {"copy"}) => job[p].source # job[p].key
      BY <1>1, CallTypes DEF NoSelfCopy, Is
    <2>5. QED
      BY <1>1, <2>1, <2>3, <2>4, Answers
  <1>5. CASE pc[p] = "read"
    <2>1. Is(p, {"get"}) /\ ~Is(p, {"put"}) /\ ~Is(p, {"deleteDir"}) /\ From(p) = job[p].key /\ ~Wrote(p)
      BY <1>1, <1>5 DEF TypeInv, Control, Is, From, Wrote
    <2>2. Clean(p) => got[p] = data[src[p]]
      <3>1. Clean(p) => Begun(got[p], Source(p), off[p])
        BY <1>5 DEF ContractInv, Own, Seeing
      <3>2. Clean(p) => got[p] = Source(p)
        BY <1>1, <1>3, <3>1 DEF TypeInv, TypeOK
      <3>3. QED
        BY <2>1, <3>2 DEF Source
    <2>3. Clean(p) => Reads(got[p]) = Resource(job[p].key) /\ Store[job[p].key] # Absent
      BY <1>5, <2>1, <2>2, Undisturbed
    <2>4. Contract!Keeps(p, "nil")
      <3>1. CASE ~Clean(p)
        BY <1>1, <2>1, <3>1, KeepsClash
      <3>2. CASE Clean(p)
        BY <1>2, <2>1, <2>3, <3>2, KeepsRead DEF Is
      <3>3. QED
        BY <3>1, <3>2
    <2>5. job[p].key \in contended[p] \/ Clean(p)
      BY <2>1 DEF Clean
    <2>6. QED
      BY <1>1, <2>1, <2>3, <2>4, <2>5, Answers
  <1>6. QED
    BY <1>1, <1>4, <1>5

LEMMA UnlinkStep ==
  ASSUME ContractInv, NEW p \in Call, Unlink(p)
  PROVE  Step
  <1>1. /\ TypeInv /\ pc[p] = "remove" /\ pc[p] \in Busy /\ Steps(p)
        /\ Is(p, {"delete", "deleteDir"}) /\ UNCHANGED <<calls, pc, data>>
    BY DEF ContractInv, Unlink, Busy, Steps, TypeInv, Control
  <1>2. PICK k \in todo[p] : /\ dir' = [dir EXCEPT ![k] = NoFile]
                             /\ todo' = [todo EXCEPT ![p] = @ \ {k}]
    BY DEF Unlink
  <1>3. k \in Targets(p) /\ k \in Key
    BY <1>1, CallTypes DEF TypeInv, Control
  <1>4. Wrote(p)'
    <2>1. k \notin todo'[p] /\ pc'[p] = "remove" /\ Targets(p)' = Targets(p)
      BY <1>1, <1>2 DEF TypeInv, TypeOK, Targets, Is, calls
    <2>2. QED
      BY <1>3, <2>1 DEF Wrote
  <1>5. Store' = [Store EXCEPT ![k] = Absent]
    <2>1. dir'[k] = NoFile /\ \A j \in Key \ {k} : dir'[j] = dir[j]
      BY <1>1, <1>2, <1>3 DEF TypeInv, TypeOK
    <2>2. Resource(k)' = Absent
      BY <2>1 DEF Resource
    <2>3. \A j \in Key \ {k} : Resource(j)' = Resource(j)
      BY <1>1, <2>1, SameResource
    <2>4. QED
      BY <1>3, <2>2, <2>3, StoreChanges
  <1>6. Contract!Keeps(p, "error")
    <2>1. CASE Is(p, {"delete"})
      <3>1. k = job[p].key
        BY <1>3, <2>1 DEF Targets, Is
      <3>2. QED
        BY <1>5, <2>1, <3>1, KeepsDelete
    <2>2. CASE Is(p, {"deleteDir"})
      <3>1. PICK ks \in SUBSET Under[job[p].key] : ks = {k}
        BY <1>3, <2>2 DEF Targets
      <3>2. Store' = [j \in Key |-> IF j \in ks THEN Absent ELSE Store[j]]
        BY <1>5, <3>1 DEF Store
      <3>3. QED
        BY <1>1, <2>2, <3>2, KeepsClears
    <2>3. QED
      BY <1>1, <2>1, <2>2 DEF Is
  <1>7. QED
    BY <1>1, <1>4, <1>6, Disturbs

LEMMA RemovedStep ==
  ASSUME ContractInv, NEW p \in Call, Removed(p)
  PROVE  Step
  <1>1. /\ TypeInv /\ pc[p] = "remove" /\ pc[p] \in Busy /\ Steps(p) /\ UNCHANGED <<fs, fds, kills>>
        /\ Is(p, {"delete", "deleteDir"}) /\ ~Is(p, {"get"}) /\ ~Is(p, {"copy"})
    BY DEF ContractInv, Removed, Busy, Steps, TypeInv, Control, Is
  <1>2. CASE Answer(p, "error")
    <2>1. Contract!Keeps(p, "error")
      BY <1>1, KeepsNothing
    <2>2. QED
      BY <1>1, <1>2, <2>1, Answers DEF Result
  <1>3. CASE todo[p] = {} /\ (\A k \in Under[job[p].key] : dir[k] = NoFile) /\ Answer(p, "nil")
    <2>1. Store' = Store /\ \A k \in Key : dir[k] = NoFile => Store[k] = Absent
      BY <1>1, StoreStays, ResourceWhat DEF Store
    <2>2. Contract!Keeps(p, "nil")
      <3>1. CASE Is(p, {"deleteDir"})
        <4>1. PICK none \in SUBSET Under[job[p].key] : none = {}
          OBVIOUS
        <4>2. Store' = [k \in Key |-> IF k \in none THEN Absent ELSE Store[k]]
          BY <2>1, <4>1 DEF Store
        <4>3. \A k \in Under[job[p].key] : Store'[k] = Absent
          BY <1>1, <1>3, <2>1, CallTypes
        <4>4. QED
          BY <1>1, <3>1, <4>2, <4>3, KeepsClears
      <3>2. CASE Is(p, {"delete"}) /\ ~Clean(p)
        BY <1>1, <3>2, KeepsClash DEF Is
      <3>3. CASE Is(p, {"delete"}) /\ Clean(p)
        <4>1. job[p].key \in Targets(p) /\ job[p].key \notin contended[p] /\ job[p].key \in Key
          BY <1>1, <3>3, CallTypes DEF Targets, Clean, Is
        <4>2. dir[job[p].key] = NoFile
          BY <1>1, <1>3, <4>1 DEF ContractInv, Own, Removing
        <4>3. Store' = [Store EXCEPT ![job[p].key] = Absent]
          BY <2>1, <4>1, <4>2 DEF Store
        <4>4. QED
          BY <3>3, <4>3, KeepsDelete
      <3>4. QED
        BY <1>1, <3>1, <3>2, <3>3 DEF Is
    <2>3. QED
      BY <1>1, <1>3, <2>2, Answers DEF Result
  <1>4. QED
    BY <1>2, <1>3 DEF Removed

-----------------------------------------------------------------------------
(* What a call knows stays true.                                            *)

\* Of a call that has returned nothing is known.
LEMMA DoneOwn ==
  ASSUME NEW p \in Call, pc'[p] = "done"
  PROVE  Own(p)'
  BY DEF Own, Reading, Writing, Seeing, Removing, Waiting

\* A step of one call leaves what another knows.
LEMMA OthersOwn ==
  ASSUME ContractInv, NEW p \in Call, Steps(p), ~Start(p), NEW q \in Call \ {p}
  PROVE  Own(q)'
  <1>1. TypeInv /\ pc[p] \in Busy
    BY DEF ContractInv, Steps, Fail, Stat, Open, Create, CopyBlock, ReadBlock, EndOfFile, Unlink, Removed, Busy
  <1>2. /\ pc'[q] = pc[q] /\ dest'[q] = dest[q] /\ off'[q] = off[q] /\ src'[q] = src[q]
        /\ got'[q] = got[q] /\ todo'[q] = todo[q] /\ contended'[q] = contended[q] /\ UNCHANGED job
    BY <1>1, StepIsLocal, OthersStay
  <1>3. /\ From(q)' = From(q) /\ (Clean(q)' <=> Clean(q)) /\ Targets(q)' = Targets(q)
        /\ \A K : Is(q, K)' <=> Is(q, K)
    BY <1>2 DEF From, Clean, Targets, Is
  <1>4. Waiting(q)'
    BY <1>2, <1>3 DEF ContractInv, Own, Waiting
  <1>5. CASE pc[q] \notin Busy
    BY <1>2, <1>4, <1>5 DEF Busy, Own, Reading, Writing, Seeing, Removing
  <1>6. CASE pc[q] \in Busy
    <2>1. Writes(p) \subseteq contended[q]
      BY <1>1, <1>6, IsRunning DEF ContractInv, Crowded
    <2>2. \A k \in Key : k \notin contended[q] =>
            dir'[k] = dir[k] /\ (dir[k] # NoFile => data'[dir[k]] = data[dir[k]])
      BY <1>1, <2>1, OthersFiles
    <2>3. From(q) \in Key /\ job[q].key \in Key /\ Targets(q) \subseteq Key
      BY <1>1, CallTypes DEF From
    <2>4. Clean(q) => /\ dir'[From(q)] = dir[From(q)] /\ dir'[job[q].key] = dir[job[q].key]
                      /\ dir[From(q)] # NoFile => data'[dir[From(q)]] = data[dir[From(q)]]
                      /\ dir[job[q].key] # NoFile => data'[dir[job[q].key]] = data[dir[job[q].key]]
      BY <2>2, <2>3 DEF Clean
    <2>5. Reading(q)'
      BY <1>2, <1>3, <2>4 DEF ContractInv, Own, Reading
    <2>6. pc[q] \in {"copy", "read"} /\ Clean(q) => Source(q)' = Source(q)
      <3>1. CASE Is(q, {"put"})
        BY <1>2, <3>1 DEF Source, Is, Blocks
      <3>2. CASE ~Is(q, {"put"})
        <4>1. pc[q] \in {"copy", "read"} /\ Clean(q) => dir[From(q)] = src[q] /\ src[q] \in Inode
          BY <3>2, Undisturbed
        <4>2. NoFile \notin Inode
          BY LocalAssumption DEF Inode
        <4>3. QED
          BY <1>2, <1>3, <2>4, <3>2, <4>1, <4>2 DEF Source
      <3>3. QED
        BY <3>1, <3>2
    <2>7. Writing(q)'
      <3>1. SUFFICES ASSUME pc[q] = "copy", Clean(q)
                     PROVE  /\ dir'[job[q].key] = dest[q]
                            /\ Begun(data'[dest[q]], Source(q)', off[q])
        BY <1>2, <1>3 DEF Writing, Begun
      <3>2. dir[job[q].key] = dest[q] /\ dest[q] \in Inode /\ Begun(data[dest[q]], Source(q), off[q])
        BY <3>1, Undisturbed
      <3>3. NoFile \notin Inode
        BY LocalAssumption DEF Inode
      <3>4. QED
        BY <2>4, <2>6, <3>1, <3>2, <3>3
    <2>8. Seeing(q)'
      BY <1>2, <1>3, <2>6 DEF ContractInv, Own, Seeing, Begun
    <2>9. Removing(q)'
      BY <1>2, <1>3, <2>2, <2>3 DEF ContractInv, Own, Removing
    <2>10. QED
      BY <1>4, <2>5, <2>7, <2>8, <2>9 DEF Own
  <1>7. QED
    BY <1>5, <1>6

\* What a call knows after its own step.
LEMMA OpenOwn ==
  ASSUME ContractInv, NEW p \in Call, Open(p)
  PROVE  Own(p)'
  <1>1. TypeInv /\ TypeInv' /\ pc[p] = "open" /\ Is(p, {"copy", "get"}) /\ got[p] = <<>> /\ off[p] = 0
    BY TypeOpen DEF ContractInv, Open, TypeInv, Control, Opened, Own, Waiting
  <1>2. CASE Answer(p, "notFound")
    BY <1>1, <1>2, DoneOwn DEF Answer, TypeInv, TypeOK
  <1>3. CASE /\ dir[From(p)] # NoFile /\ src' = [src EXCEPT ![p] = dir[From(p)]]
             /\ Goto(p, IF Is(p, {"copy"}) THEN "create" ELSE "read")
    <2>1. /\ UNCHANGED <<calls, fs, got, off>> /\ src'[p] = dir[From(p)] /\ dir[From(p)] \in Inode
          /\ pc'[p] \in {"create", "read"}
      BY <1>1, <1>3, CallTypes DEF Open, Goto, From, TypeInv, TypeOK
    <2>2. Reading(p)'
      BY <2>1 DEF Reading, From, Is, calls, fs
    <2>3. pc'[p] = "read" => Source(p)' = data[src'[p]]
      BY <1>1, <2>1 DEF Source, Is, calls, fs
    <2>4. Seeing(p)'
      <3>1. data[src'[p]] \in Seq(Block)
        BY <1>1, <2>1 DEF TypeInv, TypeOK
      <3>2. Begun(<<>>, data[src'[p]], 0)
        BY <3>1 DEF Begun
      <3>3. QED
        BY <1>1, <2>1, <2>3, <3>2 DEF Seeing
    <2>5. QED
      BY <2>1, <2>2, <2>4 DEF Own, Writing, Removing, Waiting
  <1>4. QED
    BY <1>2, <1>3 DEF Open, From

LEMMA CreateOwn ==
  ASSUME ContractInv, NoSelfCopy, NEW p \in Call, Create(p)
  PROVE  Own(p)'
  <1>1. /\ TypeInv /\ TypeInv' /\ pc[p] = "create" /\ Is(p, {"put", "copy"}) /\ off[p] = 0
        /\ UNCHANGED <<calls, src, off>> /\ pc'[p] = "copy"
    BY TypeCreate DEF ContractInv, Create, Goto, TypeInv, TypeOK, Control, Opened
  <1> DEFINE n == IF dir[job[p].key] = NoFile THEN p ELSE dir[job[p].key]
  <1>2. /\ n \in Inode
        /\ dest' = [dest EXCEPT ![p] = n]
        /\ dir' = [dir EXCEPT ![job[p].key] = n]
        /\ data' = [data EXCEPT ![n] = <<>>]
    BY <1>1, CreateOpens
  <1> HIDE DEF n
  <1>3. dest'[p] = n /\ dir'[job[p].key] = n /\ data'[n] = <<>>
    BY <1>1, <1>2, CallTypes DEF TypeInv, TypeOK
  <1>4. Reading(p)'
    <2>1. SUFFICES ASSUME Is(p, {"copy"}), Clean(p) PROVE dir'[From(p)] = src[p]
      BY <1>1 DEF Reading, From, Clean, Is, calls
    <2>2. From(p) # job[p].key /\ From(p) \in Key
      BY <1>1, <2>1, CallTypes DEF From, NoSelfCopy, Is
    <2>3. dir[From(p)] = src[p]
      BY <1>1, <2>1, Undisturbed DEF Is
    <2>4. QED
      BY <1>1, <1>2, <2>2, <2>3, CallTypes DEF TypeInv, TypeOK
  <1>5. Source(p)' \in Seq(Block)
    <2>1. CASE Is(p, {"put"})
      <3>1. Source(p)' = Blocks(job[p].content)
        BY <1>1, <2>1 DEF Source, Is, Blocks, calls
      <3>2. QED
        BY <1>1, <2>1, <3>1, CallTypes, BlocksTyped
    <2>2. CASE ~Is(p, {"put"})
      <3>1. Source(p)' = data'[src'[p]] /\ src'[p] \in Inode
        BY <1>1, <2>2 DEF Source, Is, calls, TypeInv, Opened
      <3>2. QED
        BY <1>1, <3>1 DEF TypeInv, TypeOK
    <2>3. QED
      BY <2>1, <2>2
  <1>6. Writing(p)'
    <2>1. Begun(data'[dest'[p]], Source(p)', off'[p])
      BY <1>1, <1>3, <1>5 DEF Begun
    <2>2. QED
      BY <1>1, <1>3, <2>1 DEF Writing, Begun, calls
  <1>7. QED
    BY <1>1, <1>4, <1>6 DEF Own, Seeing, Removing, Waiting

LEMMA CopyBlockOwn ==
  ASSUME ContractInv, NoSelfCopy, NEW p \in Call, CopyBlock(p)
  PROVE  Own(p)'
  <1>1. /\ TypeInv /\ pc[p] = "copy" /\ Is(p, {"put", "copy"})
        /\ UNCHANGED <<calls, pc, dir, src, dest>>
    BY DEF ContractInv, CopyBlock, TypeInv, Control
  <1>2. /\ (Clean(p)' <=> Clean(p)) /\ From(p)' = From(p) /\ \A K : Is(p, K)' <=> Is(p, K)
    BY <1>1 DEF Clean, From, Is, calls
  <1>3. Reading(p)'
    BY <1>1, <1>2 DEF ContractInv, Own, Reading
  <1>4. Clean(p) => Source(p)' = Source(p)
    <2>1. CASE Is(p, {"put"})
      BY <1>1, <2>1 DEF Source, Is, Blocks, calls
    <2>2. CASE Is(p, {"copy"})
      <3>1. SUFFICES ASSUME Clean(p) PROVE Source(p)' = Source(p)
        OBVIOUS
      <3>2. ~Is(p, {"put"}) /\ From(p) # job[p].key /\ From(p) \in Key /\ job[p].key \in Key
        BY <1>1, <2>2, CallTypes DEF From, NoSelfCopy, Is
      <3>3. src[p] = dir[From(p)] /\ src[p] \in Inode /\ dest[p] = dir[job[p].key] /\ dest[p] \in Inode
        BY <1>1, <3>1, <3>2, Undisturbed
      <3>4. src[p] # dest[p]
        BY <1>1, <3>2, <3>3, TwoFiles DEF TypeInv, Owned
      <3>5. data'[src[p]] = data[src[p]]
        BY <3>3, <3>4 DEF CopyBlock, ContractInv, TypeInv, TypeOK
      <3>6. QED
        BY <1>1, <1>2, <3>2, <3>5 DEF Source
    <2>3. QED
      BY <1>1, <2>1, <2>2 DEF Is
  <1>5. Writing(p)'
    <2>1. SUFFICES ASSUME Clean(p)
                   PROVE  dir[job[p].key] = dest[p] /\ Begun(data'[dest[p]], Source(p), off'[p])
      BY <1>1, <1>2, <1>4 DEF Writing, Begun, calls
    <2>2. QED
      BY <1>1, <2>1, Undisturbed, CopiesBlock
  <1>6. QED
    BY <1>1, <1>3, <1>5 DEF Own, Seeing, Removing, Waiting

LEMMA ReadBlockOwn ==
  ASSUME ContractInv, NEW p \in Call, ReadBlock(p)
  PROVE  Own(p)'
  <1> DEFINE n == off[p]
             file == got[p]
             b == Source(p)[n + 1]
  <1>1. /\ TypeInv /\ pc[p] = "read" /\ UNCHANGED <<calls, pc, fs, src, dest>>
        /\ n \in Nat /\ b \in Block /\ n < Len(Source(p)) /\ Source(p) \in Seq(Block) /\ file \in Seq(Block)
        /\ got'[p] = Append(file, b) /\ off'[p] = n + 1
    BY NextBlock, SourceTyped DEF ReadBlock, ContractInv, TypeInv, TypeOK
  <1>2. /\ (Clean(p)' <=> Clean(p)) /\ From(p)' = From(p) /\ \A K : Is(p, K)' <=> Is(p, K)
    BY <1>1 DEF Clean, From, Is, calls
  <1>3. Reading(p)'
    BY <1>1, <1>2 DEF ContractInv, Own, Reading, fs
  <1>4. Source(p)' = Source(p)
    BY <1>1 DEF Source, Is, Blocks, calls, fs
  <1>5. ASSUME Begun(file, Source(p), n) PROVE Begun(Append(file, b), Source(p), n + 1)
    <2>1. Len(file) = n /\ \A i \in 1..n : file[i] = Source(p)[i]
      BY <1>5 DEF Begun
    <2> HIDE DEF n, file, b
    <2>2. Len(Append(file, b)) = n + 1 /\ Append(file, b)[n + 1] = b /\ n + 1 <= Len(Source(p))
      BY <1>1, <2>1
    <2>3. \A i \in 1..n : Append(file, b)[i] = file[i]
      BY <1>1, <2>1
    <2>4. \A i \in 1..(n + 1) : i = n + 1 \/ i \in 1..n
      BY <1>1
    <2>5. QED
      BY <2>1, <2>2, <2>3, <2>4 DEF Begun, b
  <1>6. Seeing(p)'
    <2>1. Clean(p) => Begun(got'[p], Source(p), off'[p])
      BY <1>1, <1>5 DEF ContractInv, Own, Seeing
    <2>2. QED
      BY <1>1, <1>2, <1>4, <2>1 DEF Seeing, Begun
  <1>7. QED
    BY <1>1, <1>3, <1>6 DEF Own, Writing, Removing, Waiting

LEMMA UnlinkOwn ==
  ASSUME ContractInv, NEW p \in Call, Unlink(p)
  PROVE  Own(p)'
  <1>1. TypeInv /\ pc[p] = "remove" /\ UNCHANGED <<calls, pc>>
    BY DEF ContractInv, Unlink
  <1>2. PICK k \in todo[p] : /\ dir' = [dir EXCEPT ![k] = NoFile]
                             /\ todo' = [todo EXCEPT ![p] = @ \ {k}]
    BY DEF Unlink
  <1>3. /\ Targets(p)' = Targets(p) /\ Targets(p) \subseteq Key
        /\ todo'[p] = todo[p] \ {k} /\ k \in Key
        /\ \A j \in Key : dir'[j] = IF j = k THEN NoFile ELSE dir[j]
    BY <1>1, <1>2, CallTypes DEF Targets, Is, calls, TypeInv, TypeOK
  <1>4. Removing(p)'
    BY <1>1, <1>3 DEF ContractInv, Own, Removing, calls
  <1>5. QED
    BY <1>1, <1>4 DEF Own, Reading, Writing, Seeing, Waiting

-----------------------------------------------------------------------------
(* The invariant, and the refinement.                                       *)

\* A step of a call, but its first.
LEMMA InvSteps ==
  ASSUME ContractInv, NoSelfCopy, NEW p \in Call, Steps(p), ~Start(p)
  PROVE  ContractInv'
  <1>1. TypeInv /\ TypeInv' /\ pc[p] \in Busy
    <2>1. TypeInv'
      BY TypeFail, TypeStat, TypeOpen, TypeCreate, TypeCopyBlock, TypeReadBlock,
         TypeEndOfFile, TypeUnlink, TypeRemoved DEF ContractInv, Steps
    <2>2. QED
      BY <2>1 DEF ContractInv, Steps, Fail, Stat, Open, Create, CopyBlock, ReadBlock, EndOfFile, Unlink, Removed, Busy
  <1>2. Own(p)'
    <2>1. CASE Fail(p) \/ EndOfFile(p) \/ Removed(p)
      <3>1. pc'[p] = "done"
        BY <1>1, <2>1 DEF Fail, EndOfFile, Removed, Answer, TypeInv, TypeOK
      <3>2. QED
        BY <3>1, DoneOwn
    <2>2. CASE Stat(p)
      <3>1. pc'[p] = "done" \/ /\ pc'[p] = "remove" /\ UNCHANGED <<calls, todo>>
                               /\ todo[p] = Targets(p)
        BY <1>1, <2>2 DEF Stat, Answer, Goto, TypeInv, TypeOK, fds, ContractInv, Own, Waiting
      <3>2. CASE pc'[p] = "remove" /\ UNCHANGED <<calls, todo>> /\ todo[p] = Targets(p)
        BY <3>2 DEF Own, Reading, Writing, Seeing, Removing, Waiting, Targets, Is, calls
      <3>3. QED
        BY <3>1, <3>2, DoneOwn
    <2>3. QED
      BY <2>1, <2>2, OpenOwn, CreateOwn, CopyBlockOwn, ReadBlockOwn, UnlinkOwn DEF Steps
  <1>3. \A q \in Call : Own(q)'
    BY <1>2, OthersOwn
  <1>4. Crowded'
    <2>1. UNCHANGED job /\ \A q \in Call \ {p} : answer'[q] = answer[q] /\ contended'[q] = contended[q]
      BY <1>1, StepIsLocal, OthersStay
    <2>2. Running(p) /\ contended'[p] = contended[p]
      <3>1. CASE Fail(p) \/ Stat(p) \/ EndOfFile(p) \/ Removed(p)
        BY <1>1, <3>1, IsRunning DEF Fail, Stat, EndOfFile, Removed, Answer, Goto, calls
      <3>2. CASE Open(p) \/ Create(p) \/ CopyBlock(p) \/ ReadBlock(p) \/ Unlink(p)
        BY <1>1, <3>2, IsRunning DEF Open, Create, CopyBlock, ReadBlock, Unlink, Answer, Goto, calls
      <3>3. QED
        BY <3>1, <3>2 DEF Steps
    <2>3. \A q \in Call : /\ Running(q)' => Running(q)
                          /\ Writes(q)' = Writes(q) /\ contended'[q] = contended[q]
      BY <2>1, <2>2 DEF Running, Writes, Is
    <2>4. QED
      BY <2>3 DEF ContractInv, Crowded
  <1>5. QED
    BY <1>1, <1>3, <1>4 DEF ContractInv

\* A call that starts has done nothing yet.
LEMMA InvStart ==
  ASSUME ContractInv, NEW p \in Call, Start(p)
  PROVE  ContractInv' /\ Step
  <1>1. /\ TypeInv /\ TypeInv' /\ Steps(p) /\ pc[p] = "idle" /\ answer[p] = "idle"
        /\ UNCHANGED <<job, fs, src, dest, off, got, kills>>
    BY TypeStart DEF ContractInv, Steps, Start, Begins, TypeInv, Control
  <1>2. /\ answer' = [answer EXCEPT ![p] = "running"]
        /\ contended' = [q \in Call |->
             IF q = p THEN UNION {Writes(r) : r \in {s \in Call : Running(s)}}
             ELSE contended[q] \cup (IF Running(q) THEN Writes(p) ELSE {})]
        /\ todo' = [todo EXCEPT ![p] = Targets(p)]
    BY DEF Start, Begins
  <1>3. \A q \in Call \ {p} : /\ pc'[q] = pc[q] /\ todo'[q] = todo[q]
                              /\ contended[q] \subseteq contended'[q]
    BY <1>1, <1>2, StepIsLocal, OthersStay
  <1>4. /\ todo'[p] = Targets(p) /\ Targets(p)' = Targets(p)
        /\ \A q \in Call : (Running(q)' <=> (q = p \/ Running(q))) /\ Writes(q)' = Writes(q)
    BY <1>1, <1>2 DEF Running, Writes, Targets, Is, TypeInv, TypeOK, CallsTypeOK
  <1>5. pc'[p] \in {"create", "open", "stat", "remove"} /\ (pc'[p] = "create" => Is(p, {"put"}))
    <2>1. CASE Is(p, {"put"})
      BY <1>1, <2>1 DEF Start, Is, TypeInv, TypeOK
    <2>2. CASE Is(p, {"copy", "get"})
      BY <1>1, <2>2 DEF Start, Is, TypeInv, TypeOK
    <2>3. CASE Is(p, {"stat", "delete"})
      BY <1>1, <2>3 DEF Start, Is, TypeInv, TypeOK
    <2>4. CASE Is(p, {"deleteDir"})
      BY <1>1, <2>4 DEF Start, Is, TypeInv, TypeOK
    <2>5. QED
      BY <1>1, <2>1, <2>2, <2>3, <2>4, CallTypes DEF Is
  <1>6. Crowded'
    <2> SUFFICES ASSUME NEW q \in Call, NEW r \in Call, q # r, Running(q)', Running(r)'
                 PROVE  Writes(r) \subseteq contended'[q]
      BY <1>4 DEF Crowded
    <2>1. CASE q = p
      <3>1. Running(r)
        BY <1>4, <2>1
      <3>2. QED
        BY <1>2, <2>1, <3>1
    <2>2. CASE q # p /\ r = p
      <3>1. Running(q)
        BY <1>4, <2>2
      <3>2. QED
        BY <1>2, <2>2, <3>1
    <2>3. CASE q # p /\ r # p
      <3>1. Running(q) /\ Running(r) /\ contended[q] \subseteq contended'[q]
        BY <1>3, <1>4, <2>3
      <3>2. QED
        BY <3>1 DEF ContractInv, Crowded
    <2>4. QED
      BY <2>1, <2>2, <2>3
  <1>7. Own(p)'
    <2>1. Reading(p)' /\ Writing(p)' /\ Seeing(p)'
      BY <1>1, <1>5 DEF Reading, Writing, Seeing, Is
    <2>2. Removing(p)'
      BY <1>4 DEF Removing
    <2>3. Waiting(p)'
      BY <1>1, <1>4 DEF ContractInv, Own, Waiting
    <2>4. QED
      BY <2>1, <2>2, <2>3 DEF Own
  <1>8. ASSUME NEW q \in Call \ {p} PROVE Own(q)'
    <2>1. /\ From(q)' = From(q) /\ (Clean(q)' => Clean(q)) /\ Targets(q)' = Targets(q)
          /\ Source(q)' = Source(q) /\ \A K : Is(q, K)' <=> Is(q, K)
      BY <1>1, <1>3 DEF From, Clean, Targets, Source, Is, Blocks, fs
    <2>2. Reading(q)'
      BY <1>1, <1>3, <2>1 DEF ContractInv, Own, Reading, fs
    <2>3. Writing(q)' /\ Seeing(q)'
      BY <1>1, <1>3, <2>1 DEF ContractInv, Own, Writing, Seeing, Begun, fs
    <2>4. Removing(q)'
      BY <1>1, <1>3, <2>1 DEF ContractInv, Own, Removing, fs
    <2>5. Waiting(q)'
      BY <1>1, <1>3, <2>1 DEF ContractInv, Own, Waiting
    <2>6. QED
      BY <2>2, <2>3, <2>4, <2>5 DEF Own
  <1>9. ContractInv'
    BY <1>1, <1>6, <1>7, <1>8 DEF ContractInv
  <1>10. Contract!Begin(p)
    <2>1. {s \in Call : Contract!Running(s)} = {s \in Call : Running(s)}
      BY SameTerms
    <2>2. {Contract!Writes(r) : r \in {s \in Call : Contract!Running(s)}}
            = {Writes(r) : r \in {s \in Call : Running(s)}}
      BY <2>1, SameTerms
    <2>3. contended' = [q \in Call |->
             IF q = p THEN UNION {Contract!Writes(r) : r \in {s \in Call : Contract!Running(s)}}
             ELSE contended[q] \cup (IF Contract!Running(q) THEN Contract!Writes(p) ELSE {})]
      BY <1>2, <2>2, SameTerms
    <2>4. Contract!Begins(p)
      BY <1>1, <1>2, <2>3 DEF Contract!Begins
    <2>5. Writings' = Writings
      <3>1. ~Wrote(p) /\ ~Wrote(p)'
        BY <1>1, <1>4, <1>5 DEF Wrote
      <3>2. QED
        BY <1>1, <3>1, OthersStay, WritingsChange
    <2>6. Seen' = Seen
      BY <1>1, <1>2, SeenChanges DEF TypeInv, TypeOK, CallsTypeOK
    <2>7. Store' = Store
      BY <1>1, StoreStays
    <2>8. QED
      BY <2>4, <2>5, <2>6, <2>7 DEF Contract!Begin, Store, Writings, Seen
  <1>11. QED
    BY <1>9, <1>10 DEF Step, Contract!CNext

\* A kill ends all running calls, here and in the contract.
LEMMA InvKill ==
  ASSUME ContractInv, Kill
  PROVE  ContractInv' /\ Step
  <1>1. TypeInv /\ TypeInv'
    BY TypeKill DEF ContractInv
  <1>2. /\ answer' = [q \in Call |-> IF Running(q) THEN "killed" ELSE answer[q]]
        /\ pc' = [q \in Call |-> IF Running(q) THEN "done" ELSE pc[q]]
        /\ UNCHANGED <<job, contended, fs, fds>>
    BY DEF Kill, Killed
  <1>3. \A q \in Call : ~Running(q)' /\ pc'[q] \in {"idle", "done"}
    BY <1>1, <1>2, IsRunning DEF Running, Busy, TypeInv, TypeOK
  <1>4. Crowded'
    BY <1>3 DEF Crowded
  <1>5. ASSUME NEW q \in Call PROVE Own(q)'
    <2>1. pc'[q] = "done" \/ (pc'[q] = "idle" /\ pc[q] = "idle")
      BY <1>2, <1>3
    <2>2. CASE pc'[q] = "idle" /\ pc[q] = "idle"
      BY <1>2, <2>2 DEF ContractInv, Own, Reading, Writing, Seeing, Removing, Waiting, fds
    <2>3. QED
      BY <2>1, <2>2, DoneOwn
  <1>6. Writings' = [q \in Call |-> FALSE]
    <2> DEFINE f == Writings'
               g == [q \in Call |-> FALSE]
    <2>1. f \in [Call -> BOOLEAN] /\ g \in [Call -> BOOLEAN]
      BY DEF Writings, Wrote
    <2>2. \A q \in Call : f[q] <=> g[q]
      BY <1>3 DEF Writings, Wrote
    <2> HIDE DEF f, g
    <2>3. f = g
      BY <2>1, <2>2, SameClaims
    <2>4. QED
      BY <2>3 DEF f, g
  <1>7. Seen' = Seen
    <2>1. \A q \in Call : answer'[q] = "nil" <=> answer[q] = "nil"
      BY <1>2 DEF Running
    <2>2. \A q \in Call : Reads(got[q])' = Reads(got[q])
      BY <1>2 DEF Reads, Blocks, fds
    <2>3. QED
      BY <1>2, <2>1, <2>2 DEF Seen, Is
  <1>8. Store' = Store
    BY <1>2, StoreStays
  <1>9. Contract!Killed
    BY <1>2, SameTerms DEF Contract!Killed
  <1>10. Contract!CKill
    BY <1>6, <1>7, <1>8, <1>9 DEF Contract!CKill, Store, Writings, Seen
  <1>11. QED
    BY <1>1, <1>4, <1>5, <1>10 DEF ContractInv, Step, Contract!CNext

\* Initial states are initial states of the contract.
LEMMA ContractInit == Init => ContractInv /\ Contract!CInit
  <1> SUFFICES ASSUME Init PROVE ContractInv /\ Contract!CInit
    OBVIOUS
  <1>1. TypeInv
    BY TypeInit
  <1>2. \A p \in Call : pc[p] = "idle" /\ ~Running(p) /\ ~Wrote(p) /\ answer[p] = "idle"
    BY DEF Init, CallsInit, Running, Wrote
  <1>3. Crowded
    BY <1>2 DEF Crowded
  <1>4. \A p \in Call : Own(p)
    BY <1>2 DEF Own, Reading, Writing, Seeing, Removing, Waiting, Init
  <1>5. Writings = [q \in Call |-> FALSE]
    <2> DEFINE f == Writings
               g == [q \in Call |-> FALSE]
    <2>1. f \in [Call -> BOOLEAN] /\ g \in [Call -> BOOLEAN]
      BY DEF Writings, Wrote
    <2>2. \A q \in Call : f[q] <=> g[q]
      BY <1>2 DEF Writings
    <2> HIDE DEF f, g
    <2>3. f = g
      BY <2>1, <2>2, SameClaims
    <2>4. QED
      BY <2>3 DEF f, g
  <1>6. Seen = [q \in Call |-> Absent]
    BY <1>2 DEF Seen
  <1>7. Contract!CallsInit
    BY DEF Contract!CallsInit, Init, CallsInit
  <1>8. QED
    BY <1>1, <1>3, <1>4, <1>5, <1>6, <1>7 DEF ContractInv, Contract!CInit, Writings, Seen

\* Every step keeps the invariant and is a step of the contract, or none.
LEMMA ContractStep ==
  ASSUME NoSelfCopy
  PROVE  ContractInv /\ [Next]_vars => ContractInv' /\ Step
  <1> SUFFICES ASSUME ContractInv, [Next]_vars PROVE ContractInv' /\ Step
    OBVIOUS
  <1>1. CASE \E p \in Call : Start(p)
    BY <1>1, InvStart
  <1>2. ASSUME NEW p \in Call, Steps(p), ~Start(p) PROVE ContractInv' /\ Step
    BY <1>2, InvSteps, FailStep, StatStep, OpenStep, CreateStep, CopyBlockStep, ReadBlockStep,
       EndOfFileStep, UnlinkStep, RemovedStep DEF Steps
  <1>3. CASE Kill
    BY <1>3, InvKill
  <1>4. CASE UNCHANGED vars
    <2>1. TypeInv'
      BY <1>4, TypeStep DEF ContractInv
    <2>2. UNCHANGED <<job, answer, contended, pc, dir, data, src, dest, off, got, todo, fs>>
      BY <1>4 DEF vars, calls, fs, fds
    <2>3. Crowded'
      BY <2>2 DEF ContractInv, Crowded, Running, Writes, Is
    <2>4. ASSUME NEW p \in Call PROVE Own(p)'
      <3>1. /\ From(p)' = From(p) /\ (Clean(p)' <=> Clean(p)) /\ Targets(p)' = Targets(p)
            /\ Source(p)' = Source(p) /\ \A K : Is(p, K)' <=> Is(p, K)
        BY <2>2 DEF From, Clean, Targets, Source, Is, Blocks
      <3>2. Reading(p)' /\ Removing(p)' /\ Waiting(p)'
        BY <2>2, <3>1 DEF ContractInv, Own, Reading, Removing, Waiting
      <3>3. Writing(p)' /\ Seeing(p)'
        BY <2>2, <3>1 DEF ContractInv, Own, Writing, Seeing, Begun
      <3>4. QED
        BY <3>2, <3>3 DEF Own
    <2>5. Store' = Store
      BY <2>2, StoreStays
    <2>6. Writings' = Writings /\ Seen' = Seen
      BY <2>2 DEF Writings, Wrote, Targets, Is, Seen, Reads, Blocks
    <2>7. UNCHANGED Contract!cvars
      BY <2>2, <2>5, <2>6 DEF Contract!cvars, Contract!calls, Store, Writings, Seen
    <2>8. QED
      BY <2>1, <2>3, <2>4, <2>7 DEF ContractInv, Step
  <1>5. QED
    BY <1>1, <1>2, <1>3, <1>4 DEF Next, Steps, Works

\* On the local backend every call keeps the contract of Blobstore that the
\* handlers are built on, whatever fails half way, whenever the process is
\* killed and however many calls of any length overlap, as long as nobody
\* copies a resource onto itself: all its system calls together are one Put,
\* Copy, Get, Exists, Delete or DeleteDir.
THEOREM ContractKept ==
  ASSUME NoSelfCopy
  PROVE  Spec => KeepsContract
  <1>1. Init => ContractInv /\ Contract!CInit
    BY ContractInit
  <1>2. ContractInv /\ [Next]_vars => ContractInv' /\ [Contract!CNext]_(Contract!cvars)
    BY ContractStep DEF Step
  <1>3. QED
    BY <1>1, <1>2, PTL DEF Spec, KeepsContract, Contract!CSpec

-----------------------------------------------------------------------------
(* A call as its caller sees it.                                            *)

CONSTANT Self \* a call

VARIABLE seen \* history: what was stored when it began and when it returned

Once == INSTANCE AtomicCall_proofs WITH
  Redirects <- {}, Misreports <- {}, misled <- {},
  blob <- [k \in Key |-> Resource(k)],
  wrote <- [q \in Call |-> Wrote(q)],
  got <- [q \in Call |-> IF Is(q, {"get"}) /\ answer[q] = "nil" THEN Reads(got[q]) ELSE Absent]

WatchedSpec == Spec /\ seen = Store /\ [][Once!Looks]_<<vars, seen>>

\* The contract that AtomicCall builds on is the one that is kept.
LEMMA SameContract ==
  /\ Once!CNext <=> Contract!CNext
  /\ Once!CInit <=> Contract!CInit
  BY DEF Once!CNext, Contract!CNext, Once!Begin, Contract!Begin, Once!Begins, Contract!Begins,
         Once!Disturb, Contract!Disturb, Once!Return, Contract!Return, Once!Ends, Contract!Ends,
         Once!Meant, Contract!Meant, Once!Keeps, Contract!Keeps,
         Once!Clears, Contract!Clears, Once!Does, Contract!Does, Once!Clashes, Contract!Clashes,
         Once!Put, Contract!Put, Once!Leftovers, Contract!Leftovers, Once!Copy, Contract!Copy,
         Once!Delete, Contract!Delete, Once!Removed, Contract!Removed, Once!Exists, Contract!Exists,
         Once!Stored, Contract!Stored, Once!Is, Contract!Is, Once!Running, Contract!Running,
         Once!Writes, Contract!Writes, Once!Uses, Contract!Uses, Once!Result, Contract!Result,
         Once!CKill, Contract!CKill, Once!Killed, Contract!Killed, Once!calls, Contract!calls,
         Once!CInit, Contract!CInit, Once!CallsInit, Contract!CallsInit

\* To its caller, a call to the local backend is one operation of Blobstore on
\* the keys that no other call writes meanwhile: the directories it makes, the
\* truncation, the blocks it copies and the files it unlinks one by one are not
\* seen, whichever of them fails and wherever the process dies.
THEOREM CallsAreOperations ==
  ASSUME NoSelfCopy, Self \in Call
  PROVE  WatchedSpec => Once!ActsAtOnce
  <1>0. {} \subseteq Key /\ {} \subseteq Once!Misleading /\ Once!Job = Job
    BY DEF Once!Job, Job
  <1>1. Init /\ seen = Store => ContractInv /\ Once!AInv
    <2> SUFFICES ASSUME Init, seen = Store PROVE ContractInv /\ Once!AInv
      OBVIOUS
    <2>1. ContractInv /\ Contract!CInit
      BY ContractInit
    <2>2. \A k \in Key : Resource(k) \in Stored
      BY <2>1, ResourceWhat DEF ContractInv
    <2>3. Once!BlobTypeOK
      BY <2>2 DEF Once!BlobTypeOK, Once!Stored, Stored
    <2>4. Once!AInit
      BY <2>1, <2>3, SameContract DEF Once!AInit, Store
    <2>5. Once!AInv
      BY <1>0, <2>4, Once!AInvInit, BitsAssumption, ResourcesAssumption, CallsAssumption
    <2>6. QED
      BY <2>1, <2>5
  <1>2. ContractInv /\ [Next]_vars /\ [Once!Looks]_<<vars, seen>>
          => ContractInv' /\ [Once!ANext]_(Once!avars)
    <2> SUFFICES ASSUME ContractInv, [Next]_vars, [Once!Looks]_<<vars, seen>>
                 PROVE  ContractInv' /\ [Once!ANext]_(Once!avars)
      OBVIOUS
    <2>1. ContractInv' /\ [Contract!CNext]_(Contract!cvars)
      BY ContractStep DEF Step
    <2>2. CASE Contract!CNext /\ Once!Looks
      BY <2>1, <2>2, SameContract DEF Once!ANext
    <2>3. CASE UNCHANGED Contract!cvars /\ Once!Looks
      <3>1. UNCHANGED seen
        BY <2>3 DEF Once!Looks, Contract!cvars, Contract!calls
      <3>2. QED
        BY <2>1, <2>3, <3>1 DEF Once!avars, Once!cvars, Once!calls, Contract!cvars, Contract!calls
    <2>4. CASE UNCHANGED <<vars, seen>>
      <3>1. UNCHANGED <<job, answer, contended, dir, data, todo, got, pc, fs, off>>
        BY <2>4 DEF vars, calls, fs, fds
      <3>2. Store' = Store
        BY <3>1, StoreStays
      <3>3. Writings' = Writings /\ Seen' = Seen
        BY <3>1 DEF Writings, Wrote, Targets, Is, Seen, Reads, Blocks
      <3>4. UNCHANGED Contract!cvars
        BY <3>1, <3>2, <3>3 DEF Contract!cvars, Contract!calls, Store, Writings, Seen
      <3>5. QED
        BY <2>1, <2>4, <3>4 DEF Once!avars, Once!cvars, Once!calls, Contract!cvars, Contract!calls
    <2>5. QED
      BY <2>1, <2>2, <2>3, <2>4
  <1>3. Once!AInv /\ [Once!ANext]_(Once!avars) => Once!AInv' /\ [Once!EndsAtOnce]_(Once!avars)
    BY <1>0, Once!AInvInductive, Once!EndDid, BitsAssumption, ResourcesAssumption, CallsAssumption
  <1>4. QED
    BY <1>1, <1>2, <1>3, PTL DEF WatchedSpec, Spec, Once!ActsAtOnce, Once!EndsAtOnce
=============================================================================
