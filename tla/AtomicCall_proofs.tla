-------------------------- MODULE AtomicCall_proofs -------------------------
(***************************************************************************)
(* A call that keeps the contract of BlobstoreCalls in each of its steps,  *)
(* while others do the same, acts as one operation of Blobstore.           *)
(***************************************************************************)
EXTENDS AtomicCall, TLAPS

-----------------------------------------------------------------------------
(* What is known while Self runs.                                           *)

Types ==
  /\ BlobTypeOK /\ CallsTypeOK
  /\ wrote \in [Call -> BOOLEAN]
  /\ got \in [Call -> Stored]
  /\ misled \subseteq Call

\* Only a call that has returned can have misreported.
Honest == answer[Self] \in {"idle", "running"} => Self \notin misled

\* Running calls are known to each other as writers.
Crowded ==
  \A p, q \in Call : p # q /\ Running(p) /\ Running(q) => Writes(q) \subseteq contended[p]

\* What Self may have made of a key before it returns.
Touched(k) ==
  LET c == job[Self]
  IN /\ wrote[Self] /\ k \in Writes(Self)
     /\ \/ Is(Self, {"put"}) /\ blob[k] \in {Torn, c.content}
        \/ Is(Self, {"copy"}) /\ \/ blob[k] = Torn
                                 \/ seen[c.source] # Absent /\ blob[k] = seen[c.source]
        \/ Is(Self, {"delete", "deleteDir"}) /\ blob[k] = Absent

\* A key that is Self's alone is as it was, or as Self made it.
Since ==
  Running(Self) /\ (Is(Self, {"deleteDir"}) \/ Alone) =>
    \A k \in Own : blob[k] = seen[k] \/ Touched(k)

AInv == Types /\ Crowded /\ Since /\ Honest

-----------------------------------------------------------------------------
(* What a call uses and writes.                                             *)

LEMMA JobTypes ==
  ASSUME Types, NEW p \in Call
  PROVE  /\ job[p] \in Job /\ job[p].key \in Key /\ job[p].source \in Key
         /\ Under[job[p].key] \subseteq Key
         /\ Is(p, {"put"}) => job[p].content \in Content
         /\ ~Is(p, {"deleteDir"}) => Under[job[p].key] = {}
         /\ answer[p] \in {"idle", "running", "killed", "nil", "notFound", "noSpace", "error"}
         /\ contended[p] \subseteq Key
  <1>1. job[p] \in Jobs /\ job[p] \in Job
    BY CallsAssumption DEF Types, CallsTypeOK
  <1>2. job[p].key \in Key /\ job[p].source \in Key
    BY <1>1 DEF Job
  <1>3. QED
    BY <1>1, <1>2, CallsAssumption, ResourcesAssumption DEF Types, CallsTypeOK, Is

LEMMA Kinds ==
  ASSUME Types, NEW p \in Call
  PROVE  /\ \/ Is(p, {"put"}) \/ Is(p, {"copy"}) \/ Is(p, {"delete"})
            \/ Is(p, {"deleteDir"}) \/ Is(p, {"stat", "get"})
         /\ Is(p, {"put"}) =>
              /\ ~Is(p, {"copy"}) /\ ~Is(p, {"delete"})
              /\ ~Is(p, {"deleteDir"}) /\ ~Is(p, {"stat", "get"})
         /\ Is(p, {"copy"}) =>
              /\ ~Is(p, {"put"}) /\ ~Is(p, {"delete"})
              /\ ~Is(p, {"deleteDir"}) /\ ~Is(p, {"stat", "get"})
         /\ Is(p, {"delete"}) =>
              /\ ~Is(p, {"put"}) /\ ~Is(p, {"copy"})
              /\ ~Is(p, {"deleteDir"}) /\ ~Is(p, {"stat", "get"})
         /\ Is(p, {"deleteDir"}) =>
              /\ ~Is(p, {"put"}) /\ ~Is(p, {"copy"})
              /\ ~Is(p, {"delete"}) /\ ~Is(p, {"stat", "get"})
         /\ Is(p, {"stat", "get"}) =>
              /\ ~Is(p, {"put"}) /\ ~Is(p, {"copy"})
              /\ ~Is(p, {"delete"}) /\ ~Is(p, {"deleteDir"})
  <1>1. job[p].kind \in {"put", "copy", "get", "stat", "delete", "deleteDir"}
    BY JobTypes DEF Job
  <1>2. QED
    BY <1>1 DEF Is

LEMMA WritesWhat ==
  ASSUME Types, NEW p \in Call
  PROVE  /\ Is(p, {"put"}) \/ Is(p, {"copy"}) \/ Is(p, {"delete"}) => Writes(p) = {job[p].key}
         /\ Is(p, {"deleteDir"}) => Writes(p) = Under[job[p].key]
         /\ Is(p, {"stat", "get"}) => Writes(p) = {}
         /\ Writes(p) \subseteq Uses(p) /\ Uses(p) \subseteq Key
         /\ ~Is(p, {"deleteDir"}) => Uses(p) = {job[p].key, job[p].source}
  BY Kinds, JobTypes DEF Writes, Uses, Is

-----------------------------------------------------------------------------
(* What an operation leaves of the store.                                   *)

LEMMA PutDoes ==
  ASSUME BlobTypeOK, NEW k \in Key, NEW c \in Stored, NEW e, Put(k, c, e)
  PROVE  /\ \A j \in Key \ {k} : blob'[j] = blob[j]
         /\ blob' \in [Key -> Stored]
         /\ e \in {"nil", "noSpace", "error"}
         /\ e = "nil" => blob'[k] = c
         /\ e = "noSpace" => blob'[k] \in {blob[k], Torn}
         /\ blob'[k] \in {blob[k], Torn, c}
  <1>1. CASE e = "nil" /\ blob' = [blob EXCEPT ![k] = c]
    BY <1>1 DEF BlobTypeOK
  <1>2. CASE e \in {"noSpace", "error"} /\ \E v \in Leftovers(k, c, e) : blob' = [blob EXCEPT ![k] = v]
    <2>1. PICK v \in Leftovers(k, c, e) : blob' = [blob EXCEPT ![k] = v]
      BY <1>2
    <2>2. v \in {blob[k], Torn, c} /\ (e = "noSpace" => v \in {blob[k], Torn})
      BY <2>1 DEF Leftovers
    <2>3. v \in Stored
      BY <2>2 DEF BlobTypeOK, Stored
    <2>4. QED
      BY <1>2, <2>1, <2>2, <2>3 DEF BlobTypeOK
  <1>3. QED
    BY <1>1, <1>2 DEF Put

LEMMA CopyDoes ==
  ASSUME BlobTypeOK, NEW s \in Key, NEW k \in Key, NEW e, Copy(s, k, e)
  PROVE  /\ \A j \in Key \ {k} : blob'[j] = blob[j]
         /\ blob' \in [Key -> Stored]
         /\ e \in Result
         /\ e = "notFound" => blob[s] = Absent /\ blob' = blob
         /\ e = "nil" => blob[s] # Absent /\ blob'[k] = blob[s]
         /\ e = "noSpace" => blob'[k] \in {blob[k], Torn}
         /\ blob'[k] \in {blob[k], Torn} \/ (blob[s] # Absent /\ blob'[k] = blob[s])
  <1>1. CASE e = "notFound" /\ ~Exists(s) /\ UNCHANGED blob
    BY <1>1 DEF BlobTypeOK, Result, Exists
  <1>2. CASE Exists(s) /\ Put(k, blob[s], e)
    <2>1. blob[s] \in Stored
      BY DEF BlobTypeOK
    <2>2. QED
      BY <1>2, <2>1, PutDoes DEF Result, Exists
  <1>3. CASE e \in {"noSpace", "error"} /\ \E v \in {blob[k], Torn} : blob' = [blob EXCEPT ![k] = v]
    BY <1>3 DEF BlobTypeOK, Stored, Result
  <1>4. QED
    BY <1>1, <1>2, <1>3 DEF Copy

LEMMA DeleteDoes ==
  ASSUME BlobTypeOK, NEW k \in Key, NEW e, Delete(k, e)
  PROVE  /\ \A j \in Key \ {k} : blob'[j] = blob[j]
         /\ blob' \in [Key -> Stored]
         /\ e \in {"nil", "notFound", "error"}
         /\ e = "nil" => blob'[k] = Absent
         /\ e = "notFound" => blob[k] = Absent /\ blob' = blob
         /\ blob'[k] \in {blob[k], Absent}
  BY DEF Delete, BlobTypeOK, Stored, Exists

LEMMA RemovedDoes ==
  ASSUME BlobTypeOK, NEW ks \in SUBSET Key, blob' = Removed(ks)
  PROVE  /\ \A j \in Key \ ks : blob'[j] = blob[j]
         /\ \A j \in ks : blob'[j] = Absent
         /\ blob' \in [Key -> Stored]
  BY DEF Removed, BlobTypeOK, Stored

\* Only what a call writes is changed by it.
LEMMA KeepsTo ==
  ASSUME Types, NEW p \in Call, NEW e, Keeps(p, e)
  PROVE  /\ \A k \in Key \ Writes(p) : blob'[k] = blob[k]
         /\ blob' \in [Key -> Stored]
  <1>1. CASE Is(p, {"deleteDir"})
    <2>1. PICK ks \in SUBSET Writes(p) : blob' = Removed(ks)
      BY <1>1 DEF Keeps, Clears
    <2>2. ks \in SUBSET Key
      BY WritesWhat
    <2>3. QED
      BY <2>1, <2>2, RemovedDoes DEF Types
  <1>2. CASE ~Is(p, {"deleteDir"}) /\ Clashes(p)
    BY <1>2 DEF Clashes
  <1>3. CASE ~Is(p, {"deleteDir"}) /\ Does(p, e)
    <2>1. CASE Is(p, {"put"})
      <3>1. Put(job[p].key, job[p].content, e) /\ job[p].content \in Stored
        BY <2>1, <1>3, Kinds, JobTypes DEF Does, Stored
      <3>2. QED
        BY <3>1, <2>1, PutDoes, JobTypes, WritesWhat DEF Types
    <2>2. CASE Is(p, {"copy"})
      <3>1. Copy(job[p].source, job[p].key, e)
        BY <2>2, <1>3, Kinds DEF Does
      <3>2. QED
        BY <3>1, <2>2, CopyDoes, JobTypes, WritesWhat DEF Types
    <2>3. CASE Is(p, {"delete"})
      <3>1. Delete(job[p].key, e)
        BY <2>3, <1>3, Kinds DEF Does
      <3>2. QED
        BY <3>1, <2>3, DeleteDoes, JobTypes, WritesWhat DEF Types
    <2>4. CASE Is(p, {"stat", "get"})
      BY <2>4, <1>3, Kinds DEF Does, Types, BlobTypeOK
    <2>5. QED
      BY <1>3, <2>1, <2>2, <2>3, <2>4, Kinds
  <1>4. QED
    BY <1>1, <1>2, <1>3 DEF Keeps
-----------------------------------------------------------------------------
(* The steps of all calls keep the invariant.                               *)

\* A step of a call p: it may begin, disturb what it writes, or return.
Steps(p) == Begin(p) \/ Disturb(p) \/ \E e \in Result : Return(p, e)

LEMMA StepsKeep ==
  ASSUME Types, NEW p \in Call, Steps(p)
  PROVE  /\ \A k \in Key : blob'[k] = blob[k] \/ (Running(p) /\ k \in Writes(p))
         /\ blob' \in [Key -> Stored]
         /\ UNCHANGED job
         /\ \A q \in Call \ {p} : answer'[q] = answer[q]
  <1>1. CASE Begin(p)
    BY <1>1 DEF Begin, Begins, Types, CallsTypeOK, BlobTypeOK
  <1>2. CASE Disturb(p)
    BY <1>2, KeepsTo DEF Disturb, calls
  <1>3. CASE \E e \in Result : Return(p, e)
    <2>1. PICK e \in Result : Return(p, e)
      BY <1>3
    <2>2. PICK did : Ends(p, did) /\ answer' = [answer EXCEPT ![p] = e]
      BY <2>1 DEF Return
    <2>3. QED
      BY <2>2, KeepsTo DEF Ends, Types, CallsTypeOK
  <1>4. QED
    BY <1>1, <1>2, <1>3 DEF Steps

LEMMA StepsTypes ==
  ASSUME Types, NEW p \in Call, Steps(p)
  PROVE  Types'
  <1>1. BlobTypeOK'
    BY StepsKeep DEF BlobTypeOK
  <1>2. CASE Begin(p)
    <2>1. \A q \in Call : Writes(q) \subseteq Key
      BY WritesWhat
    <2>2. contended' \in [Call -> SUBSET Key]
      BY <1>2, <2>1 DEF Begin, Begins, Types, CallsTypeOK
    <2>3. QED
      BY <1>1, <1>2, <2>2 DEF Begin, Begins, Types, CallsTypeOK
  <1>3. CASE Disturb(p)
    BY <1>1, <1>3 DEF Disturb, Types, CallsTypeOK, calls
  <1>4. CASE \E e \in Result : Return(p, e)
    BY <1>1, <1>4 DEF Return, Ends, Types, CallsTypeOK, Result
  <1>5. QED
    BY <1>2, <1>3, <1>4 DEF Steps

LEMMA SameWrites ==
  ASSUME UNCHANGED job, NEW p \in Call
  PROVE  /\ Writes(p)' = Writes(p) /\ Uses(p)' = Uses(p)
         /\ \A K : Is(p, K)' <=> Is(p, K)
  BY DEF Writes, Uses, Is

LEMMA StepsCrowded ==
  ASSUME Types, Crowded, NEW p \in Call, Steps(p)
  PROVE  Crowded'
  <1> SUFFICES ASSUME NEW q \in Call, NEW r \in Call, q # r, Running(q)', Running(r)'
               PROVE  Writes(r)' \subseteq contended'[q]
    BY DEF Crowded
  <1>1. Writes(r)' = Writes(r)
    BY StepsKeep, SameWrites
  <1>2. CASE Begin(p)
    <2>1. \A s \in Call : s # p => (Running(s)' <=> Running(s))
      BY <1>2 DEF Begin, Begins, Running, Types, CallsTypeOK
    <2>2. CASE q = p
      <3>1. Running(r)
        BY <2>1, <2>2
      <3>2. contended'[q] = UNION {Writes(x) : x \in {s \in Call : Running(s)}}
        BY <1>2, <2>2 DEF Begin, Begins
      <3>3. QED
        BY <1>1, <3>1, <3>2
    <2>3. CASE q # p
      <3>1. Running(q)
        BY <2>1, <2>3
      <3>2. contended'[q] = contended[q] \cup Writes(p)
        BY <1>2, <2>3, <3>1 DEF Begin, Begins
      <3>3. r = p \/ Running(r)
        BY <2>1
      <3>4. QED
        BY <1>1, <3>1, <3>2, <3>3 DEF Crowded
    <2>4. QED
      BY <2>2, <2>3
  <1>3. CASE Disturb(p) \/ \E e \in Result : Return(p, e)
    <2>1. contended' = contended /\ (Running(q)' => Running(q)) /\ (Running(r)' => Running(r))
      BY <1>3 DEF Disturb, Return, Ends, calls, Running, Types, CallsTypeOK, Result
    <2>2. QED
      BY <1>1, <2>1 DEF Crowded
  <1>4. QED
    BY <1>2, <1>3 DEF Steps

\* What Self has to itself, and what it saw there, stays while it runs.
LEMMA SelfStays ==
  ASSUME Types, Self \in Call, UNCHANGED job, Looks,
         Running(Self), Running(Self)', contended[Self] \subseteq contended'[Self]
  PROVE  seen' = seen /\ Own' \subseteq Own /\ (Alone' => Alone)
  <1>1. seen' = seen
    BY DEF Looks, Running
  <1>2. Uses(Self)' = Uses(Self)
    BY SameWrites
  <1>3. Alone' => Alone
    BY <1>1, <1>2 DEF Alone, Is
  <1>4. QED
    BY <1>1, <1>2, <1>3 DEF Own

\* An effect that leaves Own alone.
LEMMA SinceStays ==
  ASSUME Types, Self \in Call, Since, UNCHANGED job, Looks,
         Running(Self) /\ Running(Self)' =>
           /\ contended[Self] \subseteq contended'[Self]
           /\ wrote[Self] => wrote'[Self]
           /\ \A k \in Own : blob'[k] = blob[k],
         Running(Self)' => Running(Self) \/ blob' = blob
  PROVE  Since'
  <1>1. CASE ~Running(Self)'
    BY <1>1 DEF Since
  <1>2. CASE Running(Self) /\ Running(Self)'
    <2>1. seen' = seen /\ Own' \subseteq Own /\ (Alone' => Alone)
      BY <1>2, SelfStays
    <2>2. \A k \in Own : Touched(k) => Touched(k)'
      BY <1>2, <2>1, SameWrites DEF Touched, Is
    <2>3. QED
      BY <1>2, <2>1, <2>2, SameWrites DEF Since
  <1>3. CASE ~Running(Self) /\ Running(Self)'
    <2>1. answer'[Self] # answer[Self]
      BY <1>3 DEF Running
    <2>2. seen' = blob'
      BY <2>1 DEF Looks
    <2>3. QED
      BY <2>2 DEF Since
  <1>4. QED
    BY <1>1, <1>2, <1>3

\* The steps of other calls.
LEMMA OthersSince ==
  ASSUME AInv, Self \in Call, NEW p \in Call \ {Self}, Steps(p), Looks
  PROVE  Since'
  <1>1. answer'[Self] = answer[Self] /\ UNCHANGED job
    BY StepsKeep DEF AInv
  <1>2. contended[Self] \subseteq contended'[Self] /\ wrote'[Self] = wrote[Self]
    BY DEF AInv, Types, CallsTypeOK, Steps, Begin, Begins, Disturb, Return, Ends, calls
  <1>3. Running(Self) => \A k \in Own : blob'[k] = blob[k]
    <2> SUFFICES ASSUME Running(Self), NEW k \in Own PROVE blob'[k] = blob[k]
      OBVIOUS
    <2>1. k \in Key /\ k \notin contended[Self]
      BY WritesWhat DEF Own, AInv
    <2>2. Running(p) => Writes(p) \subseteq contended[Self]
      BY DEF AInv, Crowded
    <2>3. QED
      BY <2>1, <2>2, StepsKeep DEF AInv
  <1>4. Running(Self)' => Running(Self)
    BY <1>1 DEF Running
  <1>5. QED
    BY <1>1, <1>2, <1>3, <1>4, SinceStays DEF AInv

\* Self disturbs what it writes, as far as a call that fails may.
LEMMA DisturbSince ==
  ASSUME AInv, Self \in Call, Disturb(Self), Looks
  PROVE  Since'
  <1>1. Running(Self) /\ UNCHANGED <<job, answer, contended>> /\ Keeps(Self, "error")
    BY DEF Disturb, calls
  <1>2. seen' = seen /\ Own' = Own /\ (Alone' <=> Alone) /\ wrote'[Self]
    BY <1>1 DEF Looks, Own, Alone, Uses, Is, Disturb, AInv, Types
  <1>3. Types /\ Writes(Self)' = Writes(Self) /\ \A K : Is(Self, K)' <=> Is(Self, K)
    BY <1>1, SameWrites DEF AInv
  <1> SUFFICES ASSUME Is(Self, {"deleteDir"}) \/ Alone, NEW k \in Own
               PROVE  blob'[k] = seen[k] \/ Touched(k)'
    BY <1>1, <1>2, <1>3 DEF Since
  <1>4. k \in Key /\ (blob[k] = seen[k] \/ Touched(k))
    BY <1>1, WritesWhat DEF AInv, Since, Own
  <1>5. Touched(k) /\ blob'[k] = blob[k] => Touched(k)'
    BY <1>1, <1>2, <1>3 DEF Touched, Is
  <1>6. CASE k \notin Writes(Self)
    BY <1>1, <1>3, <1>4, <1>6, KeepsTo DEF Touched
  <1>7. CASE k \in Writes(Self) /\ Is(Self, {"deleteDir"})
    <2>1. PICK ks \in SUBSET Writes(Self) : blob' = Removed(ks)
      BY <1>1, <1>7 DEF Keeps, Clears
    <2>2. blob'[k] \in {blob[k], Absent}
      BY <2>1, <1>4 DEF Removed
    <2>3. QED
      BY <1>2, <1>3, <1>4, <1>5, <1>7, <2>2 DEF Touched, Is
  <1>8. CASE k \in Writes(Self) /\ ~Is(Self, {"deleteDir"})
    <2>1. Alone /\ job[Self].key \in Own /\ job[Self].source \in Own
      BY <1>8 DEF Alone, Own, Uses
    <2>2. Is(Self, {"copy"}) => blob[job[Self].source] = seen[job[Self].source]
      BY <1>1, <1>3, <2>1, WritesWhat DEF AInv, Since, Touched, Alone
    <2>3. ~Clashes(Self)
      BY <2>1, <2>2 DEF Clashes, Alone
    <2>4. Does(Self, "error")
      BY <1>1, <1>8, <2>3 DEF Keeps
    <2>5. CASE Is(Self, {"put"})
      <3>0. k = job[Self].key
        BY <2>5, <1>3, <1>8, WritesWhat
      <3>1. Put(job[Self].key, job[Self].content, "error") /\ job[Self].content \in Stored
        BY <2>5, <2>4, <1>3, Kinds, JobTypes DEF Does, Stored
      <3>2. blob'[k] \in {blob[k], Torn, job[Self].content}
        BY <3>0, <3>1, <1>3, <1>4, PutDoes DEF Types
      <3>3. QED
        BY <1>1, <1>2, <1>3, <1>4, <1>5, <1>8, <2>5, <3>2 DEF Touched, Is
    <2>6. CASE Is(Self, {"copy"})
      <3>0. k = job[Self].key
        BY <2>6, <1>3, <1>8, WritesWhat
      <3>1. Copy(job[Self].source, job[Self].key, "error") /\ job[Self].source \in Key
        BY <2>6, <2>4, <1>3, Kinds, JobTypes DEF Does
      <3>2. blob'[k] \in {blob[k], Torn} \/ (blob[job[Self].source] # Absent /\ blob'[k] = blob[job[Self].source])
        BY <3>0, <3>1, <1>3, <1>4, CopyDoes DEF Types
      <3>3. QED
        BY <1>1, <1>2, <1>3, <1>4, <1>5, <1>8, <2>2, <2>6, <3>2 DEF Touched, Is
    <2>7. CASE Is(Self, {"delete"})
      <3>0. k = job[Self].key
        BY <2>7, <1>3, <1>8, WritesWhat
      <3>1. Delete(job[Self].key, "error")
        BY <2>7, <2>4, <1>3, Kinds DEF Does
      <3>2. blob'[k] \in {blob[k], Absent}
        BY <3>0, <3>1, <1>3, <1>4, DeleteDoes DEF Types
      <3>3. QED
        BY <1>1, <1>2, <1>3, <1>4, <1>5, <1>8, <2>7, <3>2 DEF Touched, Is
    <2>8. CASE Is(Self, {"stat", "get"})
      BY <1>3, <1>8, <2>8, WritesWhat
    <2>9. QED
      BY <1>3, <1>8, <2>5, <2>6, <2>7, <2>8, Kinds
  <1>9. QED
    BY <1>6, <1>7, <1>8

LEMMA StepsHonest ==
  ASSUME AInv, Self \in Call, NEW p \in Call, Steps(p)
  PROVE  Honest'
  <1>1. CASE Begin(p)
    BY <1>1 DEF AInv, Types, CallsTypeOK, Honest, Begin, Begins
  <1>2. CASE Disturb(p)
    BY <1>2 DEF AInv, Honest, Disturb, calls
  <1>3. CASE \E e \in Result : Return(p, e)
    <2>1. PICK e \in Result :
            /\ answer' = [answer EXCEPT ![p] = e]
            /\ misled' = misled \/ misled' = misled \cup {p}
      BY <1>3 DEF Return
    <2>2. e \notin {"idle", "running"}
      BY DEF Result
    <2>3. QED
      BY <2>1, <2>2 DEF AInv, Types, CallsTypeOK, Honest
  <1>4. QED
    BY <1>1, <1>2, <1>3 DEF Steps

LEMMA StepsInv ==
  ASSUME AInv, Self \in Call, NEW p \in Call, Steps(p), Looks
  PROVE  AInv'
  <1>1. Types' /\ Crowded'
    BY StepsTypes, StepsCrowded DEF AInv
  <1>0. Honest'
    BY StepsHonest
  <1>2. CASE p # Self
    BY <1>0, <1>1, <1>2, OthersSince DEF AInv
  <1>3. CASE p = Self /\ Disturb(p)
    BY <1>0, <1>1, <1>3, DisturbSince DEF AInv
  <1>4. CASE p = Self /\ Begin(p)
    <2>1. ~Running(Self) /\ blob' = blob /\ UNCHANGED job
      BY <1>4 DEF Begin, Begins, Running
    <2>2. QED
      BY <1>0, <1>1, <2>1, SinceStays DEF AInv
  <1>5. CASE p = Self /\ \E e \in Result : Return(p, e)
    <2>1. ~Running(Self)'
      BY <1>5 DEF Return, Ends, Running, Result, AInv, Types, CallsTypeOK
    <2>2. QED
      BY <1>0, <1>1, <2>1 DEF AInv, Since
  <1>6. QED
    BY <1>2, <1>3, <1>4, <1>5 DEF Steps

LEMMA KillInv ==
  ASSUME AInv, Self \in Call, CKill
  PROVE  AInv'
  <1>2. \A p \in Call : ~Running(p)'
    BY DEF CKill, Killed, Running
  <1>3. Crowded'
    BY <1>2 DEF Crowded
  <1>4. Since'
    BY <1>2 DEF Since
  <1>5. Types'
    BY DEF AInv, Types, BlobTypeOK, CallsTypeOK, CKill, Killed
  <1>6. Honest'
    BY DEF AInv, Types, CallsTypeOK, Honest, CKill, Killed, Running
  <1>7. QED
    BY <1>3, <1>4, <1>5, <1>6 DEF AInv

LEMMA AInvInductive ==
  ASSUME AInv, Self \in Call, [ANext]_avars
  PROVE  AInv'
  <1>1. CASE ANext
    <2>1. Looks /\ (CKill \/ \E p \in Call : Steps(p))
      BY <1>1 DEF ANext, CNext, Steps
    <2>2. QED
      BY <2>1, StepsInv, KillInv
  <1>2. CASE UNCHANGED avars
    BY <1>2 DEF avars, cvars, calls, AInv, Types, BlobTypeOK, CallsTypeOK, Crowded, Since, Honest,
       Touched, Alone, Own, Uses, Writes, Is, Running
  <1>3. QED
    BY <1>1, <1>2

-----------------------------------------------------------------------------
(* The return, seen as the one operation.                                   *)

\* What Self sees when it has returned.
LEMMA MineEnds ==
  ASSUME Types, Self \in Call, UNCHANGED <<job, contended>>, seen' = blob'
  PROVE  /\ Own' = Own /\ Own \subseteq Key
         /\ Mine' = [k \in Key |-> IF k \in Own THEN blob'[k] ELSE Absent]
  <1>1. Own' = Own /\ Own \subseteq Key
    BY WritesWhat DEF Own, Uses
  <1>2. QED
    BY <1>1 DEF Mine

\* Of what Self uses alone, it has changed no more than the one key.
LEMMA MineChanges ==
  ASSUME Types, Self \in Call, UNCHANGED <<job, contended>>, seen' = blob',
         Alone, ~Is(Self, {"deleteDir"}),
         \A k \in Own \ {job[Self].key} : blob'[k] = seen[k]
  PROVE  /\ Mine[job[Self].key] = seen[job[Self].key]
         /\ Mine[job[Self].source] = seen[job[Self].source]
         /\ Mine' = [Mine EXCEPT ![job[Self].key] = blob'[job[Self].key]]
         /\ blob'[job[Self].key] = seen[job[Self].key] => Mine' = Mine
  <1>1. Own = {job[Self].key, job[Self].source} /\ job[Self].key \in Key /\ job[Self].source \in Key
    BY WritesWhat, JobTypes DEF Own, Alone
  <1>2. Mine' = [k \in Key |-> IF k \in Own THEN blob'[k] ELSE Absent]
    BY MineEnds
  <1>3. Mine \in [Key -> {Mine[k] : k \in Key}]
    BY DEF Mine
  <1>4. QED
    BY <1>1, <1>2, <1>3 DEF Mine

LEMMA OneTerms ==
  /\ \A p \in Call : \A K : One!Is(p, K) <=> Is(p, K)
  /\ \A k : One!Exists(k) <=> Mine[k] # Absent
  BY DEF One!Is, Is, One!Exists

\* What a Put does to the key it is alone with.
LEMMA PutDid ==
  ASSUME AInv, Self \in Call, NEW e \in Result, Ends(Self, e), Looks, Alone, Is(Self, {"put"}),
         seen' = blob', Does(Self, e), \A k \in Own : blob[k] = seen[k] \/ Touched(k)
  PROVE  Did(e)
  <1> DEFINE k == job[Self].key
             c == job[Self].content
  <1>1. Types /\ UNCHANGED <<job, contended>> /\ k \in Key /\ c \in Stored /\ k \in Own
    BY JobTypes DEF AInv, Ends, Stored, Own, Alone, Uses
  <1>2. ~Is(Self, {"deleteDir"}) /\ ~Is(Self, {"get"}) /\ Writes(Self) = {k}
    BY <1>1, Kinds, WritesWhat DEF Is
  <1>3. Put(k, c, e)
    BY <1>1, Kinds DEF Does
  <1>4. /\ \A j \in Key \ {k} : blob'[j] = blob[j]
        /\ e \in {"nil", "noSpace", "error"}
        /\ e = "nil" => blob'[k] = c
        /\ e = "noSpace" => blob'[k] \in {blob[k], Torn}
        /\ blob'[k] \in {blob[k], Torn, c}
    BY <1>1, <1>3, PutDoes DEF Types
  <1>5. blob[k] = seen[k] \/ (wrote[Self] /\ blob[k] \in {Torn, c})
    BY <1>1, Kinds DEF Touched, Is
  <1>6. ~Clashes(Self)
    BY <1>1, Kinds DEF Clashes, Alone
  <1>7. wrote[Self] /\ e = "noSpace" => blob'[k] = Torn
    BY <1>6 DEF Ends
  <1>8. \A j \in Own \ {k} : blob'[j] = seen[j]
    BY <1>1, <1>2, <1>4, MineEnds DEF Touched
  <1>9. Mine[k] = seen[k] /\ Mine' = [Mine EXCEPT ![k] = blob'[k]]
    BY <1>1, <1>2, <1>8, MineChanges
  <1>10. /\ e = "nil" => blob'[k] = c
         /\ e = "noSpace" => blob'[k] \in {Mine[k], Torn}
         /\ e = "error" => blob'[k] \in {Mine[k], Torn, c}
    BY <1>4, <1>5, <1>7, <1>9
  <1> HIDE DEF k, c
  <1>11. One!Put(k, c, e)
    BY <1>4, <1>9, <1>10 DEF One!Put, One!Leftovers
  <1>12. One!Does(Self, e)
    BY <1>1, <1>11, OneTerms, Kinds DEF One!Does, k, c
  <1>13. QED
    BY <1>2, <1>12 DEF Did

\* A Copy to a key it is alone with, of something whole.
LEMMA CopyDid ==
  ASSUME AInv, Self \in Call, NEW e \in Result, Ends(Self, e), Looks, Alone, Is(Self, {"copy"}),
         seen' = blob', Does(Self, e), \A k \in Own : blob[k] = seen[k] \/ Touched(k)
  PROVE  Did(e)
  <1> DEFINE k == job[Self].key
             s == job[Self].source
  <1>1. /\ Types /\ UNCHANGED <<job, contended>> /\ k \in Key /\ s \in Key
        /\ k \in Own /\ s \in Own /\ s # k /\ seen[s] # Torn
    BY JobTypes DEF AInv, Ends, Own, Alone, Uses
  <1>2. ~Is(Self, {"deleteDir"}) /\ ~Is(Self, {"get"}) /\ Writes(Self) = {k}
    BY <1>1, Kinds, WritesWhat DEF Is
  <1>3. Copy(s, k, e)
    BY <1>1, Kinds DEF Does
  <1>4. /\ \A j \in Key \ {k} : blob'[j] = blob[j]
        /\ e = "notFound" => blob[s] = Absent /\ blob' = blob
        /\ e = "nil" => blob[s] # Absent /\ blob'[k] = blob[s]
        /\ e = "noSpace" => blob'[k] \in {blob[k], Torn}
        /\ blob'[k] \in {blob[k], Torn} \/ (blob[s] # Absent /\ blob'[k] = blob[s])
    BY <1>1, <1>3, CopyDoes DEF Types
  <1>5. /\ \/ blob[k] = seen[k]
           \/ wrote[Self] /\ (blob[k] = Torn \/ (seen[s] # Absent /\ blob[k] = seen[s]))
        /\ blob[s] = seen[s]
    BY <1>1, <1>2, Kinds DEF Touched, Is
  <1>6. ~Clashes(Self)
    BY <1>1, <1>5 DEF Clashes, Alone
  <1>7. wrote[Self] => e # "notFound" /\ (e = "noSpace" => blob'[k] = Torn)
    BY <1>6 DEF Ends
  <1>8. \A j \in Own \ {k} : blob'[j] = seen[j]
    BY <1>1, <1>2, <1>4, MineEnds DEF Touched
  <1>9. /\ Mine[k] = seen[k] /\ Mine[s] = seen[s] /\ Mine' = [Mine EXCEPT ![k] = blob'[k]]
        /\ blob'[k] = seen[k] => Mine' = Mine
    BY <1>1, <1>2, <1>8, MineChanges
  <1>10. /\ e = "nil" => Mine[s] # Absent /\ blob'[k] = Mine[s]
         /\ e = "notFound" => Mine[s] = Absent /\ Mine' = Mine
         /\ e = "noSpace" => blob'[k] \in {Mine[k], Torn}
         /\ e = "error" => blob'[k] \in {Mine[k], Torn} \/ (Mine[s] # Absent /\ blob'[k] = Mine[s])
    BY <1>4, <1>5, <1>7, <1>9
  <1> HIDE DEF k, s
  <1>11. One!Copy(s, k, e)
    BY <1>9, <1>10, OneTerms DEF One!Copy, One!Put, One!Leftovers, Result
  <1>12. One!Does(Self, e)
    BY <1>1, <1>11, OneTerms, Kinds DEF One!Does, k, s
  <1>13. QED
    BY <1>2, <1>12 DEF Did

\* A Delete of a key it is alone with.
LEMMA DeleteDid ==
  ASSUME AInv, Self \in Call, NEW e \in Result, Ends(Self, e), Looks, Alone, Is(Self, {"delete"}),
         seen' = blob', Does(Self, e), \A k \in Own : blob[k] = seen[k] \/ Touched(k)
  PROVE  Did(e)
  <1> DEFINE k == job[Self].key
  <1>1. Types /\ UNCHANGED <<job, contended>> /\ k \in Key /\ k \in Own
    BY JobTypes DEF AInv, Ends, Own, Alone, Uses
  <1>2. ~Is(Self, {"deleteDir"}) /\ ~Is(Self, {"get"}) /\ Writes(Self) = {k}
    BY <1>1, Kinds, WritesWhat DEF Is
  <1>3. Delete(k, e)
    BY <1>1, Kinds DEF Does
  <1>4. /\ \A j \in Key \ {k} : blob'[j] = blob[j]
        /\ e \in {"nil", "notFound", "error"}
        /\ e = "nil" => blob'[k] = Absent
        /\ e = "notFound" => blob[k] = Absent /\ blob' = blob
        /\ blob'[k] \in {blob[k], Absent}
    BY <1>1, <1>3, DeleteDoes DEF Types
  <1>5. blob[k] = seen[k] \/ (wrote[Self] /\ blob[k] = Absent)
    BY <1>1, Kinds DEF Touched, Is
  <1>6. wrote[Self] => e # "notFound"
    BY DEF Ends
  <1>7. \A j \in Own \ {k} : blob'[j] = seen[j]
    BY <1>1, <1>2, <1>4, MineEnds DEF Touched
  <1>8. /\ Mine[k] = seen[k] /\ Mine' = [Mine EXCEPT ![k] = blob'[k]]
        /\ blob'[k] = seen[k] => Mine' = Mine
    BY <1>1, <1>2, <1>7, MineChanges
  <1>9. /\ e = "nil" => blob'[k] = Absent
        /\ e = "notFound" => Mine[k] = Absent /\ Mine' = Mine
        /\ e = "error" => blob'[k] \in {Mine[k], Absent}
    BY <1>4, <1>5, <1>6, <1>8
  <1> HIDE DEF k
  <1>10. One!Delete(k, e)
    BY <1>4, <1>8, <1>9, OneTerms DEF One!Delete
  <1>11. One!Does(Self, e)
    BY <1>1, <1>10, OneTerms, Kinds DEF One!Does, k
  <1>12. QED
    BY <1>2, <1>11 DEF Did

\* A reader of a key nobody writes.
LEMMA ReadDid ==
  ASSUME AInv, Self \in Call, NEW e \in Result, Ends(Self, e), Looks, Alone, Is(Self, {"stat", "get"}),
         seen' = blob', Does(Self, e), \A k \in Own : blob[k] = seen[k] \/ Touched(k)
  PROVE  Did(e)
  <1> DEFINE k == job[Self].key
  <1>1. Types /\ UNCHANGED <<job, contended>> /\ k \in Key /\ k \in Own /\ k \notin contended[Self]
    BY JobTypes DEF AInv, Ends, Own, Alone, Uses
  <1>2. ~Is(Self, {"deleteDir"}) /\ Writes(Self) = {}
    BY <1>1, Kinds, WritesWhat DEF Is
  <1>3. /\ e = "nil" => blob[k] # Absent
        /\ e = "notFound" => blob[k] = Absent
        /\ blob' = blob
    BY <1>1, Kinds DEF Does, Exists
  <1>4. \A j \in Own : blob[j] = seen[j]
    BY <1>2 DEF Touched
  <1>5. Mine[k] = seen[k] /\ Mine' = Mine
    BY <1>1, <1>2, <1>3, <1>4, MineChanges
  <1>6. Is(Self, {"get"}) /\ e = "nil" => got'[Self] = seen[k]
    <2> SUFFICES ASSUME Is(Self, {"get"}), e = "nil" PROVE got'[Self] = seen[k]
      OBVIOUS
    <2>1. PICK v \in Stored : got' = [got EXCEPT ![Self] = v] /\ v = blob[k]
      BY <1>1 DEF Ends
    <2>2. QED
      BY <1>1, <1>4, <2>1 DEF Types
  <1>7. One!Does(Self, e)
    BY <1>1, <1>3, <1>4, <1>5, OneTerms, Kinds DEF One!Does
  <1>8. QED
    BY <1>2, <1>6, <1>7 DEF Did

\* The part of a directory that is Self's alone.
LEMMA DirDid ==
  ASSUME AInv, Self \in Call, NEW e, UNCHANGED <<job, contended>>, seen' = blob', Running(Self),
         Is(Self, {"deleteDir"}), NEW ks \in SUBSET Under[job[Self].key], blob' = Removed(ks),
         e = "nil" => \A k \in Under[job[Self].key] \ contended[Self] : blob'[k] = Absent,
         e = "notFound" => /\ ~wrote[Self]
                           /\ \A k \in Under[job[Self].key] \ contended[Self] : blob[k] = Absent,
         e \in {"nil", "notFound", "error"}
  PROVE  Did(e)
  <1> DEFINE below == Under[job[Self].key]
             part  == {k \in below : Mine'[k] = Absent}
  <1>1. Types /\ below \subseteq Key /\ Writes(Self) = below /\ below \subseteq Uses(Self)
    BY WritesWhat, JobTypes DEF AInv
  <1>2. Own' = Own /\ Own \subseteq Key /\ Mine' = [k \in Key |-> IF k \in Own THEN blob'[k] ELSE Absent]
    BY <1>1, MineEnds
  <1>3. \A k \in Own : blob[k] = seen[k] \/ (wrote[Self] /\ k \in below /\ blob[k] = Absent)
    BY <1>1, Kinds DEF AInv, Since, Touched, Is
  <1>4. \A k \in Key : blob'[k] = IF k \in ks THEN Absent ELSE blob[k]
    BY DEF Removed
  <1>5. \A k \in Key : Mine'[k] = IF k \in part THEN Absent ELSE Mine[k]
    BY <1>1, <1>2, <1>3, <1>4 DEF Mine
  <1>6. Mine' = One!Removed(part) /\ part \in SUBSET below
    BY <1>2, <1>5 DEF One!Removed
  <1>7. CASE e = "nil"
    <2>1. part = below
      BY <1>1, <1>2, <1>7 DEF Own
    <2>2. QED
      BY <1>6, <1>7, <2>1 DEF Did, One!DeleteDir
  <1>8. CASE e = "notFound"
    <2>1. \A k \in below : Mine[k] = Absent
      BY <1>1, <1>3, <1>8 DEF Mine, Own
    <2>2. Mine' = Mine
      BY <1>1, <1>2, <1>5, <2>1 DEF Mine
    <2>3. QED
      BY <1>1, <1>8, <2>1, <2>2, OneTerms DEF Did, One!DeleteDir
  <1>9. CASE e = "error"
    <2>1. One!DeleteDir(job[Self].key, e)
      BY <1>6, <1>9 DEF One!DeleteDir
    <2>2. QED
      BY <2>1 DEF Did
  <1>10. QED
    BY <1>7, <1>8, <1>9

LEMMA EndsDid ==
  ASSUME AInv, Self \in Call, NEW e \in Result, Ends(Self, e), Looks,
         answer'[Self] # answer[Self]
  PROVE  Did(e)
  <1>1. /\ Types /\ Running(Self) /\ Keeps(Self, e) /\ UNCHANGED <<job, contended>>
        /\ answer'[Self] # answer[Self]
    BY DEF Ends, AInv
  <1>2. seen' = blob'
    BY <1>1 DEF Looks
  <1>3. CASE Is(Self, {"deleteDir"})
    <2>1. Clears(Self, e) /\ Writes(Self) = Under[job[Self].key]
      BY <1>1, <1>3, WritesWhat DEF Keeps
    <2>2. PICK ks \in SUBSET Under[job[Self].key] : blob' = Removed(ks)
      BY <2>1 DEF Clears
    <2>3. e \in {"nil", "notFound", "error"} /\ (wrote[Self] => e # "notFound")
      BY <2>1 DEF Clears, Result, Ends
    <2>4. QED
      BY <1>1, <1>2, <1>3, <2>1, <2>2, <2>3, DirDid DEF Clears, Exists
  <1>4. CASE ~Is(Self, {"deleteDir"}) /\ ~Alone
    BY <1>4 DEF Did
  <1>5. CASE ~Is(Self, {"deleteDir"}) /\ Alone
    <2>1. \A k \in Own : blob[k] = seen[k] \/ Touched(k)
      BY <1>1, <1>5 DEF AInv, Since
    <2>2. Is(Self, {"copy"}) => blob[job[Self].source] = seen[job[Self].source]
      BY <1>1, <1>5, <2>1, WritesWhat DEF Touched, Alone, Own
    <2>3. ~Clashes(Self)
      BY <1>5, <2>2 DEF Clashes, Alone
    <2>4. Does(Self, e)
      BY <1>1, <1>5, <2>3 DEF Keeps
    <2>5. QED
      BY <1>1, <1>2, <1>5, <2>1, <2>4, Kinds, PutDid, CopyDid, DeleteDid, ReadDid
  <1>6. QED
    BY <1>3, <1>4, <1>5

\* What an answer may mean.
LEMMA Means ==
  ASSUME Types, NEW p \in Call, NEW e \in Result, NEW did \in Meant(job[p].kind, e)
  PROVE  /\ did \in Result
         /\ did # e => did = "error" /\ <<job[p].kind, e>> \in Misreports
  BY DEF Meant, Result

LEMMA ReturnDid ==
  ASSUME AInv, Self \in Call, NEW e \in Result, Return(Self, e), Looks
  PROVE  /\ Did(Says(answer'[Self]))
         /\ Self \in misled' => <<job[Self].kind, answer'[Self]>> \in Misreports
  <1>1. PICK did \in Meant(job[Self].kind, e) :
          /\ Ends(Self, did)
          /\ answer' = [answer EXCEPT ![Self] = e]
          /\ misled' = IF did = e THEN misled ELSE misled \cup {Self}
    BY DEF Return
  <1>2. /\ did \in Result
        /\ did # e => did = "error" /\ <<job[Self].kind, e>> \in Misreports
    BY <1>1, Means DEF AInv
  <1>3. answer'[Self] = e /\ e # "running" /\ e # "killed" /\ Running(Self)
    BY <1>1 DEF AInv, Types, CallsTypeOK, Result, Ends
  <1>4. Self \in misled' <=> did # e
    BY <1>1, <1>3 DEF AInv, Honest, Running
  <1>5. Says(answer'[Self]) = did
    BY <1>2, <1>3, <1>4 DEF Says
  <1>6. Did(did)
    BY <1>1, <1>2, <1>3, EndsDid DEF Running
  <1>7. QED
    BY <1>2, <1>3, <1>4, <1>5, <1>6

\* What a call leaves that dies is what one that fails may leave.
LEMMA KillDid ==
  ASSUME AInv, Self \in Call, CKill, Looks, Running(Self)
  PROVE  Did("error")
  <1>1. Types /\ UNCHANGED <<job, contended, blob>> /\ answer'[Self] # answer[Self]
    BY DEF CKill, Killed, AInv, Types, CallsTypeOK, Running
  <1>2. seen' = blob' /\ blob' = blob
    BY <1>1 DEF Looks
  <1>3. CASE Is(Self, {"deleteDir"})
    <2>1. blob' = Removed({})
      BY <1>1 DEF Removed, Types, BlobTypeOK
    <2>2. QED
      BY <1>1, <1>2, <1>3, <2>1, DirDid
  <1>4. CASE ~Is(Self, {"deleteDir"}) /\ ~Alone
    BY <1>4 DEF Did
  <1>5. CASE ~Is(Self, {"deleteDir"}) /\ Alone
    <2> DEFINE k == job[Self].key
               s == job[Self].source
    <2>1. \A j \in Own : blob[j] = seen[j] \/ Touched(j)
      BY <1>5 DEF AInv, Since
    <2>2. k \in Own /\ s \in Own /\ Writes(Self) \subseteq {k}
      BY <1>1, <1>5, WritesWhat, Kinds DEF Alone, Own
    <2>3. \A j \in Own \ {k} : blob'[j] = seen[j]
      BY <1>1, <2>1, <2>2 DEF Touched
    <2>4. /\ Mine[k] = seen[k] /\ Mine[s] = seen[s] /\ Mine' = [Mine EXCEPT ![k] = blob[k]]
          /\ blob[k] = seen[k] => Mine' = Mine
      BY <1>1, <1>2, <1>5, <2>3, MineChanges
    <2>6. blob[k] = Mine[k] \/ Touched(k)
      BY <2>1, <2>2, <2>4
    <2> HIDE DEF k, s
    <2>8. CASE Is(Self, {"put"})
      <3>1. blob[k] \in {Mine[k], Torn, job[Self].content}
        BY <2>6, <2>8, Kinds, <1>1 DEF Touched, Is
      <3>2. One!Put(k, job[Self].content, "error")
        BY <2>4, <3>1 DEF One!Put, One!Leftovers
      <3>3. QED
        BY <1>1, <1>5, <2>8, <3>2, OneTerms, Kinds DEF Did, One!Does, k
    <2>9. CASE Is(Self, {"copy"})
      <3>1. blob[k] \in {Mine[k], Torn} \/ (Mine[s] # Absent /\ blob[k] = Mine[s])
        BY <2>4, <2>6, <2>9, Kinds, <1>1 DEF Touched, Is, s
      <3>2. One!Copy(s, k, "error")
        BY <2>4, <3>1, OneTerms DEF One!Copy, One!Put, One!Leftovers
      <3>3. QED
        BY <1>1, <1>5, <2>9, <3>2, OneTerms, Kinds DEF Did, One!Does, k, s
    <2>10. CASE Is(Self, {"delete"})
      <3>1. blob[k] \in {Mine[k], Absent}
        BY <2>6, <2>10, Kinds, <1>1 DEF Touched, Is
      <3>2. One!Delete(k, "error")
        BY <2>4, <3>1 DEF One!Delete
      <3>3. QED
        BY <1>1, <1>5, <2>10, <3>2, OneTerms, Kinds DEF Did, One!Does, k
    <2>11. CASE Is(Self, {"stat", "get"})
      <3>1. Mine' = Mine
        BY <1>1, <2>1, <2>2, <2>4, <2>11, WritesWhat DEF Touched, k
      <3>2. One!Does(Self, "error")
        BY <1>1, <2>11, <3>1, OneTerms, Kinds DEF One!Does
      <3>3. QED
        BY <1>5, <3>2 DEF Did
    <2>12. QED
      BY <1>1, <1>5, <2>8, <2>9, <2>10, <2>11, Kinds
  <1>6. QED
    BY <1>3, <1>4, <1>5

-----------------------------------------------------------------------------

LEMMA AInvInit ==
  ASSUME AInit
  PROVE  AInv
  BY DEF AInit, CInit, CallsInit, AInv, Types, BlobTypeOK, CallsTypeOK, Crowded, Since, Honest,
     Running, Stored

\* The step with which Self ends.
EndsAtOnce ==
  Running(Self) /\ ~Running(Self)'
    => /\ Did(Says(answer'[Self]))
       /\ Self \in misled' => <<job[Self].kind, answer'[Self]>> \in Misreports

LEMMA EndDid ==
  ASSUME AInv, Self \in Call, ANext
  PROVE  EndsAtOnce
  <1> SUFFICES ASSUME Running(Self), ~Running(Self)'
               PROVE  /\ Did(Says(answer'[Self]))
                      /\ Self \in misled' => <<job[Self].kind, answer'[Self]>> \in Misreports
    BY DEF EndsAtOnce
  <1>1. Looks /\ (CKill \/ \E p \in Call : Steps(p))
    BY DEF ANext, CNext, Steps
  <1>2. CASE CKill
    <2>1. answer'[Self] = "killed"
      BY <1>2 DEF CKill, Killed
    <2>2. Self \notin misled'
      BY <1>2 DEF CKill, AInv, Honest, Running
    <2>3. QED
      BY <1>1, <1>2, <2>1, <2>2, KillDid DEF Says
  <1>3. ASSUME NEW p \in Call, Steps(p)
        PROVE  \E e \in Result : Return(Self, e)
    <2>1. answer'[Self] # answer[Self]
      BY DEF Running
    <2>2. p = Self
      BY <1>3, <2>1, StepsKeep DEF AInv
    <2>3. ~Begin(Self) /\ ~Disturb(Self)
      BY <2>1 DEF Begin, Begins, Running, Disturb, calls
    <2>4. QED
      BY <1>3, <2>2, <2>3 DEF Steps
  <1>4. QED
    BY <1>1, <1>2, <1>3, ReturnDid

\* A call to a backend that keeps the contract acts at once: whatever it does
\* between its start and its return or the death of the process (blobstore.go,
\* and the backends behind it), its caller sees one operation of Blobstore
\* on the keys that nobody else writes, with the result it gets or, of the
\* backends and methods of Misreports, a failed one.  ResourceHandler and
\* AppStash take such a call for one step.
THEOREM CallIsAtomic ==
  ASSUME Self \in Call
  PROVE  ASpec => ActsAtOnce
  <1>1. AInit => AInv
    BY AInvInit
  <1>2. AInv /\ [ANext]_avars => AInv'
    BY AInvInductive
  <1>3. AInv /\ [ANext]_avars => [EndsAtOnce]_avars
    BY EndDid
  <1>4. QED
    BY <1>1, <1>2, <1>3, PTL DEF ASpec, ActsAtOnce, EndsAtOnce
=============================================================================
