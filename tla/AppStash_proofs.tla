-------------------------- MODULE AppStash_proofs --------------------------
(***************************************************************************)
(* Theorems about AppStash for any requests, files, thresholds, faults and *)
(* bounds.                                                                 *)
(***************************************************************************)
EXTENDS AppStash, TLAPS

-----------------------------------------------------------------------------
(* Lists that are worked off from the front.                                *)

\* The end of the rest of a list is the end of the list.
LEMMA TailEndOf ==
  ASSUME NEW S, NEW list \in Seq(S), NEW rest \in Seq(S), rest # <<>>, EndOf(rest, list)
  PROVE  /\ EndOf(Tail(rest), list)
         /\ Tail(rest) \in Seq(S) /\ Head(rest) \in S
         /\ Len(Tail(rest)) = Len(rest) - 1
         /\ Len(list) - Len(rest) + 1 \in 1..Len(list)
         /\ Head(rest) = list[Len(list) - Len(rest) + 1]
  <1>1. /\ Len(rest) \in Nat /\ Len(list) \in Nat /\ Len(rest) > 0
        /\ Tail(rest) \in Seq(S) /\ Head(rest) \in S
        /\ Len(Tail(rest)) = Len(rest) - 1
        /\ Head(rest) = rest[1]
    OBVIOUS
  <1>2. \A i \in 1..Len(Tail(rest)) : Tail(rest)[i] = rest[i + 1]
    OBVIOUS
  <1>3. QED
    BY <1>1, <1>2 DEF EndOf

\* A list is an end of itself.
LEMMA WholeEndOf ==
  ASSUME NEW S, NEW list \in Seq(S)
  PROVE  EndOf(list, list)
  BY DEF EndOf

\* A sequence of a function's grows by one element.
LEMMA AppendTyped ==
  ASSUME NEW S, NEW f \in [Req -> Seq(S)], NEW r \in Req, NEW x \in S
  PROVE  [f EXCEPT ![r] = Append(@, x)] \in [Req -> Seq(S)]
  <1>1. Append(f[r], x) \in Seq(S)
    OBVIOUS
  <1>2. QED
    BY <1>1

-----------------------------------------------------------------------------
(* Types.                                                                   *)

\* What the assumptions say.
LEMMA Types ==
  ASSUME TypeOK, NEW r \in Req
  PROVE  /\ op[r] \in Ops /\ op[r].app \in Seq(Content) /\ op[r].want \in Seq(Fingerprint)
         /\ op[r].kind \in {"matches", "entries", "bundle", "package"}
         /\ left[r] \in [app : Seq(Content), want : Seq(Fingerprint)]
         /\ left[r].app \in Seq(Content) /\ left[r].want \in Seq(Fingerprint)
         /\ blob \in [Key -> Stored]
  BY StashAssumption DEF TypeOK, PlacesTyped, ListsTyped, StashTyped, IsOp, BlobTypeOK

\* A Put writes its key only, whatever it returns, and no key is emptied.
LEMMA PutFrame ==
  ASSUME BlobTypeOK, NEW k \in Key, NEW c \in Content, NEW e, Put(k, c, e)
  PROVE  /\ BlobTypeOK'
         /\ \A j \in Key : j # k => blob'[j] = blob[j]
         /\ \A j \in Key : Exists(j) => Exists(j)'
         /\ e = "nil" => blob'[k] = c
         /\ blob'[k] \in {blob[k], Torn, c}
  BY ResourcesAssumption DEF Put, Leftovers, BlobTypeOK, Stored, Exists

\* The file at the head of a request's list, and its key.
LEMMA FileType ==
  ASSUME TypeOK, NEW r \in Req, left[r].app # <<>>
  PROVE  File(r) \in Content /\ ShaOf[File(r)] \in Key
  BY Types, StashAssumption DEF File

\* The retry of a call, or the end of its request.
LEMMA RetryTypes ==
  ASSUME TypeOK, NEW r \in Req, NEW e,
         (Return(r, e) /\ UNCHANGED retries) \/ RetryOrReturn(r, e)
  PROVE  /\ pc' \in [Req -> Label] /\ resp' \in [Req -> Code]
         /\ closed' \subseteq temp' /\ temp' \subseteq Req
         /\ retries' \in [Req -> 0..MaxRetries]
  <1>1. CodeFor(r, e) \in Code /\ "done" \in Label
    BY DEF CodeFor, Code, Label
  <1>2. CASE Return(r, e) /\ UNCHANGED retries
    BY <1>1, <1>2 DEF TypeOK, PlacesTyped, Return, Finish
  <1>3. CASE UNCHANGED <<pc, resp, temp, closed>> /\ retries[r] < MaxRetries
             /\ retries' = [retries EXCEPT ![r] = @ + 1]
    BY <1>3, StashAssumption DEF TypeOK, PlacesTyped
  <1>4. QED
    BY <1>2, <1>3 DEF RetryOrReturn

\* The next file or fingerprint of a request.
LEMMA NextTyped ==
  ASSUME TypeOK, NEW r \in Req
  PROVE  /\ left[r].app # <<>> => [left EXCEPT ![r].app = Tail(@)] \in [Req -> [app : Seq(Content), want : Seq(Fingerprint)]]
         /\ left[r].want # <<>> => [left EXCEPT ![r].want = Tail(@)] \in [Req -> [app : Seq(Content), want : Seq(Fingerprint)]]
         /\ left[r].want # <<>> => Head(left[r].want) \in Fingerprint
  <1>1. left[r].app \in Seq(Content) /\ left[r].want \in Seq(Fingerprint)
    BY Types
  <1>2. left[r].app # <<>> => Tail(left[r].app) \in Seq(Content)
    BY <1>1
  <1>3. left[r].want # <<>> => Tail(left[r].want) \in Seq(Fingerprint) /\ Head(left[r].want) \in Fingerprint
    BY <1>1
  <1>4. QED
    BY <1>2, <1>3 DEF TypeOK, ListsTyped

\* The labels and codes that a step can set.
LEMMA LabelsAndCodes ==
  /\ {"arrived", "match", "stage", "put", "get", "close", "respond", "done", "killed"} \subseteq Label
  /\ {200, 201, 400, 404, 413, 422, 500, 507} \subseteq Code
  BY DEF Label, Code

\* A retried function starts with retries of its own.
LEMMA StartsAfresh ==
  ASSUME TypeOK, NEW r \in Req
  PROVE  [retries EXCEPT ![r] = 0] \in [Req -> 0..MaxRetries]
  <1>1. 0 \in 0..MaxRetries
    BY StashAssumption
  <1>2. QED
    BY <1>1 DEF TypeOK, PlacesTyped

\* A step of a request keeps the types.
LEMMA StepPlaces ==
  ASSUME TypeOK, NEW r \in Req, Control(r), Tempfile(r), Step(r)
  PROVE  PlacesTyped'
  <1>l. /\ {"arrived", "match", "stage", "put", "get", "close", "respond", "done", "killed"} \subseteq Label
        /\ {200, 201, 400, 404, 413, 422, 500, 507} \subseteq Code
    BY LabelsAndCodes
  <1>1. CASE Arrive(r)
    BY <1>1, <1>l DEF Arrive, Goto, Finish, TypeOK, PlacesTyped, product, stash
  <1>2. CASE Refuse(r)
    BY <1>2, <1>l DEF Refuse, RefusalCodes, Goto, Finish, TypeOK, PlacesTyped, product, stash
  <1>3. CASE Accept(r)
    BY <1>3, <1>l DEF Accept, Goto, Finish, TypeOK, PlacesTyped, product, stash
  <1>4. CASE Match(r)
    BY <1>4, <1>l DEF Match, Goto, Finish, TypeOK, PlacesTyped, product, stash
  <1>5. CASE ExistsFails(r)
    BY <1>5, <1>l DEF ExistsFails, Goto, Finish, TypeOK, PlacesTyped, product, stash
  <1>6. CASE AnswerMatches(r)
    BY <1>6, <1>l DEF AnswerMatches, Goto, Finish, TypeOK, PlacesTyped, product, stash
  <1>7. CASE Stage(r)
    BY <1>7, <1>l, StartsAfresh DEF Stage, Goto, TypeOK, PlacesTyped, product, stash
  <1>8. CASE StageFails(r)
    BY <1>8, <1>l, RetryTypes DEF StageFails, TypeOK, PlacesTyped, product, stash
  <1>9. CASE Staged(r)
    <2>1. UNCHANGED <<op, closed, kills>> /\ pc[r] = "stage" /\ temp' \in {temp, temp \ {r}}
      BY <1>9 DEF Staged, product
    <2>2. r \notin closed
      BY <2>1 DEF Tempfile
    <2>3. pc' \in [Req -> Label] /\ resp' \in [Req -> Code]
      <3>1. Finish(r, 201) \/ \E l \in {"close", "get"} : Goto(r, l)
        BY <1>9 DEF Staged
      <3>2. QED
        BY <3>1, <1>l DEF Goto, Finish, TypeOK, PlacesTyped
    <2>4. retries' \in [Req -> 0..MaxRetries]
      <3>1. retries' = [retries EXCEPT ![r] = 0]
        BY <1>9 DEF Staged
      <3>2. QED
        BY <3>1, StartsAfresh
    <2>5. QED
      BY <2>1, <2>2, <2>3, <2>4 DEF TypeOK, PlacesTyped
  <1>10. CASE PutIsVisible(r)
    BY <1>10, <1>l DEF PutIsVisible, Goto, Finish, TypeOK, PlacesTyped, product, stash
  <1>11. CASE PutSucceeds(r)
    BY <1>11, <1>l DEF PutSucceeds, NextFile, Goto, Finish, TypeOK, PlacesTyped, product, stash
  <1>12. CASE SkipPut(r)
    BY <1>12, <1>l DEF SkipPut, NextFile, Goto, Finish, TypeOK, PlacesTyped, product, stash
  <1>13. CASE PutFails(r)
    BY <1>13, <1>l, RetryTypes DEF PutFails, TypeOK, PlacesTyped, product, stash
  <1>14. CASE OpenFails(r)
    BY <1>14, <1>l, RetryTypes DEF OpenFails, Goto, Finish, TypeOK, PlacesTyped, product, stash
  <1>15. CASE GetFails(r)
    BY <1>15, <1>l, RetryTypes DEF GetFails, TypeOK, PlacesTyped, product, stash
  <1>16. CASE GetFindsNothing(r)
    BY <1>16, <1>l, RetryTypes DEF GetFindsNothing, TypeOK, PlacesTyped, product, stash
  <1>17. CASE ReadFails(r)
    BY <1>17, <1>l, RetryTypes DEF ReadFails, TypeOK, PlacesTyped, product, stash
  <1>18. CASE ReadWhole(r)
    <2>1. /\ UNCHANGED <<op, closed, temp, resp, kills>> /\ retries' = [retries EXCEPT ![r] = 0]
          /\ pc' \in [Req -> Label]
      BY <1>18, <1>l DEF ReadWhole, Goto, stash, TypeOK, PlacesTyped
    <2>2. QED
      BY <2>1, StartsAfresh DEF TypeOK, PlacesTyped
  <1>19. CASE CloseZip(r)
    BY <1>19, <1>l DEF CloseZip, Tempfile, Goto, Finish, TypeOK, PlacesTyped, product, stash
  <1>20. CASE Respond(r)
    BY <1>20, <1>l DEF Respond, Tempfile, Goto, Finish, TypeOK, PlacesTyped, product, stash
  <1>q. QED
    BY <1>1, <1>2, <1>3, <1>4, <1>5, <1>6, <1>7, <1>8, <1>9, <1>10, <1>11, <1>12, <1>13, <1>14, <1>15, <1>16, <1>17, <1>18, <1>19, <1>20 DEF Step, Prepare, PostMatches, StoreFiles, FetchFiles

\* A step keeps the types of the lists.
LEMMA StepLists ==
  ASSUME TypeOK, NEW r \in Req, Control(r), Tempfile(r), Step(r)
  PROVE  ListsTyped'
  <1>1. CASE Arrive(r)
    BY <1>1 DEF Arrive, TypeOK, ListsTyped, product
  <1>2. CASE Refuse(r)
    BY <1>2 DEF Refuse, TypeOK, ListsTyped, product
  <1>3. CASE Accept(r)
    BY <1>3 DEF Accept, TypeOK, ListsTyped, product
  <1>4. CASE Match(r)
    <2>1. Head(left[r].want).sha \in Key
      BY <1>4, NextTyped DEF Match, Fingerprint
    <2>2. UNCHANGED <<zip, part>>
      BY <1>4 DEF Match
    <2>3. left' \in [Req -> [app : Seq(Content), want : Seq(Fingerprint)]]
      BY <1>4, NextTyped DEF Match
    <2>4. shas' \in [Req -> Seq(Key)]
      <3>1. shas' = shas \/ shas' = [shas EXCEPT ![r] = Append(@, Head(left[r].want).sha)]
        BY <1>4 DEF Match
      <3>2. shas \in [Req -> Seq(Key)]
        BY DEF TypeOK, ListsTyped
      <3>3. [shas EXCEPT ![r] = Append(@, Head(left[r].want).sha)] \in [Req -> Seq(Key)]
        BY <2>1, <3>2, AppendTyped
      <3>4. QED
        BY <3>1, <3>2, <3>3
    <2>5. QED
      BY <2>2, <2>3, <2>4 DEF TypeOK, ListsTyped
  <1>5. CASE ExistsFails(r)
    BY <1>5 DEF ExistsFails, TypeOK, ListsTyped, product
  <1>6. CASE AnswerMatches(r)
    BY <1>6 DEF AnswerMatches, TypeOK, ListsTyped, product
  <1>7. CASE Stage(r)
    <2>1. File(r) \in Content \cup {Torn}
      BY <1>7, FileType DEF Stage
    <2>2. <<File(r)>> \in Seq(Content \cup {Torn})
      BY <2>1
    <2>3. zip' \in [Req -> Seq(Seq(Content \cup {Torn}))]
      BY <1>7, <2>2, AppendTyped DEF Stage, TypeOK, ListsTyped
    <2>4. QED
      BY <1>7, <2>3 DEF Stage, TypeOK, ListsTyped
  <1>8. CASE StageFails(r)
    BY <1>8 DEF StageFails, TypeOK, ListsTyped, product
  <1>9. CASE Staged(r)
    BY <1>9 DEF Staged, TypeOK, ListsTyped, product
  <1>10. CASE PutIsVisible(r)
    BY <1>10 DEF PutIsVisible, TypeOK, ListsTyped, product
  <1>11. CASE PutSucceeds(r)
    <2>1. left[r].app # <<>> /\ NextFile(r) /\ UNCHANGED <<zip, part>>
      BY <1>11 DEF PutSucceeds, Control
    <2>2. ShaOf[File(r)] \in Key
      BY <2>1, FileType
    <2>3. left' \in [Req -> [app : Seq(Content), want : Seq(Fingerprint)]]
      BY <2>1, NextTyped DEF NextFile
    <2>4. shas' \in [Req -> Seq(Key)]
      BY <2>1, <2>2, AppendTyped DEF NextFile, TypeOK, ListsTyped
    <2>5. QED
      BY <2>1, <2>3, <2>4 DEF TypeOK, ListsTyped
  <1>12. CASE SkipPut(r)
    <2>1. left[r].app # <<>> /\ NextFile(r) /\ UNCHANGED <<zip, part>>
      BY <1>12 DEF SkipPut, Control
    <2>2. ShaOf[File(r)] \in Key
      BY <2>1, FileType
    <2>3. left' \in [Req -> [app : Seq(Content), want : Seq(Fingerprint)]]
      BY <2>1, NextTyped DEF NextFile
    <2>4. shas' \in [Req -> Seq(Key)]
      BY <2>1, <2>2, AppendTyped DEF NextFile, TypeOK, ListsTyped
    <2>5. QED
      BY <2>1, <2>3, <2>4 DEF TypeOK, ListsTyped
  <1>13. CASE PutFails(r)
    BY <1>13 DEF PutFails, TypeOK, ListsTyped, product
  <1>14. CASE OpenFails(r)
    BY <1>14 DEF OpenFails, TypeOK, ListsTyped, product
  <1>15. CASE GetFails(r)
    BY <1>15 DEF GetFails, TypeOK, ListsTyped, product
  <1>16. CASE GetFindsNothing(r)
    BY <1>16 DEF GetFindsNothing, TypeOK, ListsTyped, product
  <1>17. CASE ReadFails(r)
    <2>1. part' \in [Req -> Seq(Content \cup {Torn})]
      BY <1>17, AppendTyped DEF ReadFails, TypeOK, ListsTyped
    <2>2. QED
      BY <1>17, <2>1 DEF ReadFails, TypeOK, ListsTyped
  <1>18. CASE ReadWhole(r)
    <2>1. left[r].want # <<>>
      BY <1>18 DEF ReadWhole, Getting, Control
    <2>2. Sha(r) \in Key
      BY <2>1, NextTyped DEF Sha, Fingerprint
    <2>3. blob[Sha(r)] \in Content \cup {Torn}
      BY <1>18, <2>2, Types DEF ReadWhole, Exists, Stored
    <2>4. Append(part[r], blob[Sha(r)]) \in Seq(Content \cup {Torn})
      BY <2>3 DEF TypeOK, ListsTyped
    <2>5. zip' \in [Req -> Seq(Seq(Content \cup {Torn}))]
      BY <1>18, <2>4, AppendTyped DEF ReadWhole, TypeOK, ListsTyped
    <2>6. part' \in [Req -> Seq(Content \cup {Torn})]
      BY <1>18 DEF ReadWhole, TypeOK, ListsTyped
    <2>7. left' \in [Req -> [app : Seq(Content), want : Seq(Fingerprint)]]
      BY <1>18, <2>1, NextTyped DEF ReadWhole
    <2>8. QED
      BY <1>18, <2>5, <2>6, <2>7 DEF ReadWhole, TypeOK, ListsTyped
  <1>19. CASE CloseZip(r)
    BY <1>19 DEF CloseZip, TypeOK, ListsTyped, product
  <1>20. CASE Respond(r)
    BY <1>20 DEF Respond, TypeOK, ListsTyped, product
  <1>q. QED
    BY <1>1, <1>2, <1>3, <1>4, <1>5, <1>6, <1>7, <1>8, <1>9, <1>10, <1>11, <1>12, <1>13, <1>14, <1>15, <1>16, <1>17, <1>18, <1>19, <1>20 DEF Step, Prepare, PostMatches, StoreFiles, FetchFiles

\* A step keeps the types of the stash.
LEMMA StepStash ==
  ASSUME TypeOK, NEW r \in Req, Control(r), Tempfile(r), Step(r)
  PROVE  StashTyped'
  <1>1. CASE Arrive(r)
    BY <1>1 DEF Arrive, StashedKeys, TypeOK, StashTyped, BlobTypeOK, product, stash
  <1>2. CASE Refuse(r)
    BY <1>2 DEF Refuse, TypeOK, StashTyped, BlobTypeOK, product, stash
  <1>3. CASE Accept(r)
    BY <1>3 DEF Accept, TypeOK, StashTyped, BlobTypeOK, product, stash
  <1>4. CASE Match(r)
    <2>1. left[r].want # <<>> /\ UNCHANGED <<stash, missing, there>>
      BY <1>4 DEF Match
    <2>2. Head(left[r].want).sha \in Key
      BY <2>1, NextTyped DEF Fingerprint
    <2>3. misled' \in [Req -> SUBSET Key]
      BY <1>4, <2>2 DEF Match, Overlooked, TypeOK, StashTyped
    <2>4. QED
      BY <2>1, <2>3 DEF TypeOK, StashTyped, BlobTypeOK, stash
  <1>5. CASE ExistsFails(r)
    BY <1>5 DEF ExistsFails, TypeOK, StashTyped, BlobTypeOK, product, stash
  <1>6. CASE AnswerMatches(r)
    BY <1>6 DEF AnswerMatches, TypeOK, StashTyped, BlobTypeOK, product, stash
  <1>7. CASE Stage(r)
    BY <1>7 DEF Stage, TypeOK, StashTyped, BlobTypeOK, product, stash
  <1>8. CASE StageFails(r)
    BY <1>8 DEF StageFails, TypeOK, StashTyped, BlobTypeOK, product, stash
  <1>9. CASE Staged(r)
    BY <1>9 DEF Staged, TypeOK, StashTyped, BlobTypeOK, product, stash
  <1>10. CASE PutIsVisible(r)
    <2>1. left[r].app # <<>>
      BY <1>10 DEF PutIsVisible, Control
    <2>2. BlobTypeOK'
      BY <1>10, <2>1, FileType, PutFrame DEF PutIsVisible, TypeOK, StashTyped
    <2>3. QED
      BY <1>10, <2>2 DEF PutIsVisible, TypeOK, StashTyped, product
  <1>11. CASE PutSucceeds(r)
    <2>1. left[r].app # <<>>
      BY <1>11 DEF PutSucceeds, Control
    <2>2. ShaOf[File(r)] \in Key /\ File(r) \in Content
      BY <2>1, FileType
    <2>3. BlobTypeOK'
      <3>1. CASE Put(ShaOf[File(r)], File(r), "nil")
        BY <2>2, <3>1, PutFrame DEF TypeOK, StashTyped
      <3>2. CASE blob' = [blob EXCEPT ![ShaOf[File(r)]] = Torn]
        BY <3>2 DEF TypeOK, StashTyped, BlobTypeOK, Stored
      <3>3. QED
        BY <1>11, <3>1, <3>2 DEF PutSucceeds
    <2>4. QED
      BY <1>11, <2>3 DEF PutSucceeds, TypeOK, StashTyped
  <1>12. CASE SkipPut(r)
    BY <1>12 DEF SkipPut, TypeOK, StashTyped, BlobTypeOK, product, stash
  <1>13. CASE PutFails(r)
    <2>1. left[r].app # <<>>
      BY <1>13 DEF PutFails, Control
    <2>2. ShaOf[File(r)] \in Key /\ File(r) \in Content
      BY <2>1, FileType
    <2>3. BlobTypeOK'
      BY <1>13, <2>2, PutFrame DEF PutFails, TypeOK, StashTyped
    <2>4. QED
      BY <1>13, <2>2, <2>3 DEF PutFails, Breaks, TypeOK, StashTyped
  <1>14. CASE OpenFails(r)
    <2>1. left[r].app # <<>>
      BY <1>14 DEF OpenFails, Control
    <2>2. ShaOf[File(r)] \in Key
      BY <2>1, FileType
    <2>3. QED
      BY <1>14, <2>2 DEF OpenFails, Breaks, TypeOK, StashTyped, BlobTypeOK
  <1>15. CASE GetFails(r)
    BY <1>15 DEF GetFails, TypeOK, StashTyped, BlobTypeOK, product, stash
  <1>16. CASE GetFindsNothing(r)
    <2>1. left[r].want # <<>>
      BY <1>16 DEF GetFindsNothing, Getting, Control
    <2>2. Sha(r) \in Key
      BY <2>1, NextTyped DEF Sha, Fingerprint
    <2>3. QED
      BY <1>16, <2>2 DEF GetFindsNothing, Overlooked, TypeOK, StashTyped, BlobTypeOK, stash
  <1>17. CASE ReadFails(r)
    BY <1>17 DEF ReadFails, TypeOK, StashTyped, BlobTypeOK, product, stash
  <1>18. CASE ReadWhole(r)
    BY <1>18 DEF ReadWhole, TypeOK, StashTyped, BlobTypeOK, product, stash
  <1>19. CASE CloseZip(r)
    BY <1>19 DEF CloseZip, TypeOK, StashTyped, BlobTypeOK, product, stash
  <1>20. CASE Respond(r)
    BY <1>20 DEF Respond, TypeOK, StashTyped, BlobTypeOK, product, stash
  <1>q. QED
    BY <1>1, <1>2, <1>3, <1>4, <1>5, <1>6, <1>7, <1>8, <1>9, <1>10, <1>11, <1>12, <1>13, <1>14, <1>15, <1>16, <1>17, <1>18, <1>19, <1>20 DEF Step, Prepare, PostMatches, StoreFiles, FetchFiles

\* A step keeps the types.
LEMMA StepTypes ==
  ASSUME TypeOK, NEW r \in Req, Control(r), Tempfile(r), Step(r)
  PROVE  TypeOK'
  BY StepPlaces, StepLists, StepStash DEF TypeOK

-----------------------------------------------------------------------------
(* What a step of one request leaves alone.                                 *)

\* The state of a request.
Untouched(q) ==
  /\ op' = op
  /\ pc'[q] = pc[q] /\ resp'[q] = resp[q] /\ left'[q] = left[q]
  /\ shas'[q] = shas[q] /\ zip'[q] = zip[q] /\ part'[q] = part[q]
  /\ missing'[q] = missing[q] /\ there'[q] = there[q] /\ misled'[q] = misled[q]
  /\ q \in temp' <=> q \in temp
  /\ q \in closed' <=> q \in closed

\* Trying again and giving up leave other requests alone.
LEMMA RetryOthers ==
  ASSUME TypeOK, NEW r \in Req, NEW e, Return(r, e) \/ RetryOrReturn(r, e), NEW q \in Req, q # r
  PROVE  /\ pc'[q] = pc[q] /\ resp'[q] = resp[q]
         /\ q \in temp' <=> q \in temp
         /\ q \in closed' <=> q \in closed
  BY DEF TypeOK, PlacesTyped, Return, RetryOrReturn, Finish

\* A step of a request touches no other.
LEMMA StepOthers ==
  ASSUME TypeOK, NEW r \in Req, Step(r), NEW q \in Req, q # r
  PROVE  Untouched(q)
  <1> USE DEF Untouched, product, stash
  <1>1. CASE Arrive(r)
    BY <1>1 DEF Arrive, Goto, Finish, TypeOK, PlacesTyped, ListsTyped, StashTyped
  <1>2. CASE Refuse(r)
    BY <1>2 DEF Refuse, Goto, Finish, TypeOK, PlacesTyped, ListsTyped, StashTyped
  <1>3. CASE Accept(r)
    BY <1>3 DEF Accept, Goto, Finish, TypeOK, PlacesTyped, ListsTyped, StashTyped
  <1>4. CASE Match(r)
    BY <1>4 DEF Match, Overlooked, Goto, Finish, TypeOK, PlacesTyped, ListsTyped, StashTyped
  <1>5. CASE ExistsFails(r)
    BY <1>5 DEF ExistsFails, Goto, Finish, TypeOK, PlacesTyped, ListsTyped, StashTyped
  <1>6. CASE AnswerMatches(r)
    BY <1>6 DEF AnswerMatches, Goto, Finish, TypeOK, PlacesTyped, ListsTyped, StashTyped
  <1>7. CASE Stage(r)
    BY <1>7 DEF Stage, Goto, Finish, TypeOK, PlacesTyped, ListsTyped, StashTyped
  <1>8. CASE StageFails(r)
    BY <1>8, RetryOthers DEF StageFails, TypeOK, PlacesTyped, ListsTyped, StashTyped
  <1>9. CASE Staged(r)
    <2>1. /\ UNCHANGED <<op, left, product, there, misled>> /\ temp' \in {temp, temp \ {r}}
          /\ Finish(r, 201) \/ \E l \in {"close", "get"} : Goto(r, l)
      BY <1>9 DEF Staged
    <2>2. pc'[q] = pc[q] /\ resp'[q] = resp[q]
      BY <2>1 DEF Goto, Finish, TypeOK, PlacesTyped
    <2>3. QED
      BY <2>1, <2>2
  <1>10. CASE PutIsVisible(r)
    BY <1>10 DEF PutIsVisible, Goto, Finish, TypeOK, PlacesTyped, ListsTyped, StashTyped
  <1>11. CASE PutSucceeds(r)
    BY <1>11 DEF PutSucceeds, NextFile, Goto, Finish, TypeOK, PlacesTyped, ListsTyped, StashTyped
  <1>12. CASE SkipPut(r)
    BY <1>12 DEF SkipPut, NextFile, Goto, Finish, TypeOK, PlacesTyped, ListsTyped, StashTyped
  <1>13. CASE PutFails(r)
    BY <1>13, RetryOthers DEF PutFails, TypeOK, PlacesTyped, ListsTyped, StashTyped
  <1>14. CASE OpenFails(r)
    <2>1. CASE Return(r, "error")
      BY <1>14, <2>1, RetryOthers DEF OpenFails
    <2>2. CASE Finish(r, 500) /\ UNCHANGED <<temp, closed>>
      BY <1>14, <2>2 DEF OpenFails, Finish, TypeOK, PlacesTyped
    <2>3. QED
      BY <1>14, <2>1, <2>2 DEF OpenFails
  <1>15. CASE GetFails(r)
    BY <1>15, RetryOthers DEF GetFails, TypeOK, PlacesTyped, ListsTyped, StashTyped
  <1>16. CASE GetFindsNothing(r)
    <2>1. misled'[q] = misled[q]
      BY <1>16 DEF GetFindsNothing, Overlooked, TypeOK, StashTyped
    <2>2. QED
      BY <1>16, <2>1, RetryOthers DEF GetFindsNothing, TypeOK, PlacesTyped, ListsTyped, StashTyped
  <1>17. CASE ReadFails(r)
    BY <1>17, RetryOthers DEF ReadFails, TypeOK, PlacesTyped, ListsTyped, StashTyped
  <1>18. CASE ReadWhole(r)
    BY <1>18 DEF ReadWhole, Goto, Finish, TypeOK, PlacesTyped, ListsTyped, StashTyped
  <1>19. CASE CloseZip(r)
    BY <1>19 DEF CloseZip, Goto, Finish, TypeOK, PlacesTyped, ListsTyped, StashTyped
  <1>20. CASE Respond(r)
    BY <1>20 DEF Respond, Goto, Finish, TypeOK, PlacesTyped, ListsTyped, StashTyped
  <1>q. QED
    BY <1>1, <1>2, <1>3, <1>4, <1>5, <1>6, <1>7, <1>8, <1>9, <1>10, <1>11, <1>12, <1>13, <1>14, <1>15, <1>16, <1>17, <1>18, <1>19, <1>20 DEF Step, Prepare, PostMatches, StoreFiles, FetchFiles

\* Nothing leaves the stash.
LEMMA StashGrows ==
  ASSUME TypeOK, NEW r \in Req, Control(r), Step(r)
  PROVE  \A k \in Key : Exists(k) => Exists(k)'
  <1>1. CASE UNCHANGED blob
    BY <1>1 DEF Exists
  <1>2. CASE left[r].app # <<>> /\ \E e : Put(ShaOf[File(r)], File(r), e)
    BY <1>2, FileType, PutFrame DEF TypeOK, StashTyped
  <1>3. CASE left[r].app # <<>> /\ blob' = [blob EXCEPT ![ShaOf[File(r)]] = Torn]
    BY <1>3, ResourcesAssumption DEF TypeOK, StashTyped, BlobTypeOK, Exists
  <1>4. PutIsVisible(r) \/ PutSucceeds(r) \/ PutFails(r) => left[r].app # <<>>
    BY DEF Control, PutIsVisible, PutSucceeds, PutFails
  <1>5. ~(PutIsVisible(r) \/ PutSucceeds(r) \/ PutFails(r)) => UNCHANGED blob
    BY DEF Step, Prepare, PostMatches, StoreFiles, FetchFiles, stash, Arrive, Refuse, Accept, Match,
           ExistsFails, AnswerMatches, Stage, StageFails, Staged, SkipPut, OpenFails, GetFails,
           GetFindsNothing, ReadFails, ReadWhole, CloseZip, Respond
  <1>6. QED
    BY <1>1, <1>2, <1>3, <1>4, <1>5 DEF PutIsVisible, PutSucceeds, PutFails

\* What a request has processed.
LEMMA DoneTypes ==
  ASSUME TypeOK, NEW r \in Req, Control(r)
  PROVE  /\ AppDone(r) \in 0..Len(op[r].app) /\ WantDone(r) \in 0..Len(op[r].want)
         /\ Len(op[r].app) \in Nat /\ Len(op[r].want) \in Nat
         /\ Len(left[r].app) \in Nat /\ Len(left[r].want) \in Nat
         /\ \A i \in 1..Len(op[r].app) : op[r].app[i] \in Content /\ ShaOf[op[r].app[i]] \in Key
         /\ \A i \in 1..Len(op[r].want) : op[r].want[i].sha \in Key /\ op[r].want[i].size \in Nat
         /\ \A k \in ToSet(shas[r]) : k \in Key
  <1>1. /\ op[r].app \in Seq(Content) /\ op[r].want \in Seq(Fingerprint)
        /\ left[r].app \in Seq(Content) /\ left[r].want \in Seq(Fingerprint)
    BY Types
  <1>2. shas[r] \in Seq(Key)
    BY DEF TypeOK, ListsTyped
  <1>3. \A k \in ToSet(shas[r]) : k \in Key
    BY <1>2 DEF ToSet
  <1>4. \A i \in 1..Len(op[r].want) : op[r].want[i] \in Fingerprint
    BY <1>1
  <1>5. \A i \in 1..Len(op[r].app) : op[r].app[i] \in Content
    BY <1>1
  <1>6. /\ AppDone(r) \in 0..Len(op[r].app) /\ WantDone(r) \in 0..Len(op[r].want)
        /\ Len(op[r].app) \in Nat /\ Len(op[r].want) \in Nat
        /\ Len(left[r].app) \in Nat /\ Len(left[r].want) \in Nat
    <2>1. /\ Len(op[r].app) \in Nat /\ Len(op[r].want) \in Nat
          /\ Len(left[r].app) \in Nat /\ Len(left[r].want) \in Nat
      BY <1>1
    <2>2. Len(left[r].app) <= Len(op[r].app) /\ Len(left[r].want) <= Len(op[r].want)
      BY DEF Control, EndOf
    <2>3. \A m, n \in Nat : n <= m => m - n \in 0..m
      OBVIOUS
    <2>4. QED
      BY <2>1, <2>2, <2>3 DEF AppDone, WantDone
  <1>7. \A i \in 1..Len(op[r].app) : ShaOf[op[r].app[i]] \in Key
    BY <1>5, StashAssumption
  <1>8. QED
    BY <1>3, <1>4, <1>5, <1>6, <1>7 DEF Fingerprint

\* What was answered so far stays true as the stash grows.
LEMMA ListedFrame ==
  ASSUME TypeOK, NEW q \in Req, Control(q), Listed(q), \A k \in Key : Exists(k) => Exists(k)',
         op' = op, shas'[q] = shas[q], left'[q] = left[q], there'[q] = there[q],
         IsKind(q, {"matches"}) => misled'[q] = misled[q]
  PROVE  Listed(q)'
  <1>1. AppDone(q)' = AppDone(q) /\ WantDone(q)' = WantDone(q)
    BY DEF AppDone, WantDone
  <1>2. ASSUME IsKind(q, {"matches"})
        PROVE  \A k \in ToSet(shas[q]) : Exists(k)'
    BY <1>2, DoneTypes DEF Listed
  <1>3. ASSUME IsKind(q, {"entries"})
        PROVE  \A i \in 1..AppDone(q) : Exists(shas[q][i])'
    BY <1>3, DoneTypes DEF Listed
  <1>4. ASSUME Zips(q)
        PROVE  \A i \in 1..AppDone(q) : InRange(Size[op[q].app[i]]) => Exists(ShaOf[op[q].app[i]])'
    BY <1>4, DoneTypes DEF Listed
  <1>5. QED
    BY <1>1, <1>2, <1>3, <1>4 DEF Listed, IsKind, Zips

\* So what is true of a request stays true while others run.
LEMMA OthersKeep ==
  ASSUME TypeOK, TypeOK', NEW q \in Req, Untouched(q), \A k \in Key : Exists(k) => Exists(k)',
         Control(q), Tempfile(q), Saw(q), Listed(q), Zipped(q)
  PROVE  Control(q)' /\ Tempfile(q)' /\ Saw(q)' /\ Listed(q)' /\ Zipped(q)'
  <1> USE DEF Untouched
  <1>1. Control(q)'
    BY DEF Control, IsKind, Zips, Answered
  <1>2. Tempfile(q)'
    BY DEF Tempfile, IsKind, Zips, Answered
  <1>3. Saw(q)'
    BY DEF Saw, StashedKeys, Answered
  <1>4. Listed(q)'
    BY ListedFrame
  <1>5. Zipped(q)'
    BY DEF Zipped, IsKind, Zips, AppDone, WantDone, Answered
  <1>6. QED
    BY <1>1, <1>2, <1>3, <1>4, <1>5

\* The next file is the one after those that are processed, and then it is
\* processed too.
LEMMA NextFileDone ==
  ASSUME TypeOK, NEW r \in Req, Control(r), left[r].app # <<>>
  PROVE  /\ AppDone(r) + 1 \in 1..Len(op[r].app) /\ AppDone(r) \in Nat
         /\ File(r) = op[r].app[AppDone(r) + 1]
         /\ op' = op /\ left'[r].app = Tail(left[r].app) => AppDone(r)' = AppDone(r) + 1
  <1>1. op[r].app \in Seq(Content) /\ left[r].app \in Seq(Content) /\ EndOf(left[r].app, op[r].app)
    BY Types DEF Control
  <1>2. /\ Len(Tail(left[r].app)) = Len(left[r].app) - 1
        /\ Len(op[r].app) - Len(left[r].app) + 1 \in 1..Len(op[r].app)
        /\ Head(left[r].app) = op[r].app[Len(op[r].app) - Len(left[r].app) + 1]
    BY <1>1, TailEndOf
  <1>3. Len(op[r].app) \in Nat /\ Len(left[r].app) \in Nat /\ AppDone(r) \in Nat
    BY DoneTypes
  <1>4. ASSUME op' = op, left'[r].app = Tail(left[r].app)
        PROVE  AppDone(r)' = AppDone(r) + 1
    <2>1. AppDone(r)' = Len(op[r].app) - (Len(left[r].app) - 1)
      BY <1>2, <1>4 DEF AppDone
    <2>2. \A m, n \in Nat : m - (n - 1) = (m - n) + 1
      OBVIOUS
    <2>3. QED
      BY <1>3, <2>1, <2>2 DEF AppDone
  <1>5. QED
    BY <1>2, <1>3, <1>4 DEF File, AppDone

\* The next file, or the end.
LEMMA NextWantDone ==
  ASSUME TypeOK, NEW r \in Req, Control(r), left[r].want # <<>>
  PROVE  /\ WantDone(r) + 1 \in 1..Len(op[r].want) /\ WantDone(r) \in Nat
         /\ Head(left[r].want) = op[r].want[WantDone(r) + 1]
         /\ op' = op /\ left'[r].want = Tail(left[r].want) => WantDone(r)' = WantDone(r) + 1
  <1>1. op[r].want \in Seq(Fingerprint) /\ left[r].want \in Seq(Fingerprint) /\ EndOf(left[r].want, op[r].want)
    BY Types DEF Control
  <1>2. /\ Len(Tail(left[r].want)) = Len(left[r].want) - 1
        /\ Len(op[r].want) - Len(left[r].want) + 1 \in 1..Len(op[r].want)
        /\ Head(left[r].want) = op[r].want[Len(op[r].want) - Len(left[r].want) + 1]
    BY <1>1, TailEndOf
  <1>3. Len(op[r].want) \in Nat /\ Len(left[r].want) \in Nat /\ WantDone(r) \in Nat
    BY DoneTypes
  <1>4. ASSUME op' = op, left'[r].want = Tail(left[r].want)
        PROVE  WantDone(r)' = WantDone(r) + 1
    <2>1. WantDone(r)' = Len(op[r].want) - (Len(left[r].want) - 1)
      BY <1>2, <1>4 DEF WantDone
    <2>2. \A m, n \in Nat : m - (n - 1) = (m - n) + 1
      OBVIOUS
    <2>3. QED
      BY <1>3, <2>1, <2>2 DEF WantDone
  <1>5. QED
    BY <1>2, <1>3, <1>4 DEF WantDone

\* A list that grows by one element.
LEMMA Appended ==
  ASSUME NEW S, NEW s \in Seq(S), NEW x \in S
  PROVE  /\ Append(s, x) \in Seq(S)
         /\ Len(s) \in Nat /\ Len(Append(s, x)) = Len(s) + 1
         /\ \A i \in 1..Len(s) : Append(s, x)[i] = s[i]
         /\ Append(s, x)[Len(s) + 1] = x
         /\ ToSet(Append(s, x)) = ToSet(s) \cup {x}
  <1>1. /\ Append(s, x) \in Seq(S)
        /\ Len(s) \in Nat /\ Len(Append(s, x)) = Len(s) + 1
        /\ \A i \in 1..Len(s) : Append(s, x)[i] = s[i]
        /\ Append(s, x)[Len(s) + 1] = x
    OBVIOUS
  <1>2. DOMAIN s = 1..Len(s) /\ DOMAIN Append(s, x) = 1..(Len(s) + 1)
    BY <1>1
  <1>3. QED
    BY <1>1, <1>2 DEF ToSet

\* The answer grows by a file that is stored.
LEMMA NextListed ==
  ASSUME TypeOK, NEW r \in Req, Control(r), Listed(r), \A k \in Key : Exists(k) => Exists(k)',
         pc[r] = "put", left[r].app # <<>>, NextFile(r), op' = op, there' = there,
         IsKind(r, {"entries"}) \/ InRange(Size[File(r)]) => blob'[ShaOf[File(r)]] # Absent
  PROVE  Listed(r)'
  <1>1. left'[r].app = Tail(left[r].app)
    BY DEF NextFile, TypeOK, ListsTyped
  <1>2. /\ AppDone(r) + 1 \in 1..Len(op[r].app) /\ AppDone(r) \in Nat
        /\ File(r) = op[r].app[AppDone(r) + 1]
        /\ AppDone(r)' = AppDone(r) + 1
    BY <1>1, NextFileDone
  <1>3. ~IsKind(r, {"matches"})
    BY DEF Control
  <1>4. CASE IsKind(r, {"entries"})
    <2>1. shas'[r] = Append(shas[r], ShaOf[File(r)])
      BY <1>4 DEF NextFile, TypeOK, ListsTyped
    <2>2. shas[r] \in Seq(Key) /\ ShaOf[File(r)] \in Key
      BY FileType DEF TypeOK, ListsTyped
    <2>3. /\ Len(shas[r]) = AppDone(r)
          /\ \A i \in 1..AppDone(r) : shas[r][i] = ShaOf[op[r].app[i]] /\ Exists(shas[r][i])
      BY <1>4 DEF Listed
    <2>4. /\ Len(shas'[r]) = AppDone(r) + 1
          /\ \A i \in 1..AppDone(r) : shas'[r][i] = shas[r][i]
          /\ shas'[r][AppDone(r) + 1] = ShaOf[File(r)]
      BY <2>1, <2>2, <2>3, Appended
    <2>5. \A i \in 1..AppDone(r) : shas[r][i] \in Key
      BY <2>2, <2>3
    <2>6. \A i \in 1..(AppDone(r) + 1) :
            shas'[r][i] = ShaOf[op[r].app[i]] /\ blob'[shas'[r][i]] # Absent
      <3>1. ASSUME NEW i \in 1..AppDone(r)
            PROVE  shas'[r][i] = ShaOf[op[r].app[i]] /\ blob'[shas'[r][i]] # Absent
        BY <2>3, <2>4, <2>5, <3>1 DEF Exists
      <3>2. blob'[ShaOf[File(r)]] # Absent
        BY <1>4
      <3>3. shas'[r][AppDone(r) + 1] = ShaOf[op[r].app[AppDone(r) + 1]]
            /\ blob'[shas'[r][AppDone(r) + 1]] # Absent
        BY <1>2, <2>4, <3>2
      <3>4. QED
        BY <1>2, <3>1, <3>3
    <2>7. ~Zips(r)
      BY <1>4 DEF IsKind, Zips
    <2>8. QED
      BY <1>2, <1>3, <2>4, <2>6, <2>7 DEF Listed, IsKind, Zips, Exists
  <1>5. CASE Zips(r)
    <2>1. ~IsKind(r, {"entries"}) /\ shas' = shas
      BY <1>5 DEF IsKind, Zips, NextFile
    <2>2. /\ shas[r] = <<>>
          /\ \A i \in 1..AppDone(r) : InRange(Size[op[r].app[i]]) => blob'[ShaOf[op[r].app[i]]] # Absent
      BY <1>5, DoneTypes DEF Listed, Exists
    <2>3. InRange(Size[op[r].app[AppDone(r) + 1]]) => blob'[ShaOf[op[r].app[AppDone(r) + 1]]] # Absent
      BY <1>2
    <2>4. \A i \in 1..(AppDone(r) + 1) : InRange(Size[op[r].app[i]]) => blob'[ShaOf[op[r].app[i]]] # Absent
      <3>1. \A i \in 1..(AppDone(r) + 1) : i \in 1..AppDone(r) \/ i = AppDone(r) + 1
        BY <1>2
      <3>2. QED
        BY <2>2, <2>3, <3>1
    <2>5. QED
      BY <1>2, <1>3, <2>1, <2>2, <2>4 DEF Listed, IsKind, Zips, Exists
  <1>6. QED
    BY <1>3, <1>4, <1>5, Types DEF IsKind, Zips

\* ... or by one that is there and of admissible size.
LEMMA MatchListed ==
  ASSUME TypeOK, NEW r \in Req, Control(r), Listed(r), Saw(r), Match(r)
  PROVE  Listed(r)'
  <1>1. /\ left[r].want # <<>> /\ left'[r].want = Tail(left[r].want)
        /\ op' = op /\ there' = there /\ blob' = blob /\ IsKind(r, {"matches"})
    BY DEF Match, Control, TypeOK, ListsTyped, stash
  <1>2. /\ WantDone(r) + 1 \in 1..Len(op[r].want) /\ WantDone(r) \in Nat
        /\ Head(left[r].want) = op[r].want[WantDone(r) + 1]
        /\ WantDone(r)' = WantDone(r) + 1
    BY <1>1, NextWantDone
  <1>3. ~IsKind(r, {"entries"}) /\ ~Zips(r)
    BY <1>1 DEF IsKind, Zips
  <1> DEFINE f == op[r].want[WantDone(r) + 1]
  <1>4. f.sha \in Key /\ shas[r] \in Seq(Key)
    BY <1>2, DoneTypes DEF TypeOK, ListsTyped
  <1>5. \/ shas'[r] = Append(shas[r], f.sha) /\ InRange(f.size) /\ Exists(f.sha) /\ misled'[r] = misled[r]
        \/ shas'[r] = shas[r] /\ ~(InRange(f.size) /\ Exists(f.sha)) /\ misled'[r] = misled[r]
        \/ shas'[r] = shas[r] /\ misled'[r] = misled[r] \cup {f.sha}
    BY <1>2 DEF Match, Overlooked, TypeOK, ListsTyped, StashTyped
  <1>6. /\ ToSet(Append(shas[r], f.sha)) = ToSet(shas[r]) \cup {f.sha}
        /\ Len(Append(shas[r], f.sha)) = Len(shas[r]) + 1 /\ Len(shas[r]) \in Nat
    BY <1>4, Appended
  <1> HIDE DEF f
  <1>7. \A k \in ToSet(shas'[r]) : k \in ToSet(shas[r]) \/ (k = f.sha /\ InRange(f.size) /\ Exists(f.sha))
    BY <1>5, <1>6
  <1>8. ToSet(shas[r]) \subseteq ToSet(shas'[r])
    BY <1>5, <1>6
  <1>9. InRange(f.size) /\ Exists(f.sha) => f.sha \in ToSet(shas'[r]) \/ f.sha \in misled'[r]
    BY <1>5, <1>6
  <1>10. misled[r] \subseteq misled'[r]
    BY <1>5
  <1>11. \A k \in ToSet(shas'[r]) :
          Exists(k) /\ \E i \in 1..(WantDone(r) + 1) : op[r].want[i].sha = k /\ InRange(op[r].want[i].size)
    <2>1. ASSUME NEW k \in ToSet(shas[r])
          PROVE  Exists(k) /\ \E i \in 1..(WantDone(r) + 1) : op[r].want[i].sha = k /\ InRange(op[r].want[i].size)
      <3>1. Exists(k) /\ \E i \in 1..WantDone(r) : op[r].want[i].sha = k /\ InRange(op[r].want[i].size)
        BY <1>1, <2>1 DEF Listed
      <3>2. \A i \in 1..WantDone(r) : i \in 1..(WantDone(r) + 1)
        BY <1>2
      <3>3. QED
        BY <3>1, <3>2
    <2>2. ASSUME InRange(f.size), Exists(f.sha)
          PROVE  \E i \in 1..(WantDone(r) + 1) : op[r].want[i].sha = f.sha /\ InRange(op[r].want[i].size)
      <3>1. WantDone(r) + 1 \in 1..(WantDone(r) + 1)
        BY <1>2
      <3>2. QED
        BY <2>2, <3>1 DEF f
    <2>3. QED
      BY <1>7, <2>1, <2>2
  <1>12. \A i \in 1..(WantDone(r) + 1) :
          InRange(op[r].want[i].size) /\ op[r].want[i].sha \in there[r] \ misled'[r]
            => op[r].want[i].sha \in ToSet(shas'[r])
    <2>1. \A i \in 1..WantDone(r) :
            InRange(op[r].want[i].size) /\ op[r].want[i].sha \in there[r] \ misled'[r]
              => op[r].want[i].sha \in ToSet(shas'[r])
      BY <1>1, <1>8, <1>10 DEF Listed
    <2>2. InRange(f.size) /\ f.sha \in there[r] \ misled'[r] => f.sha \in ToSet(shas'[r])
      BY <1>9 DEF Saw, StashedKeys
    <2>3. QED
      BY <1>2, <2>1, <2>2 DEF f
  <1>13. Len(shas'[r]) <= WantDone(r) + 1
    BY <1>1, <1>2, <1>5, <1>6 DEF Listed
  <1>14. QED
    BY <1>1, <1>2, <1>3, <1>11, <1>12, <1>13 DEF Listed, IsKind, Zips, Exists

-----------------------------------------------------------------------------
(* What a step does to its own request.                                     *)

\* A failed call is made again, or ends the request without its temporary zip.
LEMMA RetryStep ==
  ASSUME TypeOK, NEW r \in Req, NEW e, Return(r, e) \/ RetryOrReturn(r, e)
  PROVE  \/ UNCHANGED <<pc, resp, temp, closed>>
         \/ /\ pc'[r] = "done" /\ resp'[r] \in {404, 422, 500, 507}
            /\ r \notin temp' /\ r \notin closed'
  <1>1. CodeFor(r, e) \in {404, 422, 500, 507}
    BY DEF CodeFor
  <1>2. QED
    BY <1>1 DEF TypeOK, PlacesTyped, Return, RetryOrReturn, Finish

LEMMA EndOrAgain ==
  ASSUME NEW r \in Req, Control(r), op' = op, left' = left,
         \/ UNCHANGED <<pc, resp, temp, closed>>
         \/ /\ pc'[r] = "done" /\ resp'[r] \in {404, 422, 500, 507}
            /\ r \notin temp' /\ r \notin closed'
  PROVE  Control(r)'
  BY DEF Control, Answered, IsKind, Zips

\* The temporary zip and its owner.
LEMMA StepTempfile ==
  ASSUME TypeOK, NEW r \in Req, Control(r), Tempfile(r), Saw(r), Listed(r), Zipped(r), Step(r)
  PROVE  Tempfile(r)'
  <1>1. CASE Arrive(r)
    BY <1>1 DEF Arrive, Goto, Finish, Tempfile, Control, Answered, IsKind, Zips, TypeOK, PlacesTyped, product, stash
  <1>2. CASE Refuse(r)
    BY <1>2 DEF Refuse, RefusalCodes, Goto, Finish, Tempfile, Control, Answered, IsKind, Zips, TypeOK, PlacesTyped, product, stash
  <1>3. CASE Accept(r)
    BY <1>3 DEF Accept, Goto, Finish, Tempfile, Control, Answered, IsKind, Zips, TypeOK, PlacesTyped, product, stash
  <1>4. CASE Match(r)
    BY <1>4 DEF Match, Goto, Finish, Tempfile, Control, Answered, IsKind, Zips, TypeOK, PlacesTyped, product, stash
  <1>5. CASE ExistsFails(r)
    BY <1>5 DEF ExistsFails, Goto, Finish, Tempfile, Control, Answered, IsKind, Zips, TypeOK, PlacesTyped, product, stash
  <1>6. CASE AnswerMatches(r)
    BY <1>6 DEF AnswerMatches, Goto, Finish, Tempfile, Control, Answered, IsKind, Zips, TypeOK, PlacesTyped, product, stash
  <1>7. CASE Stage(r)
    BY <1>7 DEF Stage, Goto, Finish, Tempfile, Control, Answered, IsKind, Zips, TypeOK, PlacesTyped, product, stash
  <1>8. CASE StageFails(r)
    BY <1>8, RetryStep DEF StageFails, Tempfile, Control, Answered, IsKind, Zips, TypeOK, PlacesTyped, product, stash
  <1>9. CASE Staged(r)
    BY <1>9 DEF Staged, Goto, Finish, Tempfile, Control, Answered, IsKind, Zips, TypeOK, PlacesTyped, product, stash
  <1>10. CASE PutIsVisible(r)
    BY <1>10 DEF PutIsVisible, Goto, Finish, Tempfile, Control, Answered, IsKind, Zips, TypeOK, PlacesTyped, product, stash
  <1>11. CASE PutSucceeds(r)
    BY <1>11 DEF PutSucceeds, NextFile, Goto, Finish, Tempfile, Control, Answered, IsKind, Zips, TypeOK, PlacesTyped, product, stash
  <1>12. CASE SkipPut(r)
    BY <1>12 DEF SkipPut, NextFile, Goto, Finish, Tempfile, Control, Answered, IsKind, Zips, TypeOK, PlacesTyped, product, stash
  <1>13. CASE PutFails(r)
    BY <1>13, RetryStep DEF PutFails, Tempfile, Control, Answered, IsKind, Zips, TypeOK, PlacesTyped, product, stash
  <1>14. CASE OpenFails(r)
    BY <1>14, RetryStep DEF OpenFails, Goto, Finish, Tempfile, Control, Answered, IsKind, Zips, TypeOK, PlacesTyped, product, stash
  <1>15. CASE GetFails(r)
    BY <1>15, RetryStep DEF GetFails, Tempfile, Control, Answered, IsKind, Zips, TypeOK, PlacesTyped, product, stash
  <1>16. CASE GetFindsNothing(r)
    BY <1>16, RetryStep DEF GetFindsNothing, Tempfile, Control, Answered, IsKind, Zips, TypeOK, PlacesTyped, product, stash
  <1>17. CASE ReadFails(r)
    BY <1>17, RetryStep DEF ReadFails, Tempfile, Control, Answered, IsKind, Zips, TypeOK, PlacesTyped, product, stash
  <1>18. CASE ReadWhole(r)
    <2>1. UNCHANGED <<temp, closed>> /\ pc[r] = "get" /\ pc'[r] \in {"close", "get"}
      BY <1>18 DEF ReadWhole, Getting, Goto, TypeOK, PlacesTyped
    <2>2. QED
      BY <2>1 DEF Tempfile, Answered
  <1>19. CASE CloseZip(r)
    BY <1>19 DEF CloseZip, Goto, Finish, Tempfile, Control, Answered, IsKind, Zips, TypeOK, PlacesTyped, product, stash
  <1>20. CASE Respond(r)
    BY <1>20 DEF Respond, Goto, Finish, Tempfile, Control, Answered, IsKind, Zips, TypeOK, PlacesTyped, product, stash
  <1>q. QED
    BY <1>1, <1>2, <1>3, <1>4, <1>5, <1>6, <1>7, <1>8, <1>9, <1>10, <1>11, <1>12, <1>13, <1>14, <1>15, <1>16, <1>17, <1>18, <1>19, <1>20 DEF Step, Prepare, PostMatches, StoreFiles, FetchFiles

\* The place in the handler and the lists.
LEMMA StepControl ==
  ASSUME TypeOK, NEW r \in Req, Control(r), Tempfile(r), Saw(r), Listed(r), Zipped(r), Step(r)
  PROVE  Control(r)'
  <1>1. CASE Arrive(r)
    BY <1>1 DEF Arrive, Goto, Finish, Control, Answered, IsKind, Zips, TypeOK, PlacesTyped, ListsTyped, product, stash
  <1>2. CASE Refuse(r)
    BY <1>2 DEF Refuse, RefusalCodes, Goto, Finish, Control, Answered, IsKind, Zips, TypeOK, PlacesTyped, ListsTyped, product, stash
  <1>3. CASE Accept(r)
    BY <1>3 DEF Accept, Goto, Finish, Control, Answered, IsKind, Zips, TypeOK, PlacesTyped, ListsTyped, product, stash
  <1>4. CASE Match(r)
    <2>1. /\ left[r].want # <<>>
          /\ left'[r].want = Tail(left[r].want) /\ left'[r].app = left[r].app
          /\ op' = op /\ resp' = resp /\ pc' = pc /\ pc[r] = "match"
      BY <1>4 DEF Match, TypeOK, PlacesTyped, ListsTyped
    <2>2. EndOf(left'[r].want, op[r].want)
      BY <2>1, Types, TailEndOf DEF Control
    <2>3. QED
      BY <2>1, <2>2 DEF Control, Answered, IsKind, Zips
  <1>5. CASE ExistsFails(r)
    BY <1>5 DEF ExistsFails, Goto, Finish, Control, Answered, IsKind, Zips, TypeOK, PlacesTyped, ListsTyped, product, stash
  <1>6. CASE AnswerMatches(r)
    BY <1>6 DEF AnswerMatches, Goto, Finish, Control, Answered, IsKind, Zips, TypeOK, PlacesTyped, ListsTyped, product, stash
  <1>7. CASE Stage(r)
    BY <1>7 DEF Stage, Goto, Finish, Control, Answered, IsKind, Zips, TypeOK, PlacesTyped, ListsTyped, product, stash
  <1>8. CASE StageFails(r)
    <2>1. op' = op /\ left' = left
      BY <1>8 DEF StageFails
    <2>2. QED
      BY <1>8, <2>1, RetryStep, EndOrAgain DEF StageFails
  <1>9. CASE Staged(r)
    BY <1>9 DEF Staged, Goto, Finish, Control, Answered, IsKind, Zips, TypeOK, PlacesTyped, ListsTyped, product, stash
  <1>10. CASE PutIsVisible(r)
    BY <1>10 DEF PutIsVisible, Goto, Finish, Control, Answered, IsKind, Zips, TypeOK, PlacesTyped, ListsTyped, product, stash
  <1>11. CASE PutSucceeds(r)
    <2>1. /\ left[r].app # <<>>
          /\ left'[r].app = Tail(left[r].app) /\ left'[r].want = left[r].want
          /\ op' = op /\ resp' = resp /\ pc'[r] = "stage" /\ pc[r] = "put"
      BY <1>11 DEF PutSucceeds, NextFile, Goto, Control, TypeOK, PlacesTyped, ListsTyped
    <2>2. EndOf(left'[r].app, op[r].app)
      BY <2>1, Types, TailEndOf DEF Control
    <2>3. QED
      BY <2>1, <2>2 DEF Control, Answered, IsKind, Zips
  <1>12. CASE SkipPut(r)
    <2>1. /\ left[r].app # <<>>
          /\ left'[r].app = Tail(left[r].app) /\ left'[r].want = left[r].want
          /\ op' = op /\ resp' = resp /\ pc'[r] = "stage" /\ pc[r] = "put"
      BY <1>12 DEF SkipPut, NextFile, Goto, Control, TypeOK, PlacesTyped, ListsTyped
    <2>2. EndOf(left'[r].app, op[r].app)
      BY <2>1, Types, TailEndOf DEF Control
    <2>3. QED
      BY <2>1, <2>2 DEF Control, Answered, IsKind, Zips
  <1>13. CASE PutFails(r)
    <2>1. op' = op /\ left' = left
      BY <1>13 DEF PutFails
    <2>2. QED
      BY <1>13, <2>1, RetryStep, EndOrAgain DEF PutFails
  <1>14. CASE OpenFails(r)
    <2>1. op' = op /\ left' = left
      BY <1>14 DEF OpenFails
    <2>2. CASE Return(r, "error")
      BY <2>1, <2>2, RetryStep, EndOrAgain
    <2>3. CASE Finish(r, 500)
      BY <2>1, <2>3 DEF Finish, Control, Answered, IsKind, Zips, TypeOK, PlacesTyped
    <2>4. QED
      BY <1>14, <2>2, <2>3 DEF OpenFails
  <1>15. CASE GetFails(r)
    <2>1. op' = op /\ left' = left
      BY <1>15 DEF GetFails
    <2>2. QED
      BY <1>15, <2>1, RetryStep, EndOrAgain DEF GetFails
  <1>16. CASE GetFindsNothing(r)
    <2>1. op' = op /\ left' = left
      BY <1>16 DEF GetFindsNothing
    <2>2. QED
      BY <1>16, <2>1, RetryStep, EndOrAgain DEF GetFindsNothing
  <1>17. CASE ReadFails(r)
    <2>1. op' = op /\ left' = left
      BY <1>17 DEF ReadFails
    <2>2. QED
      BY <1>17, <2>1, RetryStep, EndOrAgain DEF ReadFails
  <1>18. CASE ReadWhole(r)
    <2>1. /\ left[r].want # <<>>
          /\ left'[r].want = Tail(left[r].want) /\ left'[r].app = left[r].app
          /\ op' = op /\ resp' = resp /\ pc[r] = "get"
          /\ pc'[r] = IF Len(left[r].want) = 1 THEN "close" ELSE "get"
      BY <1>18 DEF ReadWhole, Getting, Goto, Control, TypeOK, PlacesTyped, ListsTyped
    <2>2. EndOf(left'[r].want, op[r].want) /\ Len(Tail(left[r].want)) = Len(left[r].want) - 1
      BY <2>1, Types, TailEndOf DEF Control
    <2>3. left'[r].want = <<>> <=> Len(left[r].want) = 1
      <3>1. left'[r].want \in Seq(Fingerprint) /\ Len(left[r].want) \in Nat
        BY <2>1, Types, TailEndOf DEF Control
      <3>2. left'[r].want = <<>> <=> Len(left'[r].want) = 0
        BY <3>1
      <3>3. QED
        BY <2>1, <2>2, <3>1, <3>2
    <2>4. QED
      BY <2>1, <2>2, <2>3 DEF Control, Answered, IsKind, Zips
  <1>19. CASE CloseZip(r)
    BY <1>19 DEF CloseZip, Goto, Finish, Control, Answered, IsKind, Zips, TypeOK, PlacesTyped, ListsTyped, product, stash
  <1>20. CASE Respond(r)
    BY <1>20 DEF Respond, Goto, Finish, Control, Answered, IsKind, Zips, TypeOK, PlacesTyped, ListsTyped, product, stash
  <1>q. QED
    BY <1>1, <1>2, <1>3, <1>4, <1>5, <1>6, <1>7, <1>8, <1>9, <1>10, <1>11, <1>12, <1>13, <1>14, <1>15, <1>16, <1>17, <1>18, <1>19, <1>20 DEF Step, Prepare, PostMatches, StoreFiles, FetchFiles

\* What a request saw when it arrived is there, and not missed by it.
LEMMA StepSaw ==
  ASSUME TypeOK, NEW r \in Req, Control(r), Saw(r), Step(r), \A k \in Key : Exists(k) => Exists(k)'
  PROVE  Saw(r)'
  <1>1. there[r] \subseteq StashedKeys'
    BY DEF Saw, StashedKeys
  <1>2. CASE Arrive(r)
    <2>1. there'[r] = StashedKeys /\ missing' = missing /\ pc'[r] = "arrived" /\ blob' = blob /\ missing[r] = {}
      BY <1>2 DEF Arrive, Goto, product, stash, Saw, TypeOK, PlacesTyped, StashTyped
    <2>2. QED
      BY <2>1 DEF Saw, StashedKeys, Exists
  <1>3. CASE GetFindsNothing(r)
    <2>1. /\ there' = there /\ missing'[r] = {Sha(r)} /\ pc'[r] = "done" /\ resp'[r] \in {404, 422, 500, 507}
      <3>1. there' = there /\ missing'[r] = {Sha(r)} /\ pc[r] = "get"
        BY <1>3 DEF GetFindsNothing, Getting, TypeOK, StashTyped
      <3>2. pc'[r] = "done"
        BY <1>3 DEF GetFindsNothing, Return, Finish, TypeOK, PlacesTyped
      <3>3. QED
        BY <1>3, <3>1, <3>2, RetryStep DEF GetFindsNothing
    <2>2. Sha(r) \in there[r] => Sha(r) \in misled'[r]
      <3>1. Sha(r) \in there[r] => Exists(Sha(r))
        BY DEF Saw, StashedKeys
      <3>2. QED
        BY <1>3, <3>1 DEF GetFindsNothing, Overlooked, TypeOK, StashTyped
    <2>3. QED
      BY <1>1, <2>1, <2>2 DEF Saw
  <1>4. CASE UNCHANGED <<missing, there>> /\ missing[r] = {}
    BY <1>1, <1>4 DEF Saw
  <1>5. missing[r] # {} => pc[r] = "done"
    BY DEF Saw
  <1>6. pc[r] # "done"
    BY DEF Step, Prepare, PostMatches, StoreFiles, FetchFiles, Arrive, Refuse, Accept, Match, ExistsFails,
           AnswerMatches, Stage, StageFails, Staged, PutIsVisible, PutSucceeds, SkipPut, PutFails, OpenFails,
           GetFails, GetFindsNothing, ReadFails, ReadWhole, CloseZip, Respond, Getting
  <1>7. Arrive(r) \/ GetFindsNothing(r) \/ UNCHANGED <<missing, there>>
    BY DEF Step, Prepare, PostMatches, StoreFiles, FetchFiles, product, Refuse, Accept, Match, ExistsFails,
           AnswerMatches, Stage, StageFails, Staged, PutIsVisible, PutSucceeds, SkipPut, PutFails, OpenFails,
           GetFails, ReadFails, ReadWhole, CloseZip, Respond
  <1>8. QED
    BY <1>2, <1>3, <1>4, <1>5, <1>6, <1>7

\* The answer so far.
LEMMA StepListed ==
  ASSUME TypeOK, NEW r \in Req, Control(r), Saw(r), Listed(r), Step(r),
         \A k \in Key : Exists(k) => Exists(k)'
  PROVE  Listed(r)'
  <1>1. CASE UNCHANGED <<op, left, shas, there>> /\ (IsKind(r, {"matches"}) => misled' = misled)
    BY <1>1, ListedFrame
  <1>2. CASE Arrive(r)
    <2>1. /\ op' = op /\ left' = left /\ shas' = shas /\ blob' = blob /\ misled' = misled /\ WantDone(r) = 0
      BY <1>2, Types DEF Arrive, product, stash, Control, WantDone
    <2>2. AppDone(r)' = AppDone(r) /\ WantDone(r)' = WantDone(r)
      BY <2>1 DEF AppDone, WantDone
    <2>3. QED
      BY <2>1, <2>2 DEF Listed, IsKind, Zips, Exists
  <1>3. CASE ReadWhole(r)
    <2>1. /\ op' = op /\ left'[r].app = left[r].app /\ shas' = shas /\ Zips(r)
      BY <1>3 DEF ReadWhole, Getting, Control, TypeOK, ListsTyped
    <2>2. ~IsKind(r, {"matches"}) /\ ~IsKind(r, {"entries"})
      BY <2>1 DEF Zips, IsKind
    <2>3. AppDone(r)' = AppDone(r)
      BY <2>1 DEF AppDone
    <2>4. \A i \in 1..AppDone(r) :
            InRange(Size[op[r].app[i]]) => Exists(ShaOf[op[r].app[i]])'
      <3>1. \A i \in 1..AppDone(r) : InRange(Size[op[r].app[i]]) => Exists(ShaOf[op[r].app[i]])
        BY <2>1 DEF Listed
      <3>2. \A i \in 1..AppDone(r) : ShaOf[op[r].app[i]] \in Key
        BY DoneTypes
      <3>3. op'[r] = op[r]
        BY <2>1
      <3>4. QED
        BY <3>1, <3>2, <3>3 DEF Exists
    <2>5. QED
      BY <2>1, <2>2, <2>3, <2>4 DEF Listed, IsKind, Zips
  <1>4. CASE PutSucceeds(r)
    <2>1. left[r].app # <<>> /\ pc[r] = "put"
      BY <1>4 DEF PutSucceeds, Control
    <2>2. ShaOf[File(r)] \in Key /\ File(r) \in Content
      BY <2>1, FileType
    <2>3. blob'[ShaOf[File(r)]] \in {File(r), Torn}
      BY <1>4, <2>2, PutFrame DEF PutSucceeds, TypeOK, StashTyped, BlobTypeOK
    <2>4. blob'[ShaOf[File(r)]] # Absent
      BY <2>2, <2>3, ResourcesAssumption
    <2>5. QED
      BY <1>4, <2>1, <2>4, NextListed DEF PutSucceeds
  <1>5. CASE SkipPut(r)
    <2>1. left[r].app # <<>> /\ pc[r] = "put"
      BY <1>5 DEF SkipPut, Control
    <2>2. QED
      BY <1>5, <2>1, NextListed DEF SkipPut, Puts
  <1>6. CASE Match(r)
    BY <1>6, MatchListed
  <1>7. CASE GetFindsNothing(r)
    <2>1. UNCHANGED <<op, left, shas, there>> /\ pc[r] = "get"
      BY <1>7 DEF GetFindsNothing, Getting
    <2>2. ~IsKind(r, {"matches"})
      BY <2>1 DEF Control, IsKind, Zips
    <2>3. QED
      BY <1>1, <2>1, <2>2
  <1>8. Arrive(r) \/ ReadWhole(r) \/ PutSucceeds(r) \/ SkipPut(r) \/ Match(r) \/ GetFindsNothing(r)
          \/ UNCHANGED <<op, left, shas, there, misled>>
    BY DEF Step, Prepare, PostMatches, StoreFiles, FetchFiles, product, Refuse, Accept, ExistsFails,
           AnswerMatches, Stage, StageFails, Staged, PutIsVisible, PutFails, OpenFails,
           GetFails, ReadFails, CloseZip, Respond
  <1>9. QED
    BY <1>1, <1>2, <1>3, <1>4, <1>5, <1>6, <1>7, <1>8

\* A step that leaves the lists and the zip alone, and does not stage a file.
LEMMA ZippedFrame ==
  ASSUME TypeOK, NEW r \in Req, Control(r), Zipped(r),
         op' = op, zip'[r] = zip[r], left'[r] = left[r],
         \/ pc'[r] = pc[r] /\ resp'[r] = resp[r]
         \/ pc[r] \in {"idle", "arrived", "stage", "get", "close", "respond"} /\ pc'[r] # "put"
         \/ pc'[r] = "done" /\ resp'[r] # 200
         \/ pc'[r] = "killed"
  PROVE  Zipped(r)'
  <1>1. AppDone(r)' = AppDone(r) /\ WantDone(r)' = WantDone(r)
    BY DEF AppDone, WantDone
  <1>2. QED
    BY <1>1 DEF Zipped, IsKind, Zips, Answered

\* A file is staged.
LEMMA StageZipped ==
  ASSUME TypeOK, NEW r \in Req, Control(r), Zipped(r), Stage(r)
  PROVE  Zipped(r)'
  <1>1. /\ op' = op /\ left' = left /\ pc[r] = "stage" /\ pc'[r] = "put" /\ left[r].app # <<>>
        /\ left[r].want = op[r].want /\ File(r) \in Content
    BY FileType DEF Stage, Goto, Control, TypeOK, PlacesTyped
  <1>2. AppDone(r)' = AppDone(r) /\ WantDone(r)' = WantDone(r)
    BY <1>1 DEF AppDone, WantDone
  <1>3. WantDone(r) = 0
    BY <1>1, Types DEF WantDone
  <1>4. /\ AppDone(r) + 1 \in 1..Len(op[r].app) /\ AppDone(r) \in Nat
        /\ File(r) = op[r].app[AppDone(r) + 1]
    BY <1>1, NextFileDone
  <1>5. CASE ~Zips(r)
    <2>1. zip' = zip /\ ~Zips(r)' /\ zip[r] = <<>>
      BY <1>1, <1>5 DEF Stage, Zipped, Zips, IsKind
    <2>2. QED
      BY <1>1, <2>1 DEF Zipped
  <1>6. CASE Zips(r)
    <2>1. zip'[r] = Append(zip[r], <<File(r)>>) /\ zip[r] \in Seq(Seq(Content \cup {Torn}))
      BY <1>6 DEF Stage, TypeOK, ListsTyped
    <2>2. <<File(r)>> \in Seq(Content \cup {Torn})
      BY <1>1
    <2>3. /\ Len(zip[r]) = AppDone(r)
          /\ \A i \in 1..Len(zip[r]) : i <= Len(op[r].app) => zip[r][i] = <<op[r].app[i]>>
      BY <1>1, <1>3, <1>4, <1>6 DEF Zipped
    <2>4. /\ Len(zip'[r]) = AppDone(r) + 1
          /\ \A i \in 1..AppDone(r) : zip'[r][i] = zip[r][i]
          /\ zip'[r][AppDone(r) + 1] = <<File(r)>>
      BY <2>1, <2>2, <2>3, Appended
    <2>5. \A i \in 1..(AppDone(r) + 1) : i \in 1..AppDone(r) \/ i = AppDone(r) + 1
      BY <1>4
    <2>6. \A i \in 1..Len(zip'[r]) : i <= Len(op[r].app) => zip'[r][i] = <<op[r].app[i]>>
      BY <1>4, <2>3, <2>4, <2>5
    <2>7. Zips(r)'
      BY <1>1, <1>6 DEF Zips, IsKind
    <2>8. QED
      BY <1>1, <1>2, <1>3, <1>4, <2>4, <2>6, <2>7 DEF Zipped, Answered
  <1>7. QED
    BY <1>5, <1>6

\* A staged file is done with.
LEMMA NextZipped ==
  ASSUME TypeOK, NEW r \in Req, Control(r), Zipped(r), pc[r] = "put", NextFile(r), op' = op, zip' = zip
  PROVE  Zipped(r)'
  <1>1. /\ left[r].app # <<>> /\ left'[r].app = Tail(left[r].app) /\ left'[r].want = left[r].want
        /\ pc'[r] = "stage"
    BY DEF NextFile, Goto, Control, TypeOK, PlacesTyped, ListsTyped
  <1>2. AppDone(r)' = AppDone(r) + 1 /\ AppDone(r) \in Nat /\ WantDone(r) \in Nat
    BY <1>1, NextFileDone, DoneTypes
  <1>3. WantDone(r)' = WantDone(r)
    BY <1>1 DEF WantDone
  <1>4. \A m, n \in Nat : (m + n) + 1 = (m + 1) + n
    OBVIOUS
  <1>5. Zips(r) => Len(zip[r]) = AppDone(r)' + WantDone(r)'
    BY <1>2, <1>3, <1>4 DEF Zipped
  <1>6. QED
    BY <1>1, <1>5 DEF Zipped, Zips, IsKind, Answered

\* A stashed file is read.
LEMMA ReadZipped ==
  ASSUME TypeOK, NEW r \in Req, Control(r), Zipped(r), ReadWhole(r)
  PROVE  /\ Zipped(r)'
         /\ WantDone(r) + 1 \in 1..Len(op[r].want) /\ WantDone(r)' = WantDone(r) + 1
         /\ Sha(r) = op[r].want[WantDone(r) + 1].sha
         /\ Len(zip[r]) = Len(op[r].app) + WantDone(r) /\ Len(zip'[r]) = Len(zip[r]) + 1
         /\ \A i \in 1..Len(zip[r]) : zip'[r][i] = zip[r][i]
         /\ zip'[r][Len(zip[r]) + 1] = Append(part[r], blob[Sha(r)])
         /\ blob[Sha(r)] \in Content \cup {Torn} /\ Sha(r) \in Key
  <1>1. /\ op' = op /\ pc[r] = "get" /\ pc'[r] \in {"close", "get"} /\ left'[r].app = left[r].app
        /\ left[r].want # <<>> /\ left'[r].want = Tail(left[r].want) /\ left[r].app = <<>> /\ Zips(r)
    BY DEF ReadWhole, Getting, Goto, Control, TypeOK, PlacesTyped, ListsTyped
  <1>2. /\ WantDone(r) + 1 \in 1..Len(op[r].want) /\ WantDone(r) \in Nat
        /\ Head(left[r].want) = op[r].want[WantDone(r) + 1]
        /\ WantDone(r)' = WantDone(r) + 1
    BY <1>1, NextWantDone
  <1>3. AppDone(r)' = AppDone(r) /\ AppDone(r) = Len(op[r].app) /\ Len(op[r].app) \in Nat
    BY <1>1, Types DEF AppDone
  <1>4. Sha(r) \in Key /\ blob[Sha(r)] \in Content \cup {Torn}
    <2>1. Sha(r) \in Key
      BY <1>1, NextTyped DEF Sha, Fingerprint
    <2>2. QED
      BY <2>1, Types DEF ReadWhole, Exists, Stored
  <1>5. Append(part[r], blob[Sha(r)]) \in Seq(Content \cup {Torn})
    BY <1>4 DEF TypeOK, ListsTyped
  <1>6. zip'[r] = Append(zip[r], Append(part[r], blob[Sha(r)])) /\ zip[r] \in Seq(Seq(Content \cup {Torn}))
    BY DEF ReadWhole, TypeOK, ListsTyped
  <1>7. /\ Len(zip[r]) \in Nat /\ Len(zip'[r]) = Len(zip[r]) + 1
        /\ \A i \in 1..Len(zip[r]) : zip'[r][i] = zip[r][i]
        /\ zip'[r][Len(zip[r]) + 1] = Append(part[r], blob[Sha(r)])
    BY <1>5, <1>6, Appended
  <1>8. /\ Len(zip[r]) = Len(op[r].app) + WantDone(r)
        /\ \A i \in 1..Len(zip[r]) : i <= Len(op[r].app) => zip[r][i] = <<op[r].app[i]>>
    BY <1>1, <1>3 DEF Zipped
  <1>9. \A m, n \in Nat : (m + n) + 1 = m + (n + 1)
    OBVIOUS
  <1>10. \A i \in 1..Len(zip'[r]) : i <= Len(op[r].app) => i \in 1..Len(zip[r])
    BY <1>2, <1>3, <1>7, <1>8
  <1>11. \A i \in 1..Len(zip'[r]) : i <= Len(op[r].app) => zip'[r][i] = <<op[r].app[i]>>
    BY <1>7, <1>8, <1>10
  <1>12. Len(zip'[r]) = AppDone(r)' + WantDone(r)'
    <2>1. Len(zip'[r]) = (Len(op[r].app) + WantDone(r)) + 1
      BY <1>7, <1>8
    <2>2. AppDone(r)' + WantDone(r)' = Len(op[r].app) + (WantDone(r) + 1)
      BY <1>2, <1>3
    <2>3. QED
      BY <1>2, <1>3, <1>9, <2>1, <2>2
  <1>13. Zipped(r)'
    BY <1>1, <1>11, <1>12 DEF Zipped, Zips, IsKind, Answered
  <1>14. QED
    BY <1>2, <1>4, <1>7, <1>8, <1>13 DEF Sha

\* The zip so far.
LEMMA StepZipped ==
  ASSUME TypeOK, NEW r \in Req, Control(r), Zipped(r), Step(r)
  PROVE  Zipped(r)'
  <1>1. CASE Arrive(r) \/ Refuse(r) \/ Accept(r)
    BY <1>1, ZippedFrame DEF Arrive, Refuse, Accept, RefusalCodes, Goto, Finish, product, TypeOK, PlacesTyped
  <1>2. CASE Match(r) \/ ExistsFails(r) \/ AnswerMatches(r)
    <2>1. op' = op /\ zip' = zip /\ IsKind(r, {"matches"}) /\ pc[r] = "match"
      BY <1>2 DEF Match, ExistsFails, AnswerMatches, product, Control
    <2>2. ~Zips(r) /\ ~Zips(r)'
      BY <2>1 DEF Zips, IsKind
    <2>3. zip'[r] = <<>>
      BY <2>1, <2>2 DEF Zipped
    <2>4. QED
      BY <2>2, <2>3 DEF Zipped
  <1>3. CASE Stage(r)
    BY <1>3, StageZipped
  <1>4. CASE StageFails(r) \/ PutFails(r) \/ GetFails(r) \/ GetFindsNothing(r) \/ ReadFails(r)
    <2>1. op' = op /\ zip' = zip /\ left' = left
      BY <1>4 DEF StageFails, PutFails, GetFails, GetFindsNothing, ReadFails
    <2>2. \E e : Return(r, e) \/ RetryOrReturn(r, e)
      BY <1>4 DEF StageFails, PutFails, GetFails, GetFindsNothing, ReadFails
    <2>3. UNCHANGED <<pc, resp>> \/ (pc'[r] = "done" /\ resp'[r] # 200)
      BY <2>2, RetryStep
    <2>4. QED
      BY <2>1, <2>3, ZippedFrame
  <1>5. CASE Staged(r)
    BY <1>5, ZippedFrame DEF Staged, Goto, Finish, product, TypeOK, PlacesTyped
  <1>6. CASE PutIsVisible(r)
    BY <1>6, ZippedFrame DEF PutIsVisible, product
  <1>7. CASE PutSucceeds(r)
    BY <1>7, NextZipped DEF PutSucceeds
  <1>8. CASE SkipPut(r)
    BY <1>8, NextZipped DEF SkipPut
  <1>9. CASE OpenFails(r)
    <2>1. op' = op /\ zip' = zip /\ left' = left
      BY <1>9 DEF OpenFails
    <2>2. CASE Return(r, "error")
      BY <2>1, <2>2, RetryStep, ZippedFrame
    <2>3. CASE Finish(r, 500)
      BY <2>1, <2>3, ZippedFrame DEF Finish, TypeOK, PlacesTyped
    <2>4. QED
      BY <1>9, <2>2, <2>3 DEF OpenFails
  <1>10. CASE ReadWhole(r)
    BY <1>10, ReadZipped
  <1>11. CASE CloseZip(r)
    BY <1>11, ZippedFrame DEF CloseZip, Goto, TypeOK, PlacesTyped
  <1>12. CASE Respond(r)
    BY <1>12, ZippedFrame DEF Respond, Finish, TypeOK, PlacesTyped
  <1>q. QED
    BY <1>1, <1>2, <1>3, <1>4, <1>5, <1>6, <1>7, <1>8, <1>9, <1>10, <1>11, <1>12 DEF Step, Prepare, PostMatches, StoreFiles, FetchFiles

-----------------------------------------------------------------------------
(* What a step does to the stash.                                           *)

\* Only files that are to be stored are, whole if writes are atomic.
LEMMA Stores ==
  ASSUME TypeOK, NEW r \in Req, Control(r), Step(r), NEW k \in Key, blob'[k] # blob[k]
  PROVE  /\ left[r].app # <<>> /\ Puts(r) /\ k = ShaOf[File(r)] /\ File(r) \in Content
         /\ ~PartialWrites => blob'[k] = File(r)
  <1>1. PutIsVisible(r) \/ PutSucceeds(r) \/ PutFails(r)
    BY DEF Step, Prepare, PostMatches, StoreFiles, FetchFiles, stash, Arrive, Refuse, Accept, Match,
           ExistsFails, AnswerMatches, Stage, StageFails, Staged, SkipPut, OpenFails, GetFails,
           GetFindsNothing, ReadFails, ReadWhole, CloseZip, Respond
  <1>2. left[r].app # <<>> /\ Puts(r)
    BY <1>1 DEF Control, PutIsVisible, PutSucceeds, PutFails
  <1>3. File(r) \in Content /\ ShaOf[File(r)] \in Key /\ BlobTypeOK
    BY <1>2, FileType DEF TypeOK, StashTyped
  <1>4. CASE PutIsVisible(r)
    <2>1. PartialWrites /\ Put(ShaOf[File(r)], File(r), "error")
      BY <1>4 DEF PutIsVisible
    <2>2. QED
      BY <1>2, <1>3, <2>1, PutFrame
  <1>5. CASE PutSucceeds(r)
    <2>1. CASE Put(ShaOf[File(r)], File(r), "nil")
      BY <1>2, <1>3, <2>1, PutFrame
    <2>2. CASE PartialWrites /\ blob' = [blob EXCEPT ![ShaOf[File(r)]] = Torn]
      BY <1>2, <1>3, <2>2 DEF BlobTypeOK
    <2>3. QED
      BY <1>5, <2>1, <2>2 DEF PutSucceeds
  <1>6. CASE PutFails(r)
    <2>1. PICK e : Put(ShaOf[File(r)], File(r), e) /\ (PartialWrites \/ blob'[ShaOf[File(r)]] # Torn)
      BY <1>6 DEF PutFails
    <2>2. QED
      BY <1>2, <1>3, <2>1, PutFrame
  <1>7. QED
    BY <1>1, <1>4, <1>5, <1>6

\* What is stored is stored under its own SHA1.
LEMMA StepKeysAreShas ==
  ASSUME TypeOK, NEW r \in Req, Control(r), Step(r), ~PartialWrites, KeysAreShas
  PROVE  KeysAreShas'
  <1> SUFFICES ASSUME NEW k \in Key, blob'[k] # Absent
               PROVE  \E c \in Content : ShaOf[c] = k /\ blob'[k] = c
    BY DEF KeysAreShas, Whole, Exists
  <1>1. CASE blob'[k] = blob[k]
    BY <1>1 DEF KeysAreShas, Whole, Exists
  <1>2. CASE blob'[k] # blob[k]
    BY <1>2, Stores
  <1>3. QED
    BY <1>1, <1>2

\* Where writes are atomic, what is accounted for is whole.
LEMMA AccountedKeys ==
  ASSUME Accounted, ~PartialWrites
  PROVE  KeysAreShas
  BY DEF Accounted, Kept, KeysAreShas

\* A request that is putting a file goes on while others take steps.
LEMMA PutsGoOn ==
  ASSUME TypeOK, NEW r \in Req, Step(r), NEW q \in Req, q # r, pc[q] = "put", Puts(q)
  PROVE  pc'[q] = "put" /\ Puts(q)' /\ File(q)' = File(q)
  BY StepOthers DEF Untouched, Puts, File, IsKind

\* A file that is being put still is, unless it was the one this step ends.
LEMMA BeingPutStays ==
  ASSUME TypeOK, NEW r \in Req, Step(r), NEW k, BeingPut(k),
         pc[r] = "put" /\ Puts(r) => ShaOf[File(r)] # k
  PROVE  BeingPut(k)'
  <1>1. PICK q \in Req : pc[q] = "put" /\ Puts(q) /\ ShaOf[File(q)] = k
    BY DEF BeingPut
  <1>2. q # r
    BY <1>1
  <1>3. QED
    BY <1>1, <1>2, PutsGoOn DEF BeingPut

\* A part of a file is still accounted for after a step.
LEMMA StepAccounted ==
  ASSUME TypeOK, NEW r \in Req, Control(r), Step(r), Accounted
  PROVE  Accounted'
  <1>0. PICK own : own = ShaOf[File(r)]
    OBVIOUS
  <1> DEFINE Stays(k) == blob'[k] = blob[k] /\ (k \in broken => k \in broken')
                           /\ (PartialWrites /\ BeingPut(k) => BeingPut(k)')
  <1>1. CASE ~PartialWrites
    <2>1. KeysAreShas'
      BY <1>1, AccountedKeys, StepKeysAreShas
    <2>2. QED
      BY <1>1, <2>1 DEF Accounted, KeysAreShas, Kept
  <1>2. CASE PartialWrites
    <2>1. ASSUME NEW k \in Key, Stays(k), Exists(k)'
          PROVE  Kept(k)'
      <3>1. Exists(k)
        BY <2>1 DEF Exists
      <3>2. Whole(k) \/ k \in broken \/ BeingPut(k)
        BY <3>1 DEF Accounted, Kept
      <3>3. Whole(k) => Whole(k)'
        BY <2>1 DEF Whole
      <3>4. QED
        BY <1>2, <2>1, <3>2, <3>3 DEF Kept
    <2>2. ASSUME NEW k, BeingPut(k), pc[r] = "put" /\ Puts(r) => own # k
          PROVE  BeingPut(k)'
      BY <1>0, <2>2, BeingPutStays
    <2>3. CASE PutIsVisible(r)
      <3>1. /\ UNCHANGED <<op, pc, left, mixed, broken>> /\ pc[r] = "put" /\ Puts(r)
            /\ Put(own, File(r), "error") /\ left[r].app # <<>>
        BY <1>0, <2>3 DEF PutIsVisible, Control
      <3>2. own \in Key /\ File(r) \in Content
        BY <1>0, <3>1, FileType
      <3>3. \A k \in Key \ {own} : blob'[k] = blob[k]
        BY <3>1, <3>2, PutFrame DEF TypeOK, StashTyped
      <3>4. \A k : BeingPut(k) => BeingPut(k)'
        BY <3>1 DEF BeingPut, Puts, File, IsKind
      <3>5. BeingPut(own)
        BY <1>0, <3>1 DEF BeingPut
      <3>6. BeingPut(own)'
        BY <3>4, <3>5
      <3>7. \A k \in Key : Exists(k)' => Kept(k)'
        <4>1. ASSUME NEW k \in Key, Exists(k)', k = own PROVE Kept(k)'
          BY <1>2, <3>6, <4>1 DEF Kept
        <4>2. ASSUME NEW k \in Key, Exists(k)', k # own PROVE Kept(k)'
          BY <2>1, <3>1, <3>3, <3>4, <4>2
        <4>3. QED
          BY <4>1, <4>2
      <3>8. QED
        BY <3>1, <3>7 DEF Accounted
    <2>4. CASE PutSucceeds(r)
      <3>1. /\ pc[r] = "put" /\ Puts(r) /\ left[r].app # <<>>
            /\ mixed' = IF Writers(r) = {} THEN mixed \ {own} ELSE mixed
            /\ broken' = IF Writers(r) # {} \/ own \in mixed THEN broken ELSE broken \ {own}
            /\ \/ Put(own, File(r), "nil")
               \/ /\ Writers(r) # {} \/ own \in mixed
                  /\ blob' = [blob EXCEPT ![own] = Torn]
        BY <1>0, <1>2, <2>4 DEF PutSucceeds, Control
      <3>2. own \in Key /\ File(r) \in Content
        BY <1>0, <3>1, FileType
      <3>3. \A k \in Key \ {own} : blob'[k] = blob[k]
        BY <3>1, <3>2, PutFrame DEF TypeOK, StashTyped, BlobTypeOK
      <3>4. ASSUME NEW k \in Key, Exists(k)', k # own PROVE Kept(k)'
        <4>1. k \in broken => k \in broken'
          BY <3>1, <3>4
        <4>2. BeingPut(k) => BeingPut(k)'
          BY <2>2, <3>4
        <4>3. QED
          BY <2>1, <3>3, <3>4, <4>1, <4>2
      <3>5. ASSUME Exists(own)' PROVE Kept(own)'
        <4>1. CASE Writers(r) # {}
          <5>1. PICK q \in Req \ {r} : pc[q] = "put" /\ Puts(q) /\ File(q) = File(r)
            BY <4>1 DEF Writers
          <5>2. pc'[q] = "put" /\ Puts(q)' /\ File(q)' = File(r)
            BY <5>1, PutsGoOn
          <5>3. \E p \in Req : pc'[p] = "put" /\ Puts(p)' /\ ShaOf[File(p)'] = own
            BY <1>0, <5>2
          <5>4. QED
            BY <1>2, <3>5, <5>3 DEF Kept, BeingPut
        <4>2. CASE own \in mixed
          <5>1. own \in broken'
            BY <1>2, <3>1, <4>2 DEF Accounted
          <5>2. QED
            BY <1>2, <3>5, <5>1 DEF Kept
        <4>3. CASE Writers(r) = {} /\ own \notin mixed
          <5>1. blob'[own] = File(r)
            BY <3>1, <3>2, <4>3, PutFrame DEF TypeOK, StashTyped
          <5>2. ShaOf[blob'[own]] = own /\ blob'[own] \in Content
            BY <1>0, <3>2, <5>1
          <5>3. QED
            BY <3>5, <5>2 DEF Kept, Whole
        <4>4. QED
          BY <4>1, <4>2, <4>3
      <3>6. mixed' \subseteq broken'
        BY <1>2, <3>1 DEF Accounted
      <3>7. \A k \in Key : Exists(k)' => Kept(k)'
        <4>1. ASSUME NEW k \in Key, Exists(k)' PROVE Kept(k)'
          <5>1. CASE k = own
            BY <3>5, <4>1, <5>1
          <5>2. CASE k # own
            BY <3>4, <4>1, <5>2
          <5>3. QED
            BY <5>1, <5>2
        <4>2. QED
          BY <4>1
      <3>8. QED
        BY <3>6, <3>7 DEF Accounted
    <2>5. CASE PutFails(r)
      <3>1. /\ pc[r] = "put" /\ Puts(r) /\ left[r].app # <<>>
            /\ broken' = broken \cup {own} /\ mixed' \subseteq mixed \cup {own}
            /\ \E e : Put(own, File(r), e)
        BY <1>0, <1>2, <2>5 DEF PutFails, Breaks, Control
      <3>2. own \in Key /\ File(r) \in Content
        BY <1>0, <3>1, FileType
      <3>3. \A k \in Key \ {own} : blob'[k] = blob[k]
        BY <3>1, <3>2, PutFrame DEF TypeOK, StashTyped
      <3>4. ASSUME NEW k \in Key, Exists(k)' PROVE Kept(k)'
        <4>1. CASE k = own
          BY <1>2, <3>1, <3>4, <4>1 DEF Kept
        <4>2. CASE k # own
          <5>1. BeingPut(k) => BeingPut(k)'
            BY <2>2, <4>2
          <5>2. QED
            BY <2>1, <3>1, <3>3, <3>4, <4>2, <5>1
        <4>3. QED
          BY <4>1, <4>2
      <3>5. mixed' \subseteq broken'
        BY <1>2, <3>1 DEF Accounted
      <3>6. QED
        BY <3>4, <3>5 DEF Accounted
    <2>6. CASE OpenFails(r)
      <3>1. /\ pc[r] = "put" /\ blob' = blob /\ mixed' = mixed
            /\ broken' = broken \cup (IF Puts(r) THEN {own} ELSE {})
        BY <1>0, <1>2, <2>6 DEF OpenFails, Breaks
      <3>2. ASSUME NEW k \in Key, Exists(k)' PROVE Kept(k)'
        <4>1. CASE Puts(r) /\ k = own
          BY <1>2, <3>1, <3>2, <4>1 DEF Kept
        <4>2. CASE ~(Puts(r) /\ k = own)
          <5>1. BeingPut(k) => BeingPut(k)'
            BY <2>2, <4>2
          <5>2. QED
            BY <2>1, <3>1, <3>2, <5>1
        <4>3. QED
          BY <4>1, <4>2
      <3>3. mixed' \subseteq broken'
        BY <1>2, <3>1 DEF Accounted
      <3>4. QED
        BY <3>2, <3>3 DEF Accounted
    <2>7. CASE ~(PutIsVisible(r) \/ PutSucceeds(r) \/ PutFails(r) \/ OpenFails(r))
      <3>1. UNCHANGED <<blob, mixed, broken>> /\ ~(pc[r] = "put" /\ Puts(r))
        BY <2>7 DEF Step, Prepare, PostMatches, StoreFiles, FetchFiles, stash, Arrive, Refuse, Accept, Match,
             ExistsFails, AnswerMatches, Stage, StageFails, Staged, SkipPut, GetFails,
             GetFindsNothing, ReadFails, ReadWhole, CloseZip, Respond, Getting
      <3>2. ASSUME NEW k \in Key, Exists(k)' PROVE Kept(k)'
        <4>1. BeingPut(k) => BeingPut(k)'
          BY <2>2, <3>1
        <4>2. QED
          BY <2>1, <3>1, <3>2, <4>1
      <3>3. mixed' \subseteq broken'
        BY <1>2, <3>1 DEF Accounted
      <3>4. QED
        BY <3>2, <3>3 DEF Accounted
    <2>8. QED
      BY <2>3, <2>4, <2>5, <2>6, <2>7
  <1>3. QED
    BY <1>1, <1>2

\* What is being put when the process is killed is accounted for as broken.
LEMMA KillAccounted ==
  ASSUME Kill, Accounted
  PROVE  Accounted'
  <1>1. /\ blob' = blob /\ mixed' = {}
        /\ broken' = IF PartialWrites THEN broken \cup {k \in Key : BeingPut(k)} ELSE broken
    BY DEF Kill, Breaks
  <1>2. ASSUME NEW k \in Key, Exists(k)' PROVE Kept(k)'
    <2>1. Exists(k) /\ Kept(k)
      BY <1>1, <1>2 DEF Exists, Accounted
    <2>2. Whole(k) => Whole(k)'
      BY <1>1 DEF Whole
    <2>3. PartialWrites /\ (k \in broken \/ BeingPut(k)) => k \in broken'
      BY <1>1
    <2>4. QED
      BY <1>2, <2>1, <2>2, <2>3 DEF Kept
  <1>3. QED
    BY <1>1, <1>2 DEF Accounted

\* Only arriving makes a request not idle.
LEMMA Arrives ==
  ASSUME TypeOK, NEW r \in Req, Step(r), NEW q \in Req, pc'[q] # "idle"
  PROVE  (pc[q] # "idle" /\ there'[q] = there[q]) \/ there'[q] = StashedKeys
  <1>1. CASE q # r
    BY <1>1, StepOthers DEF Untouched
  <1>2. CASE Arrive(r) /\ q = r
    BY <1>2 DEF Arrive, TypeOK, StashTyped
  <1>3. CASE ~Arrive(r)
    <2>1. there' = there /\ pc[r] # "idle"
      BY <1>3 DEF Step, Prepare, PostMatches, StoreFiles, FetchFiles, product, Refuse, Accept, Match, ExistsFails,
           AnswerMatches, Stage, StageFails, Staged, PutIsVisible, PutSucceeds, SkipPut, PutFails, OpenFails,
           GetFails, GetFindsNothing, ReadFails, ReadWhole, CloseZip, Respond, Getting
    <2>2. QED
      BY <1>1, <2>1
  <1>4. QED
    BY <1>1, <1>2, <1>3

\* A file out of range is stored only because it was posted.
LEMMA StepOthersAreEntries ==
  ASSUME TypeOK, NEW r \in Req, Control(r), Step(r), OthersAreEntries
  PROVE  OthersAreEntries'
  <1>1. op' = op
    BY DEF Step, Prepare, PostMatches, StoreFiles, FetchFiles, Arrive, Refuse, Accept, Match, ExistsFails,
         AnswerMatches, Stage, StageFails, Staged, PutIsVisible, PutSucceeds, SkipPut, PutFails, OpenFails,
         GetFails, GetFindsNothing, ReadFails, ReadWhole, CloseZip, Respond
  <1> SUFFICES ASSUME NEW c \in Content, blob'[ShaOf[c]] # Absent, ~InRange(Size[c])
               PROVE  \/ \A q \in Req : pc'[q] # "idle" => ShaOf[c] \in there'[q]
                      \/ \E q \in Req : op[q].kind \in {"entries"} /\ c \in ToSet(op[q].app)
    BY <1>1 DEF OthersAreEntries, Exists, IsKind
  <1>2. ShaOf[c] \in Key
    BY StashAssumption
  <1>3. CASE blob[ShaOf[c]] # Absent
    <2>1. CASE \A q \in Req : pc[q] # "idle" => ShaOf[c] \in there[q]
      <3>1. ShaOf[c] \in StashedKeys
        BY <1>2, <1>3 DEF StashedKeys, Exists
      <3>2. QED
        BY <2>1, <3>1, Arrives
    <2>2. QED
      BY <1>3, <2>1 DEF OthersAreEntries, Exists, IsKind
  <1>4. CASE blob[ShaOf[c]] = Absent
    <2>1. left[r].app # <<>> /\ Puts(r) /\ ShaOf[c] = ShaOf[File(r)] /\ File(r) \in Content
      BY <1>2, <1>4, Stores
    <2>2. File(r) = c
      BY <2>1, StashAssumption
    <2>3. op[r].kind \in {"entries"}
      BY <2>1, <2>2 DEF Puts, IsKind
    <2>4. AppDone(r) + 1 \in 1..Len(op[r].app) /\ c = op[r].app[AppDone(r) + 1]
      BY <2>1, <2>2, NextFileDone
    <2>5. DOMAIN op[r].app = 1..Len(op[r].app)
      BY Types
    <2>6. c \in ToSet(op[r].app)
      BY <2>4, <2>5 DEF ToSet
    <2>7. QED
      BY <2>3, <2>6
  <1>5. QED
    BY <1>3, <1>4

-----------------------------------------------------------------------------
(* Exactness, when nothing spoils a zip.                                    *)

\* A SHA1 stands for one content.
LEMMA ContentOfSha ==
  ASSUME NEW c \in Content
  PROVE  ContentOf(ShaOf[c]) = c
  BY StashAssumption DEF ContentOf

\* Requests that do not run keep what they read.
LEMMA OthersExact ==
  ASSUME TypeOK, NEW q \in Req, Untouched(q), \A k \in Key : Exists(k) => Exists(k)', Control(q), Exact(q)
  PROVE  Exact(q)'
  <1>1. WantDone(q)' = WantDone(q)
    BY DEF WantDone, Untouched
  <1>2. \A i \in 1..WantDone(q) : op[q].want[i].sha \in Key
    BY DoneTypes
  <1>3. /\ part'[q] = <<>> /\ zip'[q] = zip[q] /\ op' = op
        /\ pc'[q] = pc[q] /\ resp'[q] = resp[q]
        /\ q \in closed' <=> q \in closed
    BY DEF Untouched, Exact
  <1>4. ASSUME Zips(q), pc[q] \in {"get", "close", "respond"} \/ Answered(q, 200), NEW i \in 1..WantDone(q)
        PROVE  blob'[op[q].want[i].sha] # Absent
    BY <1>2, <1>4 DEF Exact, Exists
  <1>5. \A i \in 1..Len(zip'[q]) :
          i > Len(op'[q].app) => zip'[q][i] = <<ContentOf(op'[q].want[i - Len(op'[q].app)].sha)>>
    BY <1>3 DEF Exact
  <1>6. /\ Answered(q, 200)' <=> Answered(q, 200)
        /\ IsKind(q, {"package"})' <=> IsKind(q, {"package"})
        /\ Zips(q)' <=> Zips(q)
    BY <1>3 DEF Zips, IsKind, Answered
  <1>7. pc[q] = "respond" \/ (Answered(q, 200) /\ IsKind(q, {"package"})) => q \in closed
    BY DEF Exact
  <1>8. pc'[q] = "respond" \/ (Answered(q, 200)' /\ IsKind(q, {"package"})') => q \in closed'
    BY <1>3, <1>6, <1>7
  <1>9. Zips(q)' /\ (pc'[q] \in {"get", "close", "respond"} \/ Answered(q, 200)') =>
          \A i \in 1..WantDone(q)' : blob'[op'[q].want[i].sha] # Absent
    BY <1>1, <1>3, <1>4, <1>6
  <1>10. QED
    BY <1>3, <1>5, <1>8, <1>9 DEF Exact, Exists, ContentOf

\* Nothing torn is left in an entry.
LEMMA StepPart ==
  ASSUME TypeOK, NEW r \in Req, Step(r), ~Spoilt, part[r] = <<>>
  PROVE  part'[r] = <<>>
  <1>1. ~ReadFails(r)
    BY DEF ReadFails, Spoilt
  <1>2. CASE ReadWhole(r)
    BY <1>2 DEF ReadWhole, TypeOK, ListsTyped
  <1>3. CASE ~ReadWhole(r)
    BY <1>1, <1>3 DEF Step, Prepare, PostMatches, StoreFiles, FetchFiles, product, Arrive, Refuse, Accept, Match,
         ExistsFails, AnswerMatches, Stage, StageFails, Staged, PutIsVisible, PutSucceeds, SkipPut, PutFails,
         OpenFails, GetFails, GetFindsNothing, CloseZip, Respond
  <1>4. QED
    BY <1>2, <1>3

\* The zip holds what it should after the client's own files.
LEMMA StepFetched ==
  ASSUME TypeOK, NEW r \in Req, Control(r), Zipped(r), Exact(r), KeysAreShas, Step(r)
  PROVE  \A i \in 1..Len(zip'[r]) :
           i > Len(op'[r].app) => zip'[r][i] = <<ContentOf(op'[r].want[i - Len(op'[r].app)].sha)>>
  <1>1. op' = op
    BY DEF Step, Prepare, PostMatches, StoreFiles, FetchFiles, Arrive, Refuse, Accept, Match, ExistsFails,
         AnswerMatches, Stage, StageFails, Staged, PutIsVisible, PutSucceeds, SkipPut, PutFails, OpenFails,
         GetFails, GetFindsNothing, ReadFails, ReadWhole, CloseZip, Respond
  <1>2. CASE zip'[r] = zip[r]
    BY <1>1, <1>2 DEF Exact
  <1>3. CASE Stage(r) /\ zip'[r] # zip[r]
    <2>1. Zips(r) /\ left[r].app # <<>> /\ pc[r] = "stage" /\ left[r].want = op[r].want
      BY <1>3 DEF Stage, Control
    <2>2. zip'[r] = Append(zip[r], <<File(r)>>) /\ Len(zip'[r]) = Len(zip[r]) + 1
      <3>1. File(r) \in Content
        BY <2>1, FileType
      <3>2. <<File(r)>> \in Seq(Content \cup {Torn})
        BY <3>1
      <3>3. QED
        BY <1>3, <2>1, <3>2, Appended DEF Stage, TypeOK, ListsTyped
    <2>3. WantDone(r) = 0
      BY <2>1, Types DEF WantDone
    <2>4. AppDone(r) + 1 \in 1..Len(op[r].app) /\ AppDone(r) \in Nat /\ Len(op[r].app) \in Nat
      BY <2>1, NextFileDone, DoneTypes
    <2>5. Len(zip[r]) = AppDone(r)
      BY <2>1, <2>3, <2>4 DEF Zipped
    <2>6. \A i \in 1..Len(zip'[r]) : i <= Len(op[r].app)
      BY <2>2, <2>4, <2>5
    <2>7. QED
      BY <1>1, <2>4, <2>6
  <1>4. CASE ReadWhole(r)
    <2>1. /\ WantDone(r) + 1 \in 1..Len(op[r].want)
          /\ Sha(r) = op[r].want[WantDone(r) + 1].sha
          /\ Len(zip[r]) = Len(op[r].app) + WantDone(r) /\ Len(zip'[r]) = Len(zip[r]) + 1
          /\ \A i \in 1..Len(zip[r]) : zip'[r][i] = zip[r][i]
          /\ zip'[r][Len(zip[r]) + 1] = Append(part[r], blob[Sha(r)])
          /\ blob[Sha(r)] \in Content \cup {Torn} /\ Sha(r) \in Key
      BY <1>4, ReadZipped
    <2>2. PICK c \in Content : ShaOf[c] = Sha(r) /\ blob[Sha(r)] = c
      BY <1>4, <2>1 DEF ReadWhole, KeysAreShas, Whole
    <2>3. Append(part[r], blob[Sha(r)]) = <<ContentOf(Sha(r))>>
      <3>1. blob[Sha(r)] = ContentOf(Sha(r))
        BY <2>2, ContentOfSha
      <3>2. Append(part[r], blob[Sha(r)]) = <<blob[Sha(r)]>>
        BY DEF Exact
      <3>3. QED
        BY <3>1, <3>2
    <2>4. \A i \in 1..Len(zip'[r]) :
            i \in 1..Len(zip[r]) \/ (i = Len(zip[r]) + 1 /\ i - Len(op[r].app) = WantDone(r) + 1)
      <3> DEFINE m == Len(op[r].app)
                 n == WantDone(r)
                 z == Len(zip[r])
                 zz == Len(zip'[r])
      <3>1. m \in Nat /\ n \in Nat /\ z = m + n /\ zz = z + 1
        BY <2>1, DoneTypes
      <3> HIDE DEF m, n, z, zz
      <3>2. \A i \in 1..zz : i \in 1..z \/ (i = z + 1 /\ i - m = n + 1)
        BY <3>1
      <3>3. QED
        BY <3>2 DEF m, n, z, zz
    <2>5. \A i \in 1..Len(zip[r]) :
            i > Len(op[r].app) => zip[r][i] = <<ContentOf(op[r].want[i - Len(op[r].app)].sha)>>
      BY DEF Exact
    <2>6. QED
      BY <1>1, <2>1, <2>3, <2>4, <2>5
  <1>5. Stage(r) \/ ReadWhole(r) \/ zip' = zip
    BY DEF Step, Prepare, PostMatches, StoreFiles, FetchFiles, product, Arrive, Refuse, Accept, Match,
         ExistsFails, AnswerMatches, StageFails, Staged, PutIsVisible, PutSucceeds, SkipPut, PutFails,
         OpenFails, GetFails, GetFindsNothing, ReadFails, CloseZip, Respond
  <1>6. QED
    BY <1>2, <1>3, <1>4, <1>5

\* A zip that is handed over is closed.
LEMMA StepClosed ==
  ASSUME TypeOK, NEW r \in Req, Control(r), Tempfile(r), ~Spoilt, Step(r),
         (pc[r] = "respond" \/ (Answered(r, 200) /\ IsKind(r, {"package"}))) => r \in closed
  PROVE  (pc'[r] = "respond" \/ (Answered(r, 200)' /\ IsKind(r, {"package"})')) => r \in closed'
  <1>1. CASE CloseZip(r)
    BY <1>1 DEF CloseZip, Spoilt
  <1>2. CASE Respond(r)
    <2>1. r \in closed /\ r \in temp /\ pc'[r] = "done" /\ op' = op /\ closed' = closed \cap temp'
      BY <1>2 DEF Respond, Finish, Tempfile, TypeOK, PlacesTyped
    <2>2. IsKind(r, {"package"}) => temp' = temp
      BY <1>2 DEF Respond, IsKind
    <2>3. QED
      BY <2>1, <2>2 DEF IsKind
  <1>3. CASE StageFails(r) \/ PutFails(r) \/ GetFails(r) \/ GetFindsNothing(r) \/ ReadFails(r)
    <2>1. pc[r] \in {"stage", "put", "get"} /\ \E e : Return(r, e) \/ RetryOrReturn(r, e)
      BY <1>3 DEF StageFails, PutFails, GetFails, GetFindsNothing, ReadFails, Getting
    <2>2. UNCHANGED <<pc, resp>> \/ (pc'[r] = "done" /\ resp'[r] # 200)
      BY <2>1, RetryStep
    <2>3. QED
      BY <2>1, <2>2 DEF Answered
  <1>4. CASE OpenFails(r)
    <2>1. pc[r] = "put" /\ (Return(r, "error") \/ Finish(r, 500))
      BY <1>4 DEF OpenFails
    <2>2. Return(r, "error") => pc'[r] = "done" /\ resp'[r] = CodeFor(r, "error")
      BY DEF Return, Finish, TypeOK, PlacesTyped
    <2>3. CodeFor(r, "error") = 500
      BY DEF CodeFor
    <2>4. pc'[r] = "done" /\ resp'[r] = 500
      BY <2>1, <2>2, <2>3 DEF Finish, TypeOK, PlacesTyped
    <2>5. QED
      BY <2>4 DEF Answered
  <1>5. CASE Prepare(r) \/ Stage(r) \/ Staged(r) \/ PutIsVisible(r) \/ PutSucceeds(r) \/ SkipPut(r) \/ ReadWhole(r)
    <2>1. pc'[r] \in {"arrived", "match", "stage", "put", "get", "close"} \/ (pc'[r] = "done" /\ resp'[r] # 200)
      BY <1>5 DEF Prepare, Arrive, Refuse, RefusalCodes, Accept, Stage, Staged, PutIsVisible, PutSucceeds, SkipPut,
           ReadWhole, NextFile, Goto, Finish, TypeOK, PlacesTyped
    <2>2. QED
      BY <2>1 DEF Answered
  <1>6. CASE PostMatches(r)
    <2>1. op' = op /\ IsKind(r, {"matches"}) /\ pc'[r] \in {"match", "done"}
      BY <1>6 DEF PostMatches, Match, ExistsFails, AnswerMatches, Control, Finish, TypeOK, PlacesTyped
    <2>2. QED
      BY <2>1 DEF IsKind
  <1>7. QED
    BY <1>1, <1>2, <1>3, <1>4, <1>5, <1>6 DEF Step, StoreFiles, FetchFiles

\* The stashed files that are in the zip are still there.
LEMMA StepWants ==
  ASSUME TypeOK, NEW r \in Req, Control(r), Zipped(r), Exact(r), Step(r), \A k \in Key : Exists(k) => Exists(k)'
  PROVE  Zips(r)' /\ (pc'[r] \in {"get", "close", "respond"} \/ Answered(r, 200)') =>
           \A i \in 1..WantDone(r)' : blob'[op'[r].want[i].sha] # Absent
  <1>1. op' = op
    BY DEF Step, Prepare, PostMatches, StoreFiles, FetchFiles, Arrive, Refuse, Accept, Match, ExistsFails,
         AnswerMatches, Stage, StageFails, Staged, PutIsVisible, PutSucceeds, SkipPut, PutFails, OpenFails,
         GetFails, GetFindsNothing, ReadFails, ReadWhole, CloseZip, Respond
  <1>2. SUFFICES ASSUME Zips(r), pc'[r] \in {"get", "close", "respond"} \/ Answered(r, 200)',
                        NEW i \in 1..WantDone(r)'
                 PROVE  blob'[op[r].want[i].sha] # Absent
    BY <1>1 DEF Zips, IsKind
  <1>3. CASE left' = left /\ (pc[r] \in {"get", "close", "respond"} \/ Answered(r, 200))
    <2>1. WantDone(r)' = WantDone(r)
      BY <1>1, <1>3 DEF WantDone
    <2>2. op[r].want[i].sha \in Key /\ Exists(op[r].want[i].sha)
      BY <1>2, <1>3, <2>1, DoneTypes DEF Exact
    <2>3. QED
      BY <2>2 DEF Exists
  <1>4. CASE Staged(r)
    <2>1. left' = left /\ left[r].want = op[r].want
      BY <1>4 DEF Staged, Control
    <2>2. WantDone(r)' = 0
      BY <1>1, <2>1, Types DEF WantDone
    <2>3. QED
      BY <1>2, <2>2
  <1>5. CASE ReadWhole(r)
    <2>1. /\ WantDone(r) + 1 \in 1..Len(op[r].want) /\ WantDone(r)' = WantDone(r) + 1
          /\ Sha(r) = op[r].want[WantDone(r) + 1].sha /\ Sha(r) \in Key
      BY <1>5, ReadZipped
    <2>2. pc[r] = "get" /\ Exists(Sha(r)) /\ WantDone(r) \in Nat
      BY <1>5, DoneTypes DEF ReadWhole, Getting
    <2>3. i \in 1..WantDone(r) \/ i = WantDone(r) + 1
      BY <1>2, <2>1, <2>2
    <2>4. \A j \in 1..WantDone(r) : Exists(op[r].want[j].sha) /\ op[r].want[j].sha \in Key
      BY <1>2, <2>2, DoneTypes DEF Exact
    <2>5. QED
      BY <2>1, <2>2, <2>3, <2>4 DEF Exists
  <1>6. CASE Prepare(r) \/ PostMatches(r) \/ Stage(r) \/ PutIsVisible(r) \/ PutSucceeds(r) \/ SkipPut(r)
    <2>1. CASE PostMatches(r)
      BY <1>2, <2>1 DEF PostMatches, Match, ExistsFails, AnswerMatches, Control, Zips, IsKind
    <2>2. CASE ~PostMatches(r)
      <3>1. pc'[r] \in {"arrived", "match", "stage", "put"} \/ (pc'[r] = "done" /\ resp'[r] # 200)
        BY <1>6, <2>2 DEF Prepare, Arrive, Refuse, RefusalCodes, Accept, Stage, PutIsVisible, PutSucceeds, SkipPut,
             NextFile, Goto, Finish, TypeOK, PlacesTyped
      <3>2. QED
        BY <1>2, <3>1 DEF Answered
    <2>3. QED
      BY <2>1, <2>2
  <1>7. CASE StageFails(r) \/ PutFails(r) \/ GetFails(r) \/ GetFindsNothing(r) \/ ReadFails(r) \/ OpenFails(r)
    <2>1. /\ left' = left
          /\ (\E e : Return(r, e) \/ RetryOrReturn(r, e)) \/ Finish(r, 500)
      BY <1>7 DEF StageFails, PutFails, GetFails, GetFindsNothing, ReadFails, OpenFails
    <2>2. Finish(r, 500) => pc'[r] = "done" /\ resp'[r] = 500
      BY DEF Finish, TypeOK, PlacesTyped
    <2>3. UNCHANGED <<pc, resp>> \/ (pc'[r] = "done" /\ resp'[r] # 200)
      BY <2>1, <2>2, RetryStep
    <2>4. UNCHANGED <<pc, resp>>
      BY <1>2, <2>3 DEF Answered
    <2>5. QED
      BY <1>2, <1>3, <2>1, <2>4 DEF Answered
  <1>8. CASE CloseZip(r) \/ Respond(r)
    BY <1>3, <1>8 DEF CloseZip, Respond
  <1>9. QED
    BY <1>4, <1>5, <1>6, <1>7, <1>8 DEF Step, StoreFiles, FetchFiles

\* A step keeps the zip exact.
LEMMA StepExact ==
  ASSUME TypeOK, NEW r \in Req, Control(r), Tempfile(r), Zipped(r), Exact(r), KeysAreShas, ~Spoilt,
         Step(r), \A k \in Key : Exists(k) => Exists(k)'
  PROVE  Exact(r)'
  <1>1. part[r] = <<>> /\ ((pc[r] = "respond" \/ (Answered(r, 200) /\ IsKind(r, {"package"}))) => r \in closed)
    BY DEF Exact
  <1>2. part'[r] = <<>>
    BY <1>1, StepPart
  <1>3. (pc'[r] = "respond" \/ (Answered(r, 200)' /\ IsKind(r, {"package"})')) => r \in closed'
    BY <1>1, StepClosed
  <1>4. QED
    BY <1>2, <1>3, StepFetched, StepWants DEF Exact, Exists, ContentOf

-----------------------------------------------------------------------------
(* Killing the process.                                                     *)

\* A kill keeps each part of the invariant.
LEMMA KillTypes ==
  ASSUME TypeOK, Kill
  PROVE  TypeOK'
  <1>1. PlacesTyped'
    BY LabelsAndCodes, StashAssumption DEF Kill, TypeOK, PlacesTyped, product
  <1>2. ListsTyped'
    BY DEF Kill, TypeOK, ListsTyped, product
  <1>3. StashTyped'
    BY DEF Kill, Breaks, TypeOK, StashTyped, BlobTypeOK, product
  <1>4. QED
    BY <1>1, <1>2, <1>3 DEF TypeOK

LEMMA KillFrame ==
  ASSUME TypeOK, Kill, NEW r \in Req
  PROVE  /\ UNCHANGED <<op, left, shas, zip, part, closed, missing, temp, resp, blob, there, misled>>
         /\ pc'[r] = pc[r] \/ (pc'[r] = "killed" /\ pc[r] \notin {"idle", "done"})
  BY DEF Kill, product, TypeOK, PlacesTyped

LEMMA KillKeeps ==
  ASSUME TypeOK, Kill, NEW r \in Req, Control(r), Tempfile(r), Saw(r), Listed(r), Zipped(r)
  PROVE  Control(r)' /\ Tempfile(r)' /\ Saw(r)' /\ Listed(r)' /\ Zipped(r)'
  <1>1. /\ UNCHANGED <<op, left, shas, zip, part, closed, missing, temp, resp, blob, there, misled>>
        /\ pc'[r] = pc[r] \/ (pc'[r] = "killed" /\ pc[r] \notin {"idle", "done"})
    BY KillFrame
  <1>2. Control(r)'
    BY <1>1 DEF Control, IsKind, Zips, Answered
  <1>3. Tempfile(r)'
    BY <1>1 DEF Tempfile, IsKind, Zips, Answered
  <1>4. Saw(r)'
    BY <1>1 DEF Saw, StashedKeys, Exists
  <1>5. Listed(r)'
    BY <1>1, ListedFrame DEF Exists
  <1>6. Zipped(r)'
    BY <1>1, ZippedFrame
  <1>7. QED
    BY <1>2, <1>3, <1>4, <1>5, <1>6

LEMMA KillExact ==
  ASSUME TypeOK, Kill, NEW r \in Req, Exact(r)
  PROVE  Exact(r)'
  <1>1. /\ UNCHANGED <<op, left, zip, part, closed, resp, blob>>
        /\ pc'[r] = pc[r] \/ pc'[r] = "killed"
    BY KillFrame
  <1>2. WantDone(r)' = WantDone(r)
    BY <1>1 DEF WantDone
  <1>3. pc'[r] \in {"get", "close", "respond", "done"} => pc[r] = pc'[r]
    BY <1>1
  <1>4. Answered(r, 200)' => Answered(r, 200)
    BY <1>1, <1>3 DEF Answered
  <1>5. QED
    BY <1>1, <1>2, <1>3, <1>4 DEF Exact, Zips, IsKind, Exists, ContentOf

-----------------------------------------------------------------------------
(* The invariant.                                                           *)

\* What no step of a request and no kill breaks.
LEMMA StepInv ==
  ASSUME IndInv, NEW r \in Req, Step(r)
  PROVE  IndInv'
  <1>1. TypeOK /\ \A q \in Req : Control(q) /\ Tempfile(q) /\ Saw(q) /\ Listed(q) /\ Zipped(q)
    BY DEF IndInv
  <1>2. TypeOK'
    BY <1>1, StepTypes
  <1>3. \A k \in Key : Exists(k) => Exists(k)'
    BY <1>1, StashGrows
  <1>4. ASSUME NEW q \in Req
        PROVE  Control(q)' /\ Tempfile(q)' /\ Saw(q)' /\ Listed(q)' /\ Zipped(q)'
    <2>1. CASE q = r
      BY <1>1, <1>3, <2>1, StepControl, StepTempfile, StepSaw, StepListed, StepZipped
    <2>2. CASE q # r
      BY <1>1, <1>2, <1>3, <2>2, StepOthers, OthersKeep
    <2>3. QED
      BY <2>1, <2>2
  <1>5. OthersAreEntries'
    BY <1>1, StepOthersAreEntries DEF IndInv
  <1>6. Accounted'
    BY <1>1, StepAccounted DEF IndInv
  <1>7. ASSUME ~Spoilt, NEW q \in Req
        PROVE  Exact(q)'
    <2>1. Exact(q) /\ KeysAreShas
      BY <1>7, AccountedKeys DEF IndInv, Spoilt
    <2>2. CASE q = r
      BY <1>1, <1>3, <1>7, <2>1, <2>2, StepExact
    <2>3. CASE q # r
      BY <1>1, <1>3, <2>1, <2>3, StepOthers, OthersExact
    <2>4. QED
      BY <2>2, <2>3
  <1>8. QED
    BY <1>2, <1>4, <1>5, <1>6, <1>7 DEF IndInv, Spoilt

LEMMA KillInv ==
  ASSUME IndInv, Kill
  PROVE  IndInv'
  <1>1. TypeOK /\ \A q \in Req : Control(q) /\ Tempfile(q) /\ Saw(q) /\ Listed(q) /\ Zipped(q)
    BY DEF IndInv
  <1>2. TypeOK'
    BY <1>1, KillTypes
  <1>3. \A q \in Req : Control(q)' /\ Tempfile(q)' /\ Saw(q)' /\ Listed(q)' /\ Zipped(q)'
    BY <1>1, KillKeeps
  <1>4. ~Spoilt => \A q \in Req : Exact(q)'
    BY <1>1, KillExact DEF IndInv
  <1>5. op' = op /\ blob' = blob /\ there' = there /\ \A q \in Req : pc'[q] # "idle" => pc[q] # "idle"
    BY <1>1, KillFrame DEF Kill
  <1>6. OthersAreEntries'
    BY <1>5 DEF IndInv, OthersAreEntries, IsKind, Exists
  <1>7. Accounted'
    BY <1>5, KillAccounted DEF IndInv
  <1>8. QED
    BY <1>2, <1>3, <1>4, <1>6, <1>7 DEF IndInv, Spoilt

\* The stash a process finds when it starts.
LEMMA InitStash ==
  ASSUME Init
  PROVE  BlobTypeOK /\ KeysAreShas
  <1>1. PICK stashed \in SUBSET Content :
          blob = [k \in Key |-> IF \E c \in stashed : ShaOf[c] = k
                                  THEN CHOOSE c \in stashed : ShaOf[c] = k ELSE Absent]
    BY DEF Init
  <1>2. ASSUME NEW k \in Key
        PROVE  \/ blob[k] = Absent
               \/ blob[k] \in Content /\ ShaOf[blob[k]] = k
    <2>1. CASE \E c \in stashed : ShaOf[c] = k
      <3>1. (CHOOSE c \in stashed : ShaOf[c] = k) \in stashed /\ ShaOf[CHOOSE c \in stashed : ShaOf[c] = k] = k
        BY <2>1
      <3>2. blob[k] = CHOOSE c \in stashed : ShaOf[c] = k
        BY <1>1, <2>1
      <3>3. QED
        BY <3>1, <3>2
    <2>2. CASE ~\E c \in stashed : ShaOf[c] = k
      BY <1>1, <2>2
    <2>3. QED
      BY <2>1, <2>2
  <1>3. BlobTypeOK
    <2>1. \A k \in Key : blob[k] \in Stored
      BY <1>2 DEF Stored
    <2>2. QED
      BY <1>1, <2>1 DEF BlobTypeOK
  <1>4. KeysAreShas
    BY <1>2 DEF KeysAreShas, Whole, Exists
  <1>5. QED
    BY <1>3, <1>4

LEMMA InitTypes ==
  ASSUME Init
  PROVE  TypeOK
  <1>1. PlacesTyped
    <2>1. "idle" \in Label /\ NoReply \in Code
      BY DEF Label, Code
    <2>2. QED
      BY <2>1, StashAssumption DEF Init, PlacesTyped
  <1>2. ListsTyped
    <2>1. \A r \in Req : op[r].app \in Seq(Content) /\ op[r].want \in Seq(Fingerprint)
      BY StashAssumption DEF Init, IsOp
    <2>2. left \in [Req -> [app : Seq(Content), want : Seq(Fingerprint)]]
      BY <2>1 DEF Init
    <2>3. shas \in [Req -> Seq(Key)]
      BY DEF Init
    <2>4. zip \in [Req -> Seq(Seq(Content \cup {Torn}))] /\ part \in [Req -> Seq(Content \cup {Torn})]
      BY DEF Init
    <2>5. QED
      BY <2>2, <2>3, <2>4 DEF ListsTyped
  <1>3. StashTyped
    BY InitStash DEF Init, StashTyped
  <1>4. QED
    BY <1>1, <1>2, <1>3 DEF TypeOK

\* Initial states satisfy the invariant.
LEMMA InitInv ==
  ASSUME Init
  PROVE  IndInv
  <1>1. TypeOK /\ KeysAreShas
    BY InitTypes, InitStash
  <1>2. ASSUME NEW r \in Req
        PROVE  /\ op[r].app \in Seq(Content) /\ op[r].want \in Seq(Fingerprint)
               /\ left[r].app = op[r].app /\ left[r].want = op[r].want
               /\ pc[r] = "idle" /\ resp[r] = NoReply /\ shas[r] = <<>> /\ zip[r] = <<>> /\ part[r] = <<>>
               /\ r \notin closed /\ r \notin temp /\ missing[r] = {} /\ there[r] = {}
               /\ op[r].kind \in {"matches", "entries", "bundle", "package"}
    BY <1>1, Types DEF Init
  <1>3. ASSUME NEW r \in Req
        PROVE  AppDone(r) = 0 /\ WantDone(r) = 0
    BY <1>2 DEF AppDone, WantDone
  <1>4. ASSUME NEW r \in Req
        PROVE  Control(r)
    <2>1. EndOf(left[r].app, op[r].app) /\ EndOf(left[r].want, op[r].want)
      BY <1>2, WholeEndOf
    <2>2. QED
      BY <1>2, <2>1 DEF Control, Answered
  <1>5. \A r \in Req : Tempfile(r) /\ Saw(r)
    BY <1>2 DEF Tempfile, Saw
  <1>6. ASSUME NEW r \in Req
        PROVE  Listed(r)
    <2>1. shas[r] = <<>> /\ ToSet(shas[r]) = {} /\ Len(shas[r]) = 0
      BY <1>2 DEF ToSet
    <2>2. QED
      BY <1>3, <2>1 DEF Listed
  <1>7. ASSUME NEW r \in Req
        PROVE  Zipped(r) /\ Exact(r)
    <2>1. zip[r] = <<>> /\ Len(zip[r]) = 0
      BY <1>2
    <2>2. QED
      BY <1>2, <1>3, <2>1 DEF Zipped, Exact, Answered
  <1>8. OthersAreEntries
    BY <1>2 DEF OthersAreEntries
  <1>9. Accounted
    BY <1>1 DEF Accounted, KeysAreShas, Kept, Init
  <1>10. QED
    BY <1>1, <1>4, <1>5, <1>6, <1>7, <1>8, <1>9 DEF IndInv

\* And so do steps that change nothing.
LEMMA StutterInv ==
  ASSUME IndInv, UNCHANGED vars
  PROVE  IndInv'
  <1> USE DEF vars, product, stash
  <1>1. TypeOK'
    BY DEF IndInv, TypeOK, PlacesTyped, ListsTyped, StashTyped, BlobTypeOK
  <1>2. ASSUME NEW r \in Req
        PROVE  Control(r)' /\ Tempfile(r)' /\ Saw(r)' /\ Listed(r)' /\ Zipped(r)'
    BY OthersKeep, <1>1 DEF IndInv, Untouched, Exists
  <1>3. ~Spoilt => \A r \in Req : Exact(r)'
    BY OthersExact DEF IndInv, Untouched, Exists
  <1>4. OthersAreEntries' /\ Accounted'
    BY DEF IndInv, OthersAreEntries, Accounted, Kept, Whole, BeingPut, Puts, File, IsKind, Exists
  <1>5. QED
    BY <1>1, <1>2, <1>3, <1>4 DEF IndInv, Spoilt

\* The invariant holds of every behaviour of the handlers (PostMatches,
\* PostEntries, PostBundles, CreateTempZipFileFrom).
THEOREM Inductive == Spec => []IndInv
  <1>1. Init => IndInv
    BY InitInv
  <1>2. IndInv /\ [Next]_vars => IndInv'
    BY StepInv, KillInv, StutterInv DEF Next
  <1>3. QED
    BY <1>1, <1>2, PTL DEF Spec

\* The variables have their types, for any requests, files and faults.
THEOREM TypeCorrect == Spec => []TypeOK
  <1>1. IndInv => TypeOK
    BY DEF IndInv
  <1>2. QED
    BY <1>1, Inductive, PTL

\* No request misses a file under whose SHA1 something was stored when it arrived,
\* unless a failed Get denied it (PostBundles, CreateTempZipFileFrom).
THEOREM MissingCorrect == Spec => []MissingWasNeverThere
  <1>1. IndInv => MissingWasNeverThere
    BY DEF IndInv, MissingWasNeverThere, Saw
  <1>2. QED
    BY <1>1, Inductive, PTL

\* The temporary zip of a request outlives it only where it is handed over, or
\* its handler panics (PostBundles, CreateTempZipFileFrom).
THEOREM TempZipCorrect == Spec => []TempZipLifetime
  <1>1. IndInv => TempZipLifetime
    BY DEF IndInv, TempZipLifetime, Tempfile
  <1>2. QED
    BY <1>1, Inductive, PTL

\* Where writes are atomic, whatever is found under a SHA1 is its file (copyTo,
\* CreateTempZipFileFrom).
THEOREM KeysCorrect ==
  ASSUME ~PartialWrites
  PROVE  Spec => []KeysAreShas
  <1>1. IndInv => KeysAreShas
    BY AccountedKeys DEF IndInv
  <1>2. QED
    BY <1>1, Inductive, PTL

\* The properties follow from the invariant.
LEMMA MatchesFollow ==
  ASSUME IndInv
  PROVE  MatchesAreExact
  <1>1. SUFFICES ASSUME NEW r \in Req, Answered(r, 200), IsKind(r, {"matches"})
                 PROVE  LET asked == {f \in ToSet(op[r].want) : InRange(f.size)}
                        IN  /\ ToSet(shas[r]) \subseteq {f.sha : f \in asked} \cap StashedKeys
                            /\ {f.sha : f \in asked} \cap there[r] \subseteq ToSet(shas[r]) \cup misled[r]
    BY DEF MatchesAreExact
  <1>2. TypeOK /\ Control(r) /\ Listed(r)
    BY DEF IndInv
  <1>3. left[r].want = <<>> /\ op[r].want \in Seq(Fingerprint) /\ DOMAIN op[r].want = 1..Len(op[r].want)
    BY <1>1, <1>2, Types DEF Control
  <1>4. WantDone(r) = Len(op[r].want)
    BY <1>3 DEF WantDone
  <1>5. \A i \in 1..WantDone(r) : op[r].want[i] \in ToSet(op[r].want)
    BY <1>3, <1>4 DEF ToSet
  <1>6. ASSUME NEW f \in ToSet(op[r].want)
        PROVE  \E i \in 1..WantDone(r) : op[r].want[i] = f
    BY <1>3, <1>4 DEF ToSet
  <1>7. ASSUME NEW k \in ToSet(shas[r])
        PROVE  k \in StashedKeys /\ \E f \in ToSet(op[r].want) : InRange(f.size) /\ k = f.sha
    <2>1. k \in Key
      BY <1>2, DoneTypes
    <2>2. Exists(k) /\ \E i \in 1..WantDone(r) : op[r].want[i].sha = k /\ InRange(op[r].want[i].size)
      BY <1>1, <1>2 DEF Listed
    <2>3. QED
      BY <1>5, <2>1, <2>2 DEF StashedKeys
  <1>8. ASSUME NEW f \in ToSet(op[r].want), InRange(f.size), f.sha \in there[r] \ misled[r]
        PROVE  f.sha \in ToSet(shas[r])
    BY <1>1, <1>2, <1>6, <1>8 DEF Listed
  <1>9. QED
    BY <1>7, <1>8

\* PostMatches reports what is there and of admissible size, and nothing else; it
\* leaves out what was there only where a failed Exists denies it.
THEOREM MatchesCorrect == Spec => []MatchesAreExact
  <1>1. IndInv => MatchesAreExact
    BY MatchesFollow
  <1>2. QED
    BY <1>1, Inductive, PTL

LEMMA ReceiptFollows ==
  ASSUME IndInv
  PROVE  ReceiptIsStored
  <1>1. SUFFICES ASSUME NEW r \in Req, Answered(r, 201)
                 PROVE  /\ shas[r] = [i \in DOMAIN op[r].app |-> ShaOf[op[r].app[i]]]
                        /\ \A k \in ToSet(shas[r]) : Kept(k)
    BY DEF ReceiptIsStored
  <1>2. TypeOK /\ Control(r) /\ Listed(r) /\ Accounted
    BY DEF IndInv
  <1>3. left[r].app = <<>> /\ IsKind(r, {"entries"}) /\ DOMAIN op[r].app = 1..Len(op[r].app)
    BY <1>1, <1>2, Types DEF Control
  <1>4. AppDone(r) = Len(op[r].app)
    BY <1>2, <1>3, Types DEF AppDone
  <1>5. /\ Len(shas[r]) = Len(op[r].app)
        /\ \A i \in 1..Len(op[r].app) : shas[r][i] = ShaOf[op[r].app[i]] /\ Exists(shas[r][i])
    BY <1>2, <1>3, <1>4 DEF Listed
  <1>6. shas[r] \in Seq(Key) /\ DOMAIN shas[r] = 1..Len(op[r].app)
    BY <1>2, <1>5 DEF TypeOK, ListsTyped
  <1>7. shas[r] = [i \in DOMAIN op[r].app |-> ShaOf[op[r].app[i]]]
    BY <1>3, <1>5, <1>6
  <1>8. \A k \in ToSet(shas[r]) : k \in Key /\ Exists(k)
    BY <1>5, <1>6 DEF ToSet
  <1>9. \A k \in ToSet(shas[r]) : Kept(k)
    BY <1>2, <1>8 DEF Accounted
  <1>10. QED
    BY <1>7, <1>9

\* PostEntries has stored every file it lists in its answer, whole but for Puts of
\* the same file that run or fail on a backend that writes in place.
THEOREM ReceiptCorrect == Spec => []ReceiptIsStored
  <1>1. IndInv => ReceiptIsStored
    BY ReceiptFollows
  <1>2. QED
    BY <1>1, Inductive, PTL

LEMMA ThresholdsFollow ==
  ASSUME IndInv
  PROVE  ThresholdsAreKept
  <1>1. ASSUME NEW c \in Content, NEW r \in Req, Answered(r, 200), Zips(r), c \in ToSet(op[r].app), InRange(Size[c])
        PROVE  Kept(ShaOf[c])
    <2>1. TypeOK /\ Control(r) /\ Listed(r) /\ Accounted
      BY DEF IndInv
    <2>2. left[r].app = <<>> /\ DOMAIN op[r].app = 1..Len(op[r].app)
      BY <1>1, <2>1, Types DEF Control, IsKind, Zips
    <2>3. AppDone(r) = Len(op[r].app)
      BY <2>1, <2>2, Types DEF AppDone
    <2>4. PICK i \in 1..Len(op[r].app) : op[r].app[i] = c
      BY <1>1, <2>2 DEF ToSet
    <2>5. Exists(ShaOf[c]) /\ ShaOf[c] \in Key
      BY <1>1, <2>1, <2>3, <2>4, StashAssumption DEF Listed
    <2>6. QED
      BY <2>1, <2>5 DEF Accounted
  <1>2. QED
    BY <1>1 DEF ThresholdsAreKept, IndInv, OthersAreEntries

\* Bundling stores all files of admissible size, and no others
\* (CreateTempZipFileFrom).
THEOREM ThresholdsCorrect == Spec => []ThresholdsAreKept
  <1>1. IndInv => ThresholdsAreKept
    BY ThresholdsFollow
  <1>2. QED
    BY <1>1, Inductive, PTL

\* Sequences that are put together.
LEMMA Joined ==
  ASSUME NEW S, NEW a \in Seq(S), NEW b \in Seq(S)
  PROVE  /\ a \o b \in Seq(S) /\ Len(a \o b) = Len(a) + Len(b)
         /\ \A i \in 1..Len(a) : (a \o b)[i] = a[i]
         /\ \A i \in 1..Len(b) : (a \o b)[Len(a) + i] = b[i]
  OBVIOUS

\* A list is its elements.
LEMMA SameList ==
  ASSUME NEW S, NEW a \in Seq(S), NEW b \in Seq(S), Len(a) = Len(b), \A i \in 1..Len(a) : a[i] = b[i]
  PROVE  a = b
  OBVIOUS

\* What Expected is, entry by entry.
LEMMA ExpectedEntries ==
  ASSUME NEW r \in Req, op[r].app \in Seq(Content), op[r].want \in Seq(Fingerprint),
         \A i \in 1..Len(op[r].want) : ContentOf(op[r].want[i].sha) \in Content
  PROVE  /\ Expected(r) \in Seq(Seq(Content))
         /\ Len(Expected(r)) = Len(op[r].app) + Len(op[r].want)
         /\ \A i \in 1..Len(op[r].app) : Expected(r)[i] = <<op[r].app[i]>>
         /\ \A i \in 1..Len(op[r].want) : Expected(r)[Len(op[r].app) + i] = <<ContentOf(op[r].want[i].sha)>>
  <1> DEFINE own == [i \in DOMAIN op[r].app |-> <<op[r].app[i]>>]
             refs == [i \in DOMAIN op[r].want |-> <<ContentOf(op[r].want[i].sha)>>]
             m == Len(op[r].app)
             n == Len(op[r].want)
  <1>1. DOMAIN op[r].app = 1..m /\ DOMAIN op[r].want = 1..n /\ m \in Nat /\ n \in Nat
    OBVIOUS
  <1>2. \A i \in 1..m : op[r].app[i] \in Content
    OBVIOUS
  <1> HIDE DEF m, n
  <1>3. own \in Seq(Seq(Content)) /\ Len(own) = m /\ \A i \in 1..m : own[i] = <<op[r].app[i]>>
    <2>1. \A c \in Content : <<c>> \in Seq(Content)
      OBVIOUS
    <2>2. own \in [1..m -> Seq(Content)]
      BY <1>1, <1>2, <2>1
    <2>3. \A f \in [1..m -> Seq(Content)] : f \in Seq(Seq(Content)) /\ Len(f) = m
      BY <1>1
    <2>4. QED
      BY <1>1, <2>2, <2>3
  <1>4. refs \in Seq(Seq(Content)) /\ Len(refs) = n /\ \A i \in 1..n : refs[i] = <<ContentOf(op[r].want[i].sha)>>
    <2>1. \A c \in Content : <<c>> \in Seq(Content)
      OBVIOUS
    <2>2. refs \in [1..n -> Seq(Content)]
      BY <1>1, <2>1 DEF n
    <2>3. \A f \in [1..n -> Seq(Content)] : f \in Seq(Seq(Content)) /\ Len(f) = n
      BY <1>1
    <2>4. QED
      BY <1>1, <2>2, <2>3
  <1>5. Expected(r) = own \o refs
    BY DEF Expected
  <1> HIDE DEF own, refs
  <1>6. QED
    <2>1. /\ own \o refs \in Seq(Seq(Content)) /\ Len(own \o refs) = Len(own) + Len(refs)
          /\ \A i \in 1..Len(own) : (own \o refs)[i] = own[i]
          /\ \A i \in 1..Len(refs) : (own \o refs)[Len(own) + i] = refs[i]
      <3>1. own \in Seq(Seq(Content)) /\ refs \in Seq(Seq(Content))
        BY <1>3, <1>4
      <3>2. QED
        BY <3>1, Joined, SMTT(30)
    <2>2. \A i \in 1..m : Expected(r)[i] = <<op[r].app[i]>>
      BY <1>3, <1>5, <2>1
    <2>3. \A i \in 1..n : Expected(r)[m + i] = <<ContentOf(op[r].want[i].sha)>>
      BY <1>3, <1>4, <1>5, <2>1
    <2>4. Expected(r) \in Seq(Seq(Content)) /\ Len(Expected(r)) = m + n
      BY <1>3, <1>4, <1>5, <2>1
    <2>5. QED
      BY <2>2, <2>3, <2>4 DEF m, n

\* A zip that is answered holds the right files.
LEMMA BundlesFollow ==
  ASSUME IndInv, ~Spoilt
  PROVE  BundlesAreExact
  <1>1. SUFFICES ASSUME NEW r \in Req, Answered(r, 200), Zips(r)
                 PROVE  zip[r] = Expected(r) /\ (IsKind(r, {"package"}) => r \in closed)
    BY DEF BundlesAreExact
  <1>2. TypeOK /\ Control(r) /\ Zipped(r) /\ Exact(r) /\ KeysAreShas
    BY AccountedKeys DEF IndInv, Spoilt
  <1>3. /\ op[r].app \in Seq(Content) /\ op[r].want \in Seq(Fingerprint)
        /\ Len(op[r].app) \in Nat /\ Len(op[r].want) \in Nat
    BY <1>2, Types
  <1>4. left[r].app = <<>> /\ left[r].want = <<>>
    BY <1>1, <1>2 DEF Control, IsKind, Zips
  <1>5. AppDone(r) = Len(op[r].app) /\ WantDone(r) = Len(op[r].want)
    BY <1>3, <1>4 DEF AppDone, WantDone
  <1>6. Len(zip[r]) = Len(op[r].app) + Len(op[r].want)
    BY <1>1, <1>2, <1>5 DEF Zipped
  <1>7. \A i \in 1..Len(zip[r]) :
          /\ i <= Len(op[r].app) => zip[r][i] = <<op[r].app[i]>>
          /\ i > Len(op[r].app) => zip[r][i] = <<ContentOf(op[r].want[i - Len(op[r].app)].sha)>>
    BY <1>2 DEF Zipped, Exact
  <1>8. ASSUME NEW i \in 1..Len(op[r].want)
        PROVE  ContentOf(op[r].want[i].sha) \in Content
    <2>1. Exists(op[r].want[i].sha) /\ op[r].want[i].sha \in Key
      BY <1>1, <1>2, <1>5, DoneTypes DEF Exact
    <2>2. PICK c \in Content : ShaOf[c] = op[r].want[i].sha
      BY <1>2, <2>1 DEF KeysAreShas, Whole
    <2>3. QED
      BY <2>2, ContentOfSha
  <1>9. /\ Expected(r) \in Seq(Seq(Content))
        /\ Len(Expected(r)) = Len(op[r].app) + Len(op[r].want)
        /\ \A i \in 1..Len(op[r].app) : Expected(r)[i] = <<op[r].app[i]>>
        /\ \A i \in 1..Len(op[r].want) : Expected(r)[Len(op[r].app) + i] = <<ContentOf(op[r].want[i].sha)>>
    BY <1>3, <1>8, ExpectedEntries
  <1>10. ASSUME NEW i \in 1..Len(zip[r])
         PROVE  zip[r][i] = Expected(r)[i]
    <2> DEFINE m == Len(op[r].app)
               n == Len(op[r].want)
    <2>1. m \in Nat /\ n \in Nat /\ i \in 1..(m + n)
      BY <1>3, <1>6
    <2> HIDE DEF m, n
    <2>2. CASE i <= Len(op[r].app)
      <3>1. i \in 1..m
        BY <2>1, <2>2 DEF m
      <3>2. QED
        BY <1>7, <1>9, <2>2, <3>1 DEF m
    <2>3. CASE i > Len(op[r].app)
      <3>1. /\ i - Len(op[r].app) \in 1..Len(op[r].want)
            /\ Len(op[r].app) + (i - Len(op[r].app)) = i
        <4>1. \A j \in 1..(m + n) : j > m => j - m \in 1..n /\ m + (j - m) = j
          BY <2>1
        <4>2. QED
          BY <2>1, <2>3, <4>1 DEF m, n
      <3>2. Expected(r)[Len(op[r].app) + (i - Len(op[r].app))] = <<ContentOf(op[r].want[i - Len(op[r].app)].sha)>>
        BY <1>9, <3>1
      <3>3. QED
        BY <1>7, <2>3, <3>1, <3>2
    <2>4. QED
      BY <2>1, <2>2, <2>3 DEF m
  <1>11. zip[r] = Expected(r)
    <2>1. zip[r] \in Seq(Seq(Content \cup {Torn})) /\ Expected(r) \in Seq(Seq(Content \cup {Torn}))
      <3>1. Seq(Content) \subseteq Seq(Content \cup {Torn})
        OBVIOUS
      <3>2. Seq(Seq(Content)) \subseteq Seq(Seq(Content \cup {Torn}))
        BY <3>1
      <3>3. QED
        BY <1>2, <1>9, <3>2 DEF TypeOK, ListsTyped
    <2>2. QED
      BY <1>6, <1>9, <1>10, <2>1, SameList
  <1>12. IsKind(r, {"package"}) => r \in closed
    BY <1>1, <1>2 DEF Exact
  <1>13. QED
    BY <1>11, <1>12

\* Where writes are atomic, and a file that is being read or a zip that is being
\* closed does not fail, a bundle and a package hold exactly what was asked for
\* (PostBundles, CreateTempZipFileFrom).
THEOREM BundlesCorrect ==
  ASSUME ~Spoilt
  PROVE  Spec => []BundlesAreExact
  <1>1. IndInv => BundlesAreExact
    BY BundlesFollow
  <1>2. QED
    BY <1>1, Inductive, PTL

-----------------------------------------------------------------------------
(* The handlers keep the promise.                                           *)

\* Only arriving, being refused, served or missing a file, and being killed,
\* show.
LEMMA PhaseIs ==
  ASSUME NEW r \in Req
  PROVE  /\ pc[r] = "idle" => PhaseOf(r) = "new"
         /\ pc[r] = "killed" => PhaseOf(r) = "dead"
         /\ pc[r] \notin {"idle", "killed", "done"} => PhaseOf(r) = "open"
         /\ pc[r] = "done" /\ resp[r] \in {200, 201} => PhaseOf(r) = "served"
         /\ pc[r] = "done" /\ resp[r] \notin {200, 201} /\ missing[r] = {} => PhaseOf(r) = "refused"
         /\ pc[r] = "done" /\ resp[r] \notin {200, 201} /\ missing[r] # {} => PhaseOf(r) = "missed"
  <1>1. pc[r] = "idle" => PhaseOf(r) = "new"
    BY DEF PhaseOf, Answered
  <1>2. pc[r] = "killed" => PhaseOf(r) = "dead"
    BY DEF PhaseOf, Answered
  <1>3. pc[r] \notin {"idle", "killed", "done"} => PhaseOf(r) = "open"
    BY DEF PhaseOf, Answered
  <1>4. pc[r] = "done" /\ resp[r] \in {200, 201} => PhaseOf(r) = "served"
    <2>1. pc[r] = "done" /\ resp[r] = 200 => PhaseOf(r) = "served"
      BY DEF PhaseOf, Answered
    <2>2. pc[r] = "done" /\ resp[r] = 201 => PhaseOf(r) = "served"
      BY DEF PhaseOf, Answered
    <2>3. QED
      BY <2>1, <2>2
  <1>5. pc[r] = "done" /\ resp[r] \notin {200, 201} /\ missing[r] = {} => PhaseOf(r) = "refused"
    BY DEF PhaseOf, Answered
  <1>6. pc[r] = "done" /\ resp[r] \notin {200, 201} /\ missing[r] # {} => PhaseOf(r) = "missed"
    BY DEF PhaseOf, Answered
  <1>7. QED
    BY <1>1, <1>2, <1>3, <1>4, <1>5, <1>6

\* The phases of the promise before and after a step.
LEMMA PhaseIsThen ==
  ASSUME NEW r \in Req
  PROVE  /\ pc'[r] = "idle" => PhaseOf(r)' = "new"
         /\ pc'[r] = "killed" => PhaseOf(r)' = "dead"
         /\ pc'[r] \notin {"idle", "killed", "done"} => PhaseOf(r)' = "open"
         /\ pc'[r] = "done" /\ resp'[r] \in {200, 201} => PhaseOf(r)' = "served"
         /\ pc'[r] = "done" /\ resp'[r] \notin {200, 201} /\ missing'[r] = {} => PhaseOf(r)' = "refused"
         /\ pc'[r] = "done" /\ resp'[r] \notin {200, 201} /\ missing'[r] # {} => PhaseOf(r)' = "missed"
  <1>1. pc'[r] = "idle" => PhaseOf(r)' = "new"
    BY DEF PhaseOf, Answered
  <1>2. pc'[r] = "killed" => PhaseOf(r)' = "dead"
    BY DEF PhaseOf, Answered
  <1>3. pc'[r] \notin {"idle", "killed", "done"} => PhaseOf(r)' = "open"
    BY DEF PhaseOf, Answered
  <1>4. pc'[r] = "done" /\ resp'[r] \in {200, 201} => PhaseOf(r)' = "served"
    <2>1. pc'[r] = "done" /\ resp'[r] = 200 => PhaseOf(r)' = "served"
      BY DEF PhaseOf, Answered
    <2>2. pc'[r] = "done" /\ resp'[r] = 201 => PhaseOf(r)' = "served"
      BY DEF PhaseOf, Answered
    <2>3. QED
      BY <2>1, <2>2
  <1>5. pc'[r] = "done" /\ resp'[r] \notin {200, 201} /\ missing'[r] = {} => PhaseOf(r)' = "refused"
    BY DEF PhaseOf, Answered
  <1>6. pc'[r] = "done" /\ resp'[r] \notin {200, 201} /\ missing'[r] # {} => PhaseOf(r)' = "missed"
    BY DEF PhaseOf, Answered
  <1>7. QED
    BY <1>1, <1>2, <1>3, <1>4, <1>5, <1>6

\* What a request asks for.
AskOf(r) == [kind |-> op[r].kind, own |-> op[r].app, refs |-> RefsOf(r), sought |-> Sought(r)]

LEMMA AskStays ==
  ASSUME op' = op, NEW r \in Req
  PROVE  AskOf(r)' = AskOf(r)
  BY DEF AskOf, RefsOf, Sought, IsKind

\* Others see nothing of a step.
LEMMA OthersShow ==
  ASSUME NEW q \in Req, Untouched(q)
  PROVE  PhaseOf(q)' = PhaseOf(q) /\ ReplyOf(q)' = ReplyOf(q) /\ there'[q] = there[q]
  <1>1. PhaseOf(q)' = PhaseOf(q)
    BY DEF PhaseOf, Answered, Untouched
  <1>2. QED
    BY <1>1 DEF ReplyOf, Untouched

\* The stash as one step of a request changes it.
LEMMA StockGrows ==
  ASSUME TypeOK, NEW r \in Req, Control(r), Step(r)
  PROVE  \E new \in SUBSET {ShaOf[c] : c \in ToSet(op[r].app) \cap
                              (IF op[r].kind = "entries" THEN Content ELSE {d \in Content : InRange(Size[d])})} :
           StashedKeys' = StashedKeys \cup new
  <1>1. \A k \in Key : Exists(k) => Exists(k)'
    BY StashGrows
  <1>2. ASSUME NEW k \in Key, k \in StashedKeys' \ StashedKeys
        PROVE  k \in {ShaOf[c] : c \in ToSet(op[r].app) \cap
                      (IF op[r].kind = "entries" THEN Content ELSE {d \in Content : InRange(Size[d])})}
    <2>1. blob'[k] # blob[k]
      BY <1>2 DEF StashedKeys, Exists
    <2>2. left[r].app # <<>> /\ Puts(r) /\ k = ShaOf[File(r)] /\ File(r) \in Content
      BY <2>1, Stores
    <2>3. AppDone(r) + 1 \in 1..Len(op[r].app) /\ File(r) = op[r].app[AppDone(r) + 1]
      BY <2>2, NextFileDone
    <2>4. DOMAIN op[r].app = 1..Len(op[r].app)
      BY Types
    <2>5. File(r) \in ToSet(op[r].app)
      BY <2>3, <2>4 DEF ToSet
    <2>6. op[r].kind = "entries" \/ InRange(Size[File(r)])
      BY <2>2 DEF Puts, IsKind
    <2>7. QED
      BY <2>2, <2>5, <2>6
  <1>3. StashedKeys' = StashedKeys \cup (StashedKeys' \ StashedKeys)
    BY <1>1 DEF StashedKeys
  <1>4. StashedKeys' \ StashedKeys \subseteq Key
    BY DEF StashedKeys
  <1>5. QED
    BY <1>2, <1>3, <1>4

\* Exists overlooks a file that is asked for.
LEMMA MatchShows ==
  ASSUME TypeOK, NEW r \in Req, Control(r), Match(r)
  PROVE  \/ misled' = misled
         \/ /\ Overlooks("stat")
            /\ \E k \in Sought(r) \cap StashedKeys : misled' = [misled EXCEPT ![r] = @ \cup {k}]
  <1>1. CASE misled' = misled
    BY <1>1
  <1> DEFINE f == Head(left[r].want)
  <1>2. CASE misled' # misled
    <2>1. /\ left[r].want # <<>> /\ InRange(f.size) /\ Exists(f.sha) /\ IsKind(r, {"matches"})
          /\ Overlooks("stat") /\ misled' = [misled EXCEPT ![r] = @ \cup {f.sha}]
      BY <1>2 DEF Match, Overlooked, Control
    <2>2. WantDone(r) + 1 \in 1..Len(op[r].want) /\ f = op[r].want[WantDone(r) + 1]
      BY <2>1, NextWantDone
    <2>3. f \in ToSet(op[r].want) /\ f.sha \in Key
      <3>1. DOMAIN op[r].want = 1..Len(op[r].want)
        BY Types
      <3>2. QED
        BY <2>2, <3>1, DoneTypes DEF ToSet
    <2> HIDE DEF f
    <2>4. f.sha \in Sought(r) \cap StashedKeys
      BY <2>1, <2>3 DEF Sought, StashedKeys
    <2>5. QED
      BY <2>1, <2>4
  <1>3. QED
    BY <1>1, <1>2

\* The ways a step of a request can look.
LEMMA StepShows ==
  ASSUME TypeOK, NEW r \in Req, Control(r), Saw(r), Step(r)
  PROVE  \/ /\ pc[r] = "idle" /\ pc'[r] = "arrived" /\ blob' = blob
            /\ there' = [there EXCEPT ![r] = StashedKeys] /\ missing' = missing /\ misled' = misled
         \/ /\ pc[r] \notin {"idle", "killed", "done"} /\ pc'[r] \notin {"idle", "killed", "done"}
            /\ there' = there /\ missing' = missing /\ misled' = misled
         \/ /\ pc[r] \notin {"idle", "killed", "done"} /\ pc'[r] \notin {"idle", "killed", "done"}
            /\ there' = there /\ missing' = missing /\ blob' = blob /\ Overlooks("stat")
            /\ \E k \in Sought(r) \cap StashedKeys : misled' = [misled EXCEPT ![r] = @ \cup {k}]
         \/ /\ pc[r] \notin {"idle", "killed", "done"} /\ pc'[r] = "done" /\ resp'[r] \notin {200, 201}
            /\ there' = there /\ missing' = missing /\ misled' = misled
         \/ /\ pc[r] \notin {"idle", "killed", "done"} /\ pc'[r] = "done" /\ resp'[r] \in {200, 201}
            /\ there' = there /\ missing' = missing /\ misled' = misled /\ blob' = blob
         \/ /\ pc[r] \notin {"idle", "killed", "done"} /\ pc'[r] = "done" /\ resp'[r] \notin {200, 201}
            /\ there' = there /\ blob' = blob /\ missing'[r] = {Sha(r)}
            /\ \/ Sha(r) \notin there[r] /\ misled' = misled
               \/ /\ Sha(r) \in StashedKeys /\ Overlooks("get")
                  /\ misled' = [misled EXCEPT ![r] = @ \cup {Sha(r)}]
            /\ Zips(r) /\ left[r].want # <<>>
  <1>1. CASE Arrive(r)
    BY <1>1 DEF Arrive, Goto, product, stash, TypeOK, PlacesTyped
  <1>2. CASE Refuse(r) \/ Accept(r)
    BY <1>2 DEF Refuse, RefusalCodes, Accept, Goto, Finish, product, stash, TypeOK, PlacesTyped
  <1>3. CASE PostMatches(r)
    <2>1. CASE Match(r)
      <3>1. pc[r] = "match" /\ UNCHANGED <<pc, there, missing, blob>>
        BY <2>1 DEF Match, stash
      <3>2. QED
        BY <2>1, <3>1, MatchShows
    <2>2. CASE ExistsFails(r) \/ AnswerMatches(r)
      BY <2>2 DEF ExistsFails, AnswerMatches, Finish, product, stash, TypeOK, PlacesTyped
    <2>3. QED
      BY <1>3, <2>1, <2>2 DEF PostMatches
  <1>4. CASE Stage(r) \/ Staged(r) \/ PutIsVisible(r)
    BY <1>4 DEF Stage, Staged, PutIsVisible, Goto, Finish, product, stash, TypeOK, PlacesTyped
  <1>5. CASE PutSucceeds(r) \/ SkipPut(r)
    BY <1>5 DEF PutSucceeds, SkipPut, NextFile, Goto, TypeOK, PlacesTyped
  <1>6. CASE StageFails(r) \/ PutFails(r) \/ GetFails(r) \/ ReadFails(r)
    <2>1. /\ pc[r] \in {"stage", "put", "get"} /\ there' = there /\ missing' = missing /\ misled' = misled
          /\ \E e : Return(r, e) \/ RetryOrReturn(r, e)
      BY <1>6 DEF StageFails, PutFails, GetFails, ReadFails, Getting
    <2>2. UNCHANGED <<pc, resp>> \/ (pc'[r] = "done" /\ resp'[r] \in {404, 422, 500, 507})
      BY <2>1, RetryStep
    <2>3. QED
      BY <2>1, <2>2
  <1>7. CASE OpenFails(r)
    <2>1. pc[r] = "put" /\ there' = there /\ missing' = missing /\ misled' = misled /\ (Return(r, "error") \/ Finish(r, 500))
      BY <1>7 DEF OpenFails
    <2>2. Return(r, "error") => pc'[r] = "done" /\ resp'[r] = CodeFor(r, "error")
      BY DEF Return, Finish, TypeOK, PlacesTyped
    <2>3. CodeFor(r, "error") = 500
      BY DEF CodeFor
    <2>4. pc'[r] = "done" /\ resp'[r] = 500
      BY <2>1, <2>2, <2>3 DEF Finish, TypeOK, PlacesTyped
    <2>5. QED
      BY <2>1, <2>4
  <1>8. CASE GetFindsNothing(r)
    <2>1. /\ pc[r] = "get" /\ there' = there /\ blob' = blob /\ missing'[r] = {Sha(r)}
          /\ \/ ~Exists(Sha(r)) /\ misled' = misled
             \/ /\ Exists(Sha(r)) /\ Overlooks("get")
                /\ misled' = [misled EXCEPT ![r] = @ \cup {Sha(r)}]
          /\ Return(r, "notFound")
      BY <1>8 DEF GetFindsNothing, Overlooked, Getting, stash, TypeOK, StashTyped
    <2>2. left[r].want # <<>> /\ Zips(r)
      BY <2>1 DEF Control
    <2>3. Sha(r) \in Key
      BY <2>2, NextTyped DEF Sha, Fingerprint
    <2>4. pc'[r] = "done" /\ resp'[r] = CodeFor(r, "notFound")
      BY <2>1 DEF Return, Finish, TypeOK, PlacesTyped
    <2>5. CodeFor(r, "notFound") \in {404, 422}
      BY DEF CodeFor
    <2>6. /\ ~Exists(Sha(r)) => Sha(r) \notin there[r]
          /\ Exists(Sha(r)) => Sha(r) \in StashedKeys
      BY <2>3 DEF Saw, StashedKeys
    <2>7. QED
      BY <2>1, <2>2, <2>4, <2>5, <2>6
  <1>9. CASE ReadWhole(r)
    BY <1>9 DEF ReadWhole, Getting, Goto, TypeOK, PlacesTyped
  <1>10. CASE CloseZip(r) \/ Respond(r)
    BY <1>10 DEF CloseZip, Respond, Goto, Finish, stash, TypeOK, PlacesTyped
  <1>11. QED
    BY <1>1, <1>2, <1>3, <1>4, <1>5, <1>6, <1>7, <1>8, <1>9, <1>10 DEF Step, Prepare, StoreFiles, FetchFiles

\* What a request is told before it is served, and when it is.
LEMMA ReplyIs ==
  ASSUME NEW r \in Req
  PROVE  /\ PhaseOf(r) # "served" => ReplyOf(r) = [shas |-> <<>>, zip |-> <<>>, missing |-> missing[r]]
         /\ PhaseOf(r) = "served" => ReplyOf(r) = [shas |-> shas[r], zip |-> zip[r], missing |-> missing[r]]
  BY DEF ReplyOf

LEMMA ReplyIsThen ==
  ASSUME NEW r \in Req
  PROVE  /\ PhaseOf(r)' # "served" => ReplyOf(r)' = [shas |-> <<>>, zip |-> <<>>, missing |-> missing'[r]]
         /\ PhaseOf(r)' = "served" => ReplyOf(r)' = [shas |-> shas'[r], zip |-> zip'[r], missing |-> missing'[r]]
  BY DEF ReplyOf

\* The keys a request may add, and what it may be told.
OwnOf(r) ==
  {ShaOf[c] : c \in ToSet(op[r].app) \cap
     (IF op[r].kind = "entries" THEN Content ELSE {d \in Content : InRange(Size[d])})}

RightMatches(r) ==
  /\ op[r].kind = "matches"
  /\ shas[r] \in BoundedSeq(StashedKeys \cap Sought(r), Len(RefsOf(r)))
  /\ there[r] \cap Sought(r) \subseteq ToSet(shas[r]) \cup misled[r]
  /\ zip[r] = <<>>

RightEntries(r) ==
  /\ op[r].kind = "entries"
  /\ OwnOf(r) \subseteq StashedKeys
  /\ shas[r] = [i \in DOMAIN op[r].app |-> ShaOf[op[r].app[i]]]
  /\ zip[r] = <<>>

RightZip(r) ==
  /\ op[r].kind \in {"bundle", "package"}
  /\ OwnOf(r) \cup Sought(r) \subseteq StashedKeys
  /\ shas[r] = <<>>
  /\ zip[r] = [i \in DOMAIN op[r].app |-> <<op[r].app[i]>>]
              \o [i \in DOMAIN RefsOf(r) |-> <<CHOOSE c \in Content : ShaOf[c] = RefsOf(r)[i]>>]

Right(r) == missing[r] = {} /\ (RightMatches(r) \/ RightEntries(r) \/ RightZip(r))

\* The references of a request, and the keys it looks for.
LEMMA RefsAndSought ==
  ASSUME TypeOK, NEW r \in Req
  PROVE  /\ DOMAIN RefsOf(r) = DOMAIN op[r].want /\ DOMAIN op[r].want = 1..Len(op[r].want)
         /\ Len(RefsOf(r)) = Len(op[r].want)
         /\ \A i \in DOMAIN op[r].want : RefsOf(r)[i] = op[r].want[i].sha
         /\ Sought(r) \subseteq Key
         /\ ~IsKind(r, {"matches"}) => Sought(r) = {f.sha : f \in ToSet(op[r].want)}
         /\ IsKind(r, {"matches"}) => Sought(r) = {f.sha : f \in {g \in ToSet(op[r].want) : InRange(g.size)}}
         /\ \A k \in Sought(r) : \E i \in 1..Len(op[r].want) : op[r].want[i].sha = k
  <1>1. op[r].want \in Seq(Fingerprint)
    BY Types
  <1>2. DOMAIN op[r].want = 1..Len(op[r].want) /\ Len(op[r].want) \in Nat
    BY <1>1
  <1>3. \A i \in 1..Len(op[r].want) : op[r].want[i].sha \in Key
    <2>1. \A i \in 1..Len(op[r].want) : op[r].want[i] \in Fingerprint
      BY <1>1
    <2>2. QED
      BY <2>1 DEF Fingerprint
  <1>4. DOMAIN RefsOf(r) = DOMAIN op[r].want /\ \A i \in DOMAIN op[r].want : RefsOf(r)[i] = op[r].want[i].sha
    BY DEF RefsOf
  <1>5. Len(RefsOf(r)) = Len(op[r].want)
    <2>1. RefsOf(r) \in Seq(Key)
      <3>1. RefsOf(r) \in [1..Len(op[r].want) -> Key]
        BY <1>2, <1>3 DEF RefsOf
      <3>2. QED
        BY <1>2, <3>1
    <2>2. QED
      BY <1>2, <1>4, <2>1
  <1>6. \A k \in Sought(r) : \E i \in 1..Len(op[r].want) : op[r].want[i].sha = k
    BY <1>2 DEF Sought, ToSet
  <1>7. /\ ~IsKind(r, {"matches"}) => Sought(r) = {f.sha : f \in ToSet(op[r].want)}
        /\ IsKind(r, {"matches"}) => Sought(r) = {f.sha : f \in {g \in ToSet(op[r].want) : InRange(g.size)}}
    BY DEF Sought
  <1>8. QED
    BY <1>2, <1>3, <1>4, <1>5, <1>6, <1>7

\* What is answered is right, by the kind of request.
LEMMA RightOfMatches ==
  ASSUME IndInv, NEW r \in Req, Answered(r, 200), IsKind(r, {"matches"})
  PROVE  RightMatches(r)
  <1>1. TypeOK /\ Control(r) /\ Listed(r) /\ Zipped(r)
    BY DEF IndInv
  <1>2. op[r].kind = "matches" /\ ~Zips(r)
    BY DEF IsKind, Zips
  <1>3. zip[r] = <<>>
    BY <1>1, <1>2 DEF Zipped
  <1>4. ToSet(shas[r]) \subseteq Sought(r) \cap StashedKeys /\ Sought(r) \cap there[r] \subseteq ToSet(shas[r]) \cup misled[r]
    BY <1>1, MatchesFollow, RefsAndSought DEF MatchesAreExact
  <1>5. Len(shas[r]) <= Len(RefsOf(r)) /\ Len(RefsOf(r)) \in Nat
    <2>1. Len(shas[r]) <= WantDone(r)
      BY <1>1 DEF Listed
    <2>2. WantDone(r) \in 0..Len(op[r].want) /\ Len(op[r].want) \in Nat /\ Len(RefsOf(r)) = Len(op[r].want)
      BY <1>1, DoneTypes, RefsAndSought
    <2>3. Len(shas[r]) \in Nat
      BY <1>1 DEF TypeOK, ListsTyped
    <2>4. QED
      BY <2>1, <2>2, <2>3
  <1>6. shas[r] \in [1..Len(shas[r]) -> StashedKeys \cap Sought(r)] /\ Len(shas[r]) \in Nat
    <2>1. shas[r] \in Seq(Key)
      BY <1>1 DEF TypeOK, ListsTyped
    <2>2. DOMAIN shas[r] = 1..Len(shas[r]) /\ Len(shas[r]) \in Nat /\ shas[r] = [i \in 1..Len(shas[r]) |-> shas[r][i]]
      BY <2>1
    <2>3. \A i \in 1..Len(shas[r]) : shas[r][i] \in StashedKeys \cap Sought(r)
      BY <1>4, <2>2 DEF ToSet
    <2>4. QED
      BY <2>2, <2>3
  <1>7. shas[r] \in BoundedSeq(StashedKeys \cap Sought(r), Len(RefsOf(r)))
    <2>1. Len(shas[r]) \in 0..Len(RefsOf(r))
      BY <1>5, <1>6
    <2>2. QED
      BY <1>6, <2>1 DEF BoundedSeq, SeqOf
  <1>8. QED
    BY <1>2, <1>3, <1>4, <1>7 DEF RightMatches

LEMMA RightOfEntries ==
  ASSUME IndInv, NEW r \in Req, Answered(r, 201)
  PROVE  RightEntries(r)
  <1>1. TypeOK /\ Control(r) /\ Zipped(r)
    BY DEF IndInv
  <1>2. op[r].kind = "entries" /\ ~Zips(r)
    BY <1>1 DEF Control, IsKind, Zips
  <1>3. zip[r] = <<>>
    BY <1>1, <1>2 DEF Zipped
  <1>4. /\ shas[r] = [i \in DOMAIN op[r].app |-> ShaOf[op[r].app[i]]]
        /\ ToSet(shas[r]) \subseteq StashedKeys
    <2>1. /\ shas[r] = [i \in DOMAIN op[r].app |-> ShaOf[op[r].app[i]]]
          /\ \A k \in ToSet(shas[r]) : Exists(k)
      BY ReceiptFollows DEF ReceiptIsStored, Kept
    <2>2. QED
      BY <1>1, <2>1, DoneTypes DEF StashedKeys
  <1>5. ASSUME NEW c \in ToSet(op[r].app)
        PROVE  ShaOf[c] \in ToSet(shas[r])
    <2>1. PICK i \in DOMAIN op[r].app : op[r].app[i] = c
      BY DEF ToSet
    <2>2. i \in DOMAIN shas[r] /\ shas[r][i] = ShaOf[c]
      BY <1>4, <2>1
    <2>3. QED
      BY <2>2 DEF ToSet
  <1>6. OwnOf(r) \subseteq StashedKeys
    BY <1>4, <1>5 DEF OwnOf
  <1>7. QED
    BY <1>2, <1>3, <1>4, <1>6 DEF RightEntries

LEMMA RightOfZips ==
  ASSUME IndInv, ~Spoilt, NEW r \in Req, Answered(r, 200), Zips(r)
  PROVE  RightZip(r)
  <1>1. TypeOK /\ Control(r) /\ Listed(r) /\ Exact(r)
    BY DEF IndInv
  <1>2. op[r].kind \in {"bundle", "package"} /\ ~IsKind(r, {"matches"})
    BY DEF Zips, IsKind
  <1>3. shas[r] = <<>>
    BY <1>1 DEF Listed
  <1>4. zip[r] = Expected(r)
    BY BundlesFollow DEF BundlesAreExact
  <1>5. Expected(r) = [i \in DOMAIN op[r].app |-> <<op[r].app[i]>>]
              \o [i \in DOMAIN RefsOf(r) |-> <<CHOOSE c \in Content : ShaOf[c] = RefsOf(r)[i]>>]
    <2>1. [i \in DOMAIN op[r].want |-> <<ContentOf(op[r].want[i].sha)>>]
            = [i \in DOMAIN RefsOf(r) |-> <<CHOOSE c \in Content : ShaOf[c] = RefsOf(r)[i]>>]
      BY <1>1, RefsAndSought DEF ContentOf
    <2>2. QED
      BY <2>1 DEF Expected
  <1>6. left[r].want = <<>> /\ WantDone(r) = Len(op[r].want)
    <2>1. left[r].want = <<>>
      BY <1>1, <1>2 DEF Control
    <2>2. QED
      BY <1>1, <2>1, Types DEF WantDone
  <1>7. \A k \in Sought(r) : k \in StashedKeys
    <2>1. \A i \in 1..Len(op[r].want) : Exists(op[r].want[i].sha)
      BY <1>1, <1>6 DEF Exact
    <2>2. QED
      BY <1>1, <2>1, RefsAndSought DEF StashedKeys
  <1>8. \A k \in OwnOf(r) : k \in StashedKeys
    <2>1. SUFFICES ASSUME NEW c \in ToSet(op[r].app), c \in Content, InRange(Size[c])
                   PROVE  ShaOf[c] \in StashedKeys
      BY <1>2 DEF OwnOf
    <2>2. Exists(ShaOf[c])
      BY <2>1, ThresholdsFollow DEF ThresholdsAreKept, Kept
    <2>3. QED
      BY <2>1, <2>2, StashAssumption DEF StashedKeys
  <1>9. QED
    BY <1>2, <1>3, <1>4, <1>5, <1>7, <1>8 DEF RightZip

AllServedRight == \A r \in Req : pc[r] = "done" /\ resp[r] \in {200, 201} => Right(r)

\* What is answered is right.
LEMMA ServedRight ==
  ASSUME ~Spoilt
  PROVE  IndInv => AllServedRight
  <1>1. SUFFICES ASSUME IndInv, NEW r \in Req, pc[r] = "done", resp[r] \in {200, 201}
                 PROVE  Right(r)
    BY DEF AllServedRight
  <1>2. missing[r] = {}
    BY <1>1 DEF IndInv, Saw
  <1>3. CASE resp[r] = 201
    BY <1>1, <1>2, <1>3, RightOfEntries DEF Right, Answered
  <1>4. CASE resp[r] = 200 /\ IsKind(r, {"matches"})
    BY <1>1, <1>2, <1>4, RightOfMatches DEF Right, Answered
  <1>5. CASE resp[r] = 200 /\ Zips(r)
    BY <1>1, <1>2, <1>5, RightOfZips DEF Right, Answered
  <1>6. Answered(r, 200) => IsKind(r, {"matches"}) \/ Zips(r)
    BY <1>1 DEF IndInv, Control
  <1>7. QED
    BY <1>1, <1>3, <1>4, <1>5, <1>6 DEF Answered

LEMMA ServedRightThen ==
  ASSUME ~Spoilt
  PROVE  IndInv' => AllServedRight'
  <1>1. IndInv => AllServedRight
    BY ServedRight
  <1>2. QED
    BY <1>1, PTL

\* An abstract step of one request, made of what changes of it.
LEMMA BarsChange ==
  ASSUME TypeOK, NEW r \in Req, Step(r), op' = op, NEW p, PhaseOf(r)' = p
  PROVE  /\ [q \in Req |-> PhaseOf(q)]' = [[q \in Req |-> PhaseOf(q)] EXCEPT ![r] = p]
         /\ [q \in Req |-> ReplyOf(q)]' = [[q \in Req |-> ReplyOf(q)] EXCEPT ![r] = ReplyOf(r)']
         /\ [q \in Req |-> AskOf(q)]' = [q \in Req |-> AskOf(q)]
  <1>1. \A q \in Req \ {r} : PhaseOf(q)' = PhaseOf(q) /\ ReplyOf(q)' = ReplyOf(q)
    BY StepOthers, OthersShow
  <1>2. \A q \in Req : AskOf(q)' = AskOf(q)
    BY AskStays
  <1>3. QED
    BY <1>1, <1>2

\* What a request may be told.
LEMMA Told ==
  ASSUME NEW s
  PROVE  /\ [shas |-> s, zip |-> <<>>, missing |-> {}] = [Promise!Nothing EXCEPT !.shas = s]
         /\ [shas |-> <<>>, zip |-> s, missing |-> {}] = [Promise!Nothing EXCEPT !.zip = s]
  <1>1. ASSUME NEW e
        PROVE  /\ [shas |-> s, zip |-> e, missing |-> {}] = [[shas |-> e, zip |-> e, missing |-> {}] EXCEPT !.shas = s]
               /\ [shas |-> e, zip |-> s, missing |-> {}] = [[shas |-> e, zip |-> e, missing |-> {}] EXCEPT !.zip = s]
    OBVIOUS
  <1>2. QED
    BY <1>1, Zenon DEF Promise!Nothing

LEMMA SameHelpers ==
  /\ \A s : Promise!ToSet(s) = ToSet(s)
  /\ \A S, n : Promise!BoundedSeq(S, n) = BoundedSeq(S, n)
  BY DEF Promise!ToSet, ToSet, Promise!BoundedSeq, BoundedSeq, Promise!SeqOf, SeqOf

\* What StashPromise is told of a request.
LEMMA Asked ==
  ASSUME NEW r \in Req,
         NEW a, a = [q \in Req |-> [kind |-> op[q].kind, own |-> op[q].app, refs |-> RefsOf(q), sought |-> Sought(q)]]
  PROVE  /\ a[r].kind = op[r].kind /\ a[r].own = op[r].app /\ a[r].refs = RefsOf(r) /\ a[r].sought = Sought(r)
         /\ [i \in DOMAIN a[r].own |-> <<a[r].own[i]>>] = [i \in DOMAIN op[r].app |-> <<op[r].app[i]>>]
         /\ [i \in DOMAIN a[r].own |-> ShaOf[a[r].own[i]]] = [i \in DOMAIN op[r].app |-> ShaOf[op[r].app[i]]]
         /\ [i \in DOMAIN a[r].refs |-> <<CHOOSE c \in Content : ShaOf[c] = a[r].refs[i]>>]
              = [i \in DOMAIN RefsOf(r) |-> <<CHOOSE c \in Content : ShaOf[c] = RefsOf(r)[i]>>]
  <1>1. a[r].kind = op[r].kind /\ a[r].own = op[r].app /\ a[r].refs = RefsOf(r) /\ a[r].sought = Sought(r)
    OBVIOUS
  <1>2. [i \in DOMAIN a[r].own |-> <<a[r].own[i]>>] = [i \in DOMAIN op[r].app |-> <<op[r].app[i]>>]
    BY <1>1
  <1>3. [i \in DOMAIN a[r].own |-> ShaOf[a[r].own[i]]] = [i \in DOMAIN op[r].app |-> ShaOf[op[r].app[i]]]
    BY <1>1
  <1>4. [i \in DOMAIN a[r].refs |-> <<CHOOSE c \in Content : ShaOf[c] = a[r].refs[i]>>]
          = [i \in DOMAIN RefsOf(r) |-> <<CHOOSE c \in Content : ShaOf[c] = RefsOf(r)[i]>>]
    BY <1>1
  <1>5. QED
    BY <1>1, <1>2, <1>3, <1>4

\* The promise's files of a request are these.
LEMMA OwnSame ==
  ASSUME NEW r \in Req
  PROVE  Promise!Own(r) = OwnOf(r)
  <1>1. CASE op[r].kind = "entries"
    <2>1. OwnOf(r) = {ShaOf[c] : c \in ToSet(op[r].app) \cap Content}
      BY <1>1 DEF OwnOf
    <2>2. Promise!Own(r) = {ShaOf[c] : c \in ToSet(op[r].app) \cap Content}
      BY <1>1, SameHelpers DEF Promise!Own
    <2>3. QED
      BY <2>1, <2>2
  <1>2. CASE op[r].kind # "entries"
    <2>1. OwnOf(r) = {ShaOf[c] : c \in ToSet(op[r].app) \cap {d \in Content : InRange(Size[d])}}
      BY <1>2 DEF OwnOf
    <2>2. Promise!Own(r) = {ShaOf[c] : c \in ToSet(op[r].app) \cap {d \in Content : InRange(Size[d])}}
      BY <1>2, SameHelpers DEF Promise!Own
    <2>3. QED
      BY <2>1, <2>2
  <1>3. QED
    BY <1>1, <1>2

\* A step of a request is one the promise allows.
LEMMA StepPromise ==
  ASSUME IndInv, ~Spoilt, NEW r \in Req, Step(r)
  PROVE  Promise!SNext
  <1> DEFINE phases == [q \in Req |-> PhaseOf(q)]
             replies == [q \in Req |-> ReplyOf(q)]
             asks == [q \in Req |-> AskOf(q)]
  <1>1. TypeOK /\ Control(r) /\ Saw(r)
    BY DEF IndInv
  <1>2. IndInv' /\ TypeOK' /\ op' = op
    <2>1. op' = op
      BY DEF Step, Prepare, PostMatches, StoreFiles, FetchFiles, Arrive, Refuse, Accept, Match, ExistsFails,
           AnswerMatches, Stage, StageFails, Staged, PutIsVisible, PutSucceeds, SkipPut, PutFails, OpenFails,
           GetFails, GetFindsNothing, ReadFails, ReadWhole, CloseZip, Respond
    <2>2. IndInv'
      BY StepInv
    <2>3. QED
      BY <2>1, <2>2 DEF IndInv
  <1>3. ASSUME NEW p, PhaseOf(r)' = p
        PROVE  /\ phases' = [phases EXCEPT ![r] = p]
               /\ replies' = [replies EXCEPT ![r] = ReplyOf(r)']
               /\ asks' = asks
    BY <1>1, <1>2, <1>3, BarsChange
  <1>4. CASE /\ pc[r] = "idle" /\ pc'[r] = "arrived" /\ blob' = blob
             /\ there' = [there EXCEPT ![r] = StashedKeys] /\ missing' = missing /\ misled' = misled
    <2>1. PhaseOf(r) = "new" /\ PhaseOf(r)' = "open"
      BY <1>4, PhaseIs, PhaseIsThen
    <2>2. ReplyOf(r)' = ReplyOf(r)
      BY <1>4, <2>1, ReplyIs, ReplyIsThen
    <2>3. phases' = [phases EXCEPT ![r] = "open"] /\ replies' = replies /\ asks' = asks
      BY <1>3, <2>1, <2>2
    <2>4. StashedKeys' = StashedKeys
      BY <1>4 DEF StashedKeys, Exists
    <2>5. Promise!Take(r)
      BY <1>4, <2>1, <2>3, <2>4 DEF Promise!Take, Promise!Move, AskOf
    <2>6. QED
      BY <2>5 DEF Promise!SNext
  <1>5. PICK new \in SUBSET OwnOf(r) : StashedKeys' = StashedKeys \cup new
    BY <1>1, StockGrows DEF OwnOf
  <1>6. Promise!Own(r) = OwnOf(r)
    BY OwnSame
  <1>7. CASE /\ pc[r] \notin {"idle", "killed", "done"} /\ pc'[r] \notin {"idle", "killed", "done"}
             /\ there' = there /\ missing' = missing /\ misled' = misled
    <2>1. PhaseOf(r) = "open" /\ PhaseOf(r)' = "open"
      BY <1>7, PhaseIs, PhaseIsThen
    <2>2. ReplyOf(r)' = ReplyOf(r)
      BY <1>7, <2>1, ReplyIs, ReplyIsThen
    <2>3. phases' = [phases EXCEPT ![r] = "open"] /\ replies' = replies /\ asks' = asks
      BY <1>3, <2>1, <2>2
    <2>4. Promise!Grows(r)
      BY <1>5, <1>6 DEF Promise!Grows
    <2>5. Promise!Add(r)
      BY <1>7, <2>1, <2>3, <2>4 DEF Promise!Add, Promise!Move, AskOf
    <2>6. QED
      BY <2>5 DEF Promise!SNext
  <1>8. missing[r] = {} \/ pc[r] = "done"
    BY <1>1 DEF Saw
  <1>13. CASE /\ pc[r] \notin {"idle", "killed", "done"} /\ pc'[r] \notin {"idle", "killed", "done"}
              /\ there' = there /\ missing' = missing /\ blob' = blob /\ Overlooks("stat")
              /\ \E k \in Sought(r) \cap StashedKeys : misled' = [misled EXCEPT ![r] = @ \cup {k}]
    <2>1. PhaseOf(r) = "open" /\ PhaseOf(r)' = "open"
      BY <1>13, PhaseIs, PhaseIsThen
    <2>2. ReplyOf(r)' = ReplyOf(r)
      BY <1>13, <2>1, ReplyIs, ReplyIsThen
    <2>3. phases' = [phases EXCEPT ![r] = "open"] /\ replies' = replies /\ asks' = asks
      BY <1>3, <2>1, <2>2
    <2>4. StashedKeys' = StashedKeys
      BY <1>13 DEF StashedKeys, Exists
    <2>5. Promise!Overlook(r)
      BY <1>13, <2>1, <2>3, <2>4 DEF Promise!Overlook, Promise!Overlooks, Promise!Move, AskOf
    <2>6. QED
      BY <2>5 DEF Promise!SNext
  <1>9. CASE /\ pc[r] \notin {"idle", "killed", "done"} /\ pc'[r] = "done" /\ resp'[r] \notin {200, 201}
             /\ there' = there /\ missing' = missing /\ misled' = misled
    <2>1. PhaseOf(r) = "open" /\ PhaseOf(r)' = "refused"
      BY <1>8, <1>9, PhaseIs, PhaseIsThen
    <2>2. ReplyOf(r)' = ReplyOf(r)
      BY <1>9, <2>1, ReplyIs, ReplyIsThen
    <2>3. phases' = [phases EXCEPT ![r] = "refused"] /\ replies' = replies /\ asks' = asks
      BY <1>3, <2>1, <2>2
    <2>4. Promise!Grows(r)
      BY <1>5, <1>6 DEF Promise!Grows
    <2>5. Promise!Refuse(r)
      BY <1>9, <2>1, <2>3, <2>4 DEF Promise!Refuse, Promise!Move, AskOf
    <2>6. QED
      BY <2>5 DEF Promise!SNext
  <1>10. CASE /\ pc[r] \notin {"idle", "killed", "done"} /\ pc'[r] = "done" /\ resp'[r] \notin {200, 201}
              /\ there' = there /\ blob' = blob /\ missing'[r] = {Sha(r)}
              /\ \/ Sha(r) \notin there[r] /\ misled' = misled
                 \/ /\ Sha(r) \in StashedKeys /\ Overlooks("get")
                    /\ misled' = [misled EXCEPT ![r] = @ \cup {Sha(r)}]
              /\ Zips(r) /\ left[r].want # <<>>
    <2>1. PhaseOf(r) = "open" /\ PhaseOf(r)' = "missed"
      BY <1>10, PhaseIs, PhaseIsThen
    <2>2. ReplyOf(r)' = [Promise!Nothing EXCEPT !.missing = {Sha(r)}]
      BY <1>10, <2>1, ReplyIsThen DEF Promise!Nothing
    <2>3. phases' = [phases EXCEPT ![r] = "missed"] /\ asks' = asks
          /\ replies' = [replies EXCEPT ![r] = [Promise!Nothing EXCEPT !.missing = {Sha(r)}]]
      BY <1>3, <2>1, <2>2
    <2>4. StashedKeys' = StashedKeys
      BY <1>10 DEF StashedKeys, Exists
    <2>5. Sha(r) \in Sought(r)
      <3>1. WantDone(r) + 1 \in 1..Len(op[r].want) /\ Head(left[r].want) = op[r].want[WantDone(r) + 1]
        BY <1>1, <1>10, NextWantDone
      <3>2. ~IsKind(r, {"matches"})
        BY <1>10 DEF Zips, IsKind
      <3>3. op[r].want[WantDone(r) + 1] \in ToSet(op[r].want)
        BY <1>1, <3>1, RefsAndSought DEF ToSet
      <3>4. QED
        BY <1>1, <3>1, <3>2, <3>3, RefsAndSought DEF Sha
    <2>6. \/ Sha(r) \notin there[r] /\ misled' = misled
          \/ Sha(r) \in StashedKeys /\ Promise!Overlooks(r, Sha(r))
      BY <1>10 DEF Promise!Overlooks
    <2>7. Promise!Miss(r)
      BY <1>10, <2>1, <2>3, <2>4, <2>5, <2>6 DEF Promise!Miss, Promise!Move, Promise!Tell, AskOf
    <2>8. QED
      BY <2>7 DEF Promise!SNext
  <1>11. CASE /\ pc[r] \notin {"idle", "killed", "done"} /\ pc'[r] = "done" /\ resp'[r] \in {200, 201}
              /\ there' = there /\ missing' = missing /\ misled' = misled /\ blob' = blob
    <2>1. PhaseOf(r) = "open" /\ PhaseOf(r)' = "served"
      BY <1>11, PhaseIs, PhaseIsThen
    <2>2. ReplyOf(r)' = [shas |-> shas'[r], zip |-> zip'[r], missing |-> {}]
      BY <1>8, <1>11, <2>1, ReplyIsThen
    <2>3. phases' = [phases EXCEPT ![r] = "served"] /\ asks' = asks
          /\ replies' = [replies EXCEPT ![r] = [shas |-> shas'[r], zip |-> zip'[r], missing |-> {}]]
      BY <1>3, <2>1, <2>2
    <2>4. StashedKeys' = StashedKeys
      BY <1>11 DEF StashedKeys, Exists
    <2>5. Right(r)'
      BY <1>2, <1>11, ServedRightThen DEF AllServedRight
    <2>6. /\ RefsOf(r)' = RefsOf(r) /\ Sought(r)' = Sought(r) /\ OwnOf(r)' = OwnOf(r)
      BY <1>2 DEF RefsOf, Sought, OwnOf, IsKind
    <2>7. ASSUME RightMatches(r)'
          PROVE  Promise!TellMatches(r)
      <3>1. /\ op[r].kind = "matches" /\ zip'[r] = <<>>
            /\ shas'[r] \in BoundedSeq(StashedKeys \cap Sought(r), Len(RefsOf(r)))
            /\ there[r] \cap Sought(r) \subseteq ToSet(shas'[r]) \cup misled[r]
        BY <1>2, <1>11, <2>4, <2>6, <2>7 DEF RightMatches
      <3>2. [shas |-> shas'[r], zip |-> zip'[r], missing |-> {}] = [Promise!Nothing EXCEPT !.shas = shas'[r]]
        BY <3>1, Told
      <3>3. Promise!TellMatches(r)
        BY <2>3, <3>1, <3>2, SameHelpers DEF Promise!TellMatches, Promise!Tell
      <3>4. QED
        BY <3>3
    <2>8. ASSUME RightEntries(r)'
          PROVE  Promise!TellEntries(r)
      <3>1. /\ op[r].kind = "entries" /\ zip'[r] = <<>> /\ OwnOf(r) \subseteq StashedKeys
            /\ shas'[r] = [i \in DOMAIN op[r].app |-> ShaOf[op[r].app[i]]]
        BY <1>2, <2>4, <2>6, <2>8 DEF RightEntries
      <3>2. [shas |-> shas'[r], zip |-> zip'[r], missing |-> {}] = [Promise!Nothing EXCEPT !.shas = shas'[r]]
        BY <3>1, Told
      <3>3. Promise!TellEntries(r)
        <4> DEFINE a == [q \in Req |-> [kind |-> op[q].kind, own |-> op[q].app, refs |-> RefsOf(q), sought |-> Sought(q)]]
                   told == [i \in DOMAIN a[r].own |-> ShaOf[a[r].own[i]]]
        <4>1. a[r].kind = "entries" /\ Promise!Own(r) \subseteq StashedKeys
          BY <1>6, <3>1, Asked
        <4>2. shas'[r] = told
          BY <3>1, Asked
        <4>3. Promise!Tell(r, [Promise!Nothing EXCEPT !.shas = told])
          BY <2>3, <3>2, <4>2, Zenon DEF Promise!Tell
        <4>4. QED
          BY <4>1, <4>3, Zenon DEF Promise!TellEntries
      <3>4. QED
        BY <3>3
    <2>9. ASSUME RightZip(r)'
          PROVE  Promise!TellZip(r)
      <3>1. /\ op[r].kind \in {"bundle", "package"} /\ shas'[r] = <<>>
            /\ OwnOf(r) \cup Sought(r) \subseteq StashedKeys
            /\ zip'[r] = [i \in DOMAIN op[r].app |-> <<op[r].app[i]>>]
                 \o [i \in DOMAIN RefsOf(r) |-> <<CHOOSE c \in Content : ShaOf[c] = RefsOf(r)[i]>>]
        BY <1>2, <2>4, <2>6, <2>9 DEF RightZip
      <3>2. [shas |-> shas'[r], zip |-> zip'[r], missing |-> {}] = [Promise!Nothing EXCEPT !.zip = zip'[r]]
        BY <3>1, Told
      <3>3. Promise!TellZip(r)
        <4> DEFINE a == [q \in Req |-> [kind |-> op[q].kind, own |-> op[q].app, refs |-> RefsOf(q), sought |-> Sought(q)]]
                   told == [i \in DOMAIN a[r].own |-> <<a[r].own[i]>>]
                            \o [i \in DOMAIN a[r].refs |-> <<CHOOSE c \in Content : ShaOf[c] = a[r].refs[i]>>]
        <4>1. a[r].kind \in {"bundle", "package"} /\ Promise!Own(r) \cup a[r].sought \subseteq StashedKeys
          BY <1>6, <3>1, Asked
        <4>2. zip'[r] = told
          <5>1. /\ [i \in DOMAIN a[r].own |-> <<a[r].own[i]>>] = [i \in DOMAIN op[r].app |-> <<op[r].app[i]>>]
                /\ [i \in DOMAIN a[r].refs |-> <<CHOOSE c \in Content : ShaOf[c] = a[r].refs[i]>>]
                     = [i \in DOMAIN RefsOf(r) |-> <<CHOOSE c \in Content : ShaOf[c] = RefsOf(r)[i]>>]
            BY Asked
          <5>2. QED
            BY <3>1, <5>1, Zenon
        <4>3. Promise!Tell(r, [Promise!Nothing EXCEPT !.zip = told])
          BY <2>3, <3>2, <4>2, Zenon DEF Promise!Tell
        <4>4. QED
          BY <4>1, <4>3, Zenon DEF Promise!TellZip
      <3>4. QED
        BY <3>3
    <2>10. Promise!TellMatches(r) \/ Promise!TellEntries(r) \/ Promise!TellZip(r)
      BY <2>5, <2>7, <2>8, <2>9 DEF Right
    <2>11. Promise!Serve(r)
      BY <1>11, <2>1, <2>3, <2>4, <2>10 DEF Promise!Serve, Promise!Move, AskOf
    <2>12. QED
      BY <2>11 DEF Promise!SNext
  <1>12. QED
    BY <1>1, <1>4, <1>7, <1>9, <1>10, <1>11, <1>13, StepShows

\* A kill is one the promise allows.
LEMMA KillPromise ==
  ASSUME IndInv, Kill
  PROVE  Promise!Die
  <1>1. UNCHANGED <<op, shas, zip, missing, resp, blob, there, misled>>
    BY DEF Kill, product
  <1>2. ASSUME NEW q \in Req
        PROVE  /\ PhaseOf(q)' = IF PhaseOf(q) = "open" THEN "dead" ELSE PhaseOf(q)
               /\ ReplyOf(q)' = ReplyOf(q) /\ AskOf(q)' = AskOf(q)
    <2>1. TypeOK /\ (missing[q] # {} => pc[q] = "done")
      BY DEF IndInv, Saw
    <2>2. pc'[q] = IF pc[q] \in {"idle", "done"} THEN pc[q] ELSE "killed"
      BY DEF Kill
    <2>3. CASE pc[q] \in {"idle", "done"}
      <3>1. PhaseOf(q)' = PhaseOf(q)
        BY <1>1, <2>2, <2>3 DEF PhaseOf, Answered
      <3>2. PhaseOf(q) # "open"
        BY <2>3, PhaseIs
      <3>3. QED
        BY <1>1, <3>1, <3>2, AskStays DEF ReplyOf
    <2>4. CASE pc[q] \notin {"idle", "done"}
      <3>1. PhaseOf(q)' = "dead" /\ PhaseOf(q) \in {"open", "dead"}
        BY <2>2, <2>4, PhaseIs, PhaseIsThen
      <3>2. ReplyOf(q)' = ReplyOf(q)
        BY <1>1, <3>1, ReplyIs, ReplyIsThen
      <3>3. QED
        BY <1>1, <3>1, <3>2, AskStays
    <2>5. QED
      BY <2>3, <2>4
  <1>3. StashedKeys' = StashedKeys
    BY <1>1 DEF StashedKeys, Exists
  <1>4. QED
    BY <1>1, <1>2, <1>3 DEF Promise!Die, AskOf

\* Initial states are initial states of the promise.
LEMMA InitPromise ==
  ASSUME Init
  PROVE  Promise!SInit
  <1>1. TypeOK /\ KeysAreShas
    BY InitTypes, InitStash
  <1>2. ASSUME NEW r \in Req
        PROVE  PhaseOf(r) = "new" /\ ReplyOf(r) = Promise!Nothing
    <2>1. pc[r] = "idle" /\ missing[r] = {}
      BY DEF Init
    <2>2. PhaseOf(r) = "new"
      BY <2>1, PhaseIs
    <2>3. QED
      BY <2>1, <2>2, ReplyIs DEF Promise!Nothing
  <1>3. StashedKeys \subseteq {ShaOf[c] : c \in Content}
    BY <1>1 DEF StashedKeys, KeysAreShas, Whole
  <1>4. there = [r \in Req |-> {}] /\ misled = [r \in Req |-> {}]
    BY DEF Init
  <1>5. QED
    BY <1>2, <1>3, <1>4 DEF Promise!SInit

LEMMA StutterPromise ==
  ASSUME UNCHANGED vars
  PROVE  UNCHANGED Promise!svars
  <1> USE DEF vars, product, stash
  <1>1. \A q \in Req : PhaseOf(q)' = PhaseOf(q) /\ ReplyOf(q)' = ReplyOf(q) /\ AskOf(q)' = AskOf(q)
    BY OthersShow, AskStays DEF Untouched
  <1>2. StashedKeys' = StashedKeys /\ there' = there /\ misled' = misled
    BY DEF StashedKeys, Exists
  <1>3. QED
    BY <1>1, <1>2 DEF Promise!svars, AskOf

\* Where nothing spoils a zip, the handlers implement the app-stash as its
\* clients see it, whatever else fails and whenever the process is killed.
THEOREM PromiseKept ==
  ASSUME ~Spoilt
  PROVE  Spec => KeepsStashPromise
  <1>1. Init => Promise!SInit
    BY InitPromise
  <1>2. IndInv /\ [Next]_vars => [Promise!SNext]_(Promise!svars)
    <2>1. ASSUME IndInv, Next
          PROVE  Promise!SNext
      BY <2>1, StepPromise, KillPromise DEF Next, Promise!SNext
    <2>2. QED
      BY <2>1, StutterPromise
  <1>3. QED
    BY <1>1, <1>2, Inductive, PTL DEF Spec, KeepsStashPromise, Promise!SSpec

-----------------------------------------------------------------------------
(* Every request comes to its end.                                          *)

\* The steps of fetching what is left of the fingerprints, and of storing
\* what is left of the files before that.
Fetching(r) == Len(left[r].want) * (MaxRetries + 1) + 2
Storing(r) == Len(left[r].app) * (MaxRetries + 2) + Fetching(r) + 1

\* One less of a list.
LEMMA OneLess ==
  ASSUME NEW n \in Nat, NEW m \in Nat
  PROVE  /\ n * m \in Nat
         /\ n > 0 => n * m = (n - 1) * m + m
  OBVIOUS

LEMMA TailLess ==
  ASSUME NEW S, NEW list \in Seq(S), list # <<>>
  PROVE  Len(list) \in Nat /\ Len(list) > 0 /\ Len(Tail(list)) = Len(list) - 1
  OBVIOUS

LEMMA Lengths ==
  ASSUME TypeOK, NEW r \in Req
  PROVE  /\ Len(left[r].app) \in Nat /\ Len(left[r].want) \in Nat
         /\ retries[r] \in Nat /\ retries[r] <= MaxRetries /\ MaxRetries \in Nat
         /\ Fetching(r) \in Nat /\ Fetching(r) >= 2
         /\ Storing(r) \in Nat /\ Storing(r) >= Fetching(r) + 1
  <1>1. Len(left[r].app) \in Nat /\ Len(left[r].want) \in Nat
    BY Types
  <1>2. retries[r] \in Nat /\ retries[r] <= MaxRetries /\ MaxRetries \in Nat
    BY StashAssumption DEF TypeOK, PlacesTyped
  <1>3. Len(left[r].want) * (MaxRetries + 1) \in Nat /\ Len(left[r].app) * (MaxRetries + 2) \in Nat
    <2> DEFINE n == Len(left[r].want)
               m == MaxRetries + 1
               i == Len(left[r].app)
               j == MaxRetries + 2
    <2>1. n \in Nat /\ m \in Nat /\ i \in Nat /\ j \in Nat
      BY <1>1, <1>2
    <2> HIDE DEF n, m, i, j
    <2>2. n * m \in Nat /\ i * j \in Nat
      BY <2>1, OneLess
    <2>3. QED
      BY <2>2 DEF n, m, i, j
  <1>4. Fetching(r) \in Nat /\ Fetching(r) >= 2
    BY <1>3 DEF Fetching
  <1> DEFINE s == Len(left[r].app) * (MaxRetries + 2)
  <1>5. Storing(r) = s + Fetching(r) + 1 /\ s \in Nat
    BY <1>3 DEF Storing
  <1> HIDE DEF s
  <1>6. QED
    BY <1>1, <1>2, <1>4, <1>5

\* Fetching takes a step for each fingerprint at least.
LEMMA WantsCount ==
  ASSUME TypeOK, NEW r \in Req
  PROVE  Storing(r) >= Len(left[r].want) + 1
  <1> DEFINE n == Len(left[r].want)
             m == MaxRetries
  <1>1. n \in Nat /\ m \in Nat
    BY Lengths
  <1>2. n * (m + 1) >= n
    <2> HIDE DEF n, m
    <2>1. n * m \in Nat /\ n * (m + 1) = n * m + n
      BY <1>1
    <2>2. QED
      BY <1>1, <2>1
  <1>3. Fetching(r) = n * (m + 1) + 2
    BY DEF Fetching
  <1>4. Storing(r) \in Nat /\ Fetching(r) \in Nat /\ Storing(r) >= Fetching(r) + 1
    BY Lengths
  <1> DEFINE a == n * (m + 1)
  <1>5. a >= n /\ a \in Int
    <2> DEFINE l == m + 1
    <2>1. n \in Nat /\ l \in Nat
      BY <1>1
    <2> HIDE DEF n, l
    <2>2. n * l \in Nat
      BY <2>1, OneLess
    <2>3. QED
      BY <1>2, <2>2 DEF l
  <1>6. Fetching(r) = a + 2
    BY <1>3
  <1> HIDE DEF a, m
  <1>7. QED
    BY <1>1, <1>4, <1>5, <1>6

\* A file, or a fingerprint, less to process.
LEMMA FileLess ==
  ASSUME TypeOK, NEW r \in Req, left[r].app # <<>>, left' = [left EXCEPT ![r].app = Tail(@)]
  PROVE  Storing(r)' = Storing(r) - (MaxRetries + 2) /\ Storing(r)' \in Nat
  <1>1. left'[r].app = Tail(left[r].app) /\ left'[r].want = left[r].want
    BY DEF TypeOK, ListsTyped
  <1>2. Len(left[r].app) \in Nat /\ Len(left[r].app) > 0 /\ Len(left'[r].app) = Len(left[r].app) - 1
    <2>1. left[r].app \in Seq(Content)
      BY Types
    <2>2. QED
      BY <1>1, <2>1, TailLess
  <1>3. Fetching(r)' = Fetching(r)
    BY <1>1 DEF Fetching
  <1> DEFINE n == Len(left[r].app)
             m == MaxRetries + 2
  <1>4. n \in Nat /\ n > 0 /\ m \in Nat /\ n - 1 \in Nat
    BY <1>2, StashAssumption
  <1>5. n * m = (n - 1) * m + m /\ n * m \in Nat /\ (n - 1) * m \in Nat
    <2> HIDE DEF n, m
    <2>1. QED
      BY <1>4, OneLess
  <1>6. Storing(r)' = (n - 1) * m + Fetching(r) + 1 /\ Storing(r) = n * m + Fetching(r) + 1
    BY <1>2, <1>3 DEF Storing
  <1>7. Fetching(r) \in Nat
    BY Lengths
  <1> HIDE DEF n
  <1>8. Storing(r)' = Storing(r) - m /\ Storing(r)' \in Nat
    <2> DEFINE a == n * m
               b == (n - 1) * m
    <2>1. a \in Nat /\ b \in Nat /\ a = b + m /\ m \in Nat
      BY <1>4, <1>5
    <2>2. Storing(r)' = b + Fetching(r) + 1 /\ Storing(r) = a + Fetching(r) + 1
      BY <1>6
    <2> HIDE DEF m, a, b
    <2>3. QED
      BY <1>7, <2>1, <2>2
  <1>9. QED
    BY <1>8

LEMMA FingerprintLess ==
  ASSUME TypeOK, NEW r \in Req, left[r].want # <<>>, left' = [left EXCEPT ![r].want = Tail(@)]
  PROVE  /\ Len(left[r].want) > 0 /\ Len(left'[r].want) = Len(left[r].want) - 1
         /\ Fetching(r)' = Fetching(r) - (MaxRetries + 1)
         /\ Fetching(r)' \in Nat /\ Fetching(r)' >= 2
  <1>1. left'[r].want = Tail(left[r].want)
    BY DEF TypeOK, ListsTyped
  <1>2. Len(left[r].want) \in Nat /\ Len(left[r].want) > 0 /\ Len(left'[r].want) = Len(left[r].want) - 1
    <2>1. left[r].want \in Seq(Fingerprint)
      BY Types
    <2>2. QED
      BY <1>1, <2>1, TailLess
  <1> DEFINE n == Len(left[r].want)
             m == MaxRetries + 1
  <1>3. n \in Nat /\ n > 0 /\ m \in Nat /\ n - 1 \in Nat
    BY <1>2, StashAssumption
  <1>4. n * m = (n - 1) * m + m /\ n * m \in Nat /\ (n - 1) * m \in Nat
    <2> HIDE DEF n, m
    <2>1. QED
      BY <1>3, OneLess
  <1>5. Fetching(r)' = (n - 1) * m + 2 /\ Fetching(r) = n * m + 2
    BY <1>2 DEF Fetching
  <1>6. Fetching(r)' = Fetching(r) - m /\ Fetching(r)' \in Nat /\ Fetching(r)' >= 2
    <2> DEFINE a == n * m
               b == (n - 1) * m
    <2>1. a \in Nat /\ b \in Nat /\ a = b + m /\ m \in Nat
      BY <1>3, <1>4
    <2>2. Fetching(r)' = b + 2 /\ Fetching(r) = a + 2
      BY <1>5
    <2> HIDE DEF n, m, a, b
    <2>3. QED
      BY <2>1, <2>2
  <1>7. QED
    BY <1>2, <1>6

\* What Left counts.
LEMMA LeftIs ==
  ASSUME NEW r \in Req
  PROVE  /\ pc[r] = "arrived" => Left(r) = Storing(r) + 1
         /\ pc[r] = "match" => Left(r) = Len(left[r].want) + 1
         /\ pc[r] = "stage" => Left(r) = Storing(r)
         /\ pc[r] = "put" => Left(r) = Storing(r) - 1 - retries[r]
         /\ pc[r] = "get" => Left(r) = Fetching(r) - retries[r]
         /\ pc[r] = "close" => Left(r) = 2
         /\ pc[r] = "respond" => Left(r) = 1
         /\ pc[r] \in {"idle", "done", "killed"} => Left(r) = 0
  <1>1. CASE pc[r] \in {"arrived", "stage", "put"}
    BY <1>1 DEF Left, Storing, Fetching
  <1>2. CASE pc[r] \in {"match", "get"}
    BY <1>2 DEF Left, Storing, Fetching
  <1>3. CASE pc[r] \in {"close", "respond", "idle", "done", "killed"}
    BY <1>3 DEF Left
  <1>4. QED
    BY <1>1, <1>2, <1>3

LEMMA LeftIsThen ==
  ASSUME NEW r \in Req
  PROVE  /\ pc'[r] = "match" => Left(r)' = Len(left'[r].want) + 1
         /\ pc'[r] = "stage" => Left(r)' = Storing(r)'
         /\ pc'[r] = "put" => Left(r)' = Storing(r)' - 1 - retries'[r]
         /\ pc'[r] = "get" => Left(r)' = Fetching(r)' - retries'[r]
         /\ pc'[r] = "close" => Left(r)' = 2
         /\ pc'[r] = "respond" => Left(r)' = 1
         /\ pc'[r] \in {"done", "killed"} => Left(r)' = 0
  <1>1. CASE pc'[r] \in {"stage", "put"}
    BY <1>1 DEF Left, Storing, Fetching
  <1>2. CASE pc'[r] \in {"match", "get"}
    BY <1>2 DEF Left, Storing, Fetching
  <1>3. CASE pc'[r] \in {"close", "respond", "done", "killed"}
    BY <1>3 DEF Left
  <1>4. QED
    BY <1>1, <1>2, <1>3

\* A request that is not at its end has a step left; what is put is a file.
LEMMA LeftTyped ==
  ASSUME TypeOK, NEW r \in Req, Control(r)
  PROVE  /\ Left(r) \in Nat
         /\ pc[r] \notin {"idle", "done", "killed"} => Left(r) > 0
  <1>1. pc[r] \in Label
    BY DEF TypeOK, PlacesTyped
  <1>2. CASE pc[r] = "put"
    <2>1. Len(left[r].app) \in Nat \ {0} /\ MaxRetries \in Nat /\ retries[r] \in Nat
          /\ retries[r] <= MaxRetries /\ Fetching(r) \in Nat /\ Fetching(r) >= 2
      BY <1>2, Types, Lengths DEF Control
    <2> DEFINE n == Len(left[r].app)
               m == MaxRetries + 2
    <2>2. n * m = (n - 1) * m + m /\ (n - 1) * m \in Nat /\ m \in Nat
      <3>1. n \in Nat /\ n - 1 \in Nat /\ n > 0 /\ m \in Nat
        BY <2>1
      <3> HIDE DEF n, m
      <3>2. QED
        BY <3>1, OneLess
    <2>3. Storing(r) >= m + 3
      <3>1. Storing(r) = n * m + Fetching(r) + 1
        BY DEF Storing
      <3> HIDE DEF n, m
      <3>2. QED
        BY <2>1, <2>2, <3>1
    <2>4. Storing(r) \in Nat
      BY Lengths
    <2>5. QED
      BY <1>2, <2>1, <2>3, <2>4, LeftIs
  <1>3. CASE pc[r] = "get"
    <2>1. Len(left[r].want) \in Nat \ {0} /\ MaxRetries \in Nat /\ retries[r] \in Nat
          /\ retries[r] <= MaxRetries
      BY <1>3, Types, Lengths DEF Control
    <2> DEFINE n == Len(left[r].want)
               m == MaxRetries + 1
    <2>2. n * m = (n - 1) * m + m /\ (n - 1) * m \in Nat /\ m \in Nat
      <3>1. n \in Nat /\ n - 1 \in Nat /\ n > 0 /\ m \in Nat
        BY <2>1
      <3> HIDE DEF n, m
      <3>2. QED
        BY <3>1, OneLess
    <2>3. Fetching(r) >= m + 2
      <3>1. Fetching(r) = n * m + 2
        BY DEF Fetching
      <3> HIDE DEF n, m
      <3>2. QED
        BY <2>1, <2>2, <3>1
    <2>4. Fetching(r) \in Nat
      BY Lengths
    <2>5. QED
      BY <1>3, <2>1, <2>3, <2>4, LeftIs
  <1>4. CASE pc[r] \notin {"put", "get"}
    BY <1>1, <1>4, Lengths, LeftIs DEF Label
  <1>5. QED
    BY <1>2, <1>3, <1>4

\* A call that fails is tried again, once more than before, or ends the request.
LEMMA RetryDown ==
  ASSUME TypeOK, NEW r \in Req, Control(r), pc[r] \in {"stage", "put", "get"}, UNCHANGED left,
         NEW e, (Return(r, e) /\ UNCHANGED retries) \/ RetryOrReturn(r, e),
         pc[r] = "stage" => Return(r, e)
  PROVE  Left(r)' \in 0..(Left(r) - 1)
  <1>1. Left(r) \in Nat /\ Left(r) > 0
    BY LeftTyped
  <1>2. CASE Return(r, e)
    <2>1. pc'[r] = "done"
      BY <1>2 DEF Return, Finish, TypeOK, PlacesTyped
    <2>2. QED
      BY <1>1, <2>1, LeftIsThen
  <1>3. CASE ~Return(r, e)
    <2>1. UNCHANGED pc /\ retries'[r] = retries[r] + 1 /\ pc[r] \in {"put", "get"}
      BY <1>3 DEF RetryOrReturn, TypeOK, PlacesTyped
    <2>2. Storing(r)' = Storing(r) /\ Fetching(r)' = Fetching(r)
      BY DEF Storing, Fetching
    <2>3. Left(r)' = Left(r) - 1
      <3>1. CASE pc[r] = "put"
        <4>1. Left(r) = Storing(r) - 1 - retries[r] /\ Left(r)' = Storing(r)' - 1 - retries'[r]
          BY <2>1, <3>1, LeftIs, LeftIsThen
        <4>2. QED
          BY <2>1, <2>2, <4>1, Lengths
      <3>2. CASE pc[r] = "get"
        <4>1. Left(r) = Fetching(r) - retries[r] /\ Left(r)' = Fetching(r)' - retries'[r]
          BY <2>1, <3>2, LeftIs, LeftIsThen
        <4>2. QED
          BY <2>1, <2>2, <4>1, Lengths
      <3>3. QED
        BY <2>1, <3>1, <3>2
    <2>4. QED
      BY <1>1, <2>3
  <1>4. QED
    BY <1>2, <1>3

\* With every step the request takes there is less left.
LEMMA GoesDown ==
  ASSUME TypeOK, NEW r \in Req, Control(r), Goes(r), pc[r] # "idle"
  PROVE  Left(r)' \in 0..(Left(r) - 1)
  <1>1. Left(r) \in Nat
    BY LeftTyped
  <1>2. /\ Len(left[r].app) \in Nat /\ Len(left[r].want) \in Nat
        /\ retries[r] \in Nat /\ retries[r] <= MaxRetries /\ MaxRetries \in Nat
        /\ Fetching(r) \in Nat /\ Fetching(r) >= 2
        /\ Storing(r) \in Nat /\ Storing(r) >= Fetching(r) + 1
    BY Lengths
  <1>3. ASSUME pc[r] \notin {"idle", "done", "killed"}, NEW code, Finish(r, code)
        PROVE  Left(r)' \in 0..(Left(r) - 1)
    <2>1. pc'[r] = "done"
      BY <1>3 DEF Finish, TypeOK, PlacesTyped
    <2>2. Left(r) > 0
      BY <1>3, LeftTyped
    <2>3. QED
      BY <1>1, <2>1, <2>2, LeftIsThen
  <1>4. ASSUME UNCHANGED left PROVE Storing(r)' = Storing(r) /\ Fetching(r)' = Fetching(r)
    BY <1>4 DEF Storing, Fetching
  <1>5. CASE Arrive(r)
    BY <1>5 DEF Arrive
  <1>6. CASE Refuse(r) \/ ExistsFails(r) \/ AnswerMatches(r)
    BY <1>3, <1>6 DEF Refuse, ExistsFails, AnswerMatches
  <1>7. CASE Accept(r)
    <2>1. CASE Finish(r, 500)
      BY <1>3, <1>7, <2>1 DEF Accept
    <2>2. CASE \E l \in {"match", "stage"} : Goto(r, l)
      <3>1. Left(r) = Storing(r) + 1
        BY <1>7, LeftIs DEF Accept
      <3>2. pc'[r] \in {"match", "stage"} /\ UNCHANGED left
        BY <1>7, <2>2 DEF Accept, Goto, TypeOK, PlacesTyped
      <3>3. CASE pc'[r] = "stage"
        <4>1. Left(r)' = Storing(r)
          BY <1>4, <3>2, <3>3, LeftIsThen
        <4>2. QED
          BY <1>2, <3>1, <4>1
      <3>4. CASE pc'[r] = "match"
        <4>1. Left(r)' = Len(left[r].want) + 1
          BY <3>2, <3>4, LeftIsThen
        <4>2. Storing(r) >= Len(left[r].want) + 1
          BY WantsCount
        <4>3. QED
          BY <1>2, <3>1, <4>1, <4>2
      <3>5. QED
        BY <3>2, <3>3, <3>4
    <2>3. QED
      BY <1>7, <2>1, <2>2 DEF Accept
  <1>8. CASE Match(r)
    <2>1. left[r].want # <<>> /\ left' = [left EXCEPT ![r].want = Tail(@)] /\ pc'[r] = "match" /\ pc[r] = "match"
      BY <1>8 DEF Match
    <2>2. Len(left[r].want) > 0 /\ Len(left'[r].want) = Len(left[r].want) - 1
      BY <2>1, FingerprintLess
    <2>3. Left(r) = Len(left[r].want) + 1 /\ Left(r)' = Len(left'[r].want) + 1
      BY <2>1, LeftIs, LeftIsThen
    <2>4. QED
      BY <1>2, <2>2, <2>3
  <1>9. CASE Stage(r)
    <2>1. pc[r] = "stage" /\ pc'[r] = "put" /\ retries'[r] = 0 /\ UNCHANGED left
      BY <1>9 DEF Stage, Goto, TypeOK, PlacesTyped
    <2>2. Left(r) = Storing(r) /\ Left(r)' = Storing(r)' - 1 - retries'[r] /\ Storing(r)' = Storing(r)
      BY <1>4, <2>1, LeftIs, LeftIsThen
    <2>3. QED
      BY <1>2, <2>1, <2>2
  <1>10. CASE StageFails(r)
    BY <1>10, RetryDown DEF StageFails
  <1>11. CASE Staged(r)
    <2>1. CASE Finish(r, 201)
      BY <1>3, <1>11, <2>1 DEF Staged
    <2>2. CASE Goto(r, IF left[r].want = <<>> THEN "close" ELSE "get")
      <3>1. pc[r] = "stage" /\ pc'[r] \in {"close", "get"} /\ retries'[r] = 0 /\ UNCHANGED left
        BY <1>11, <2>2 DEF Staged, Goto, TypeOK, PlacesTyped
      <3>2. Left(r) = Storing(r)
        BY <3>1, LeftIs
      <3>3. CASE pc'[r] = "close"
        <4>1. Left(r)' = 2
          BY <3>3, LeftIsThen
        <4>2. QED
          BY <1>2, <3>2, <4>1
      <3>4. CASE pc'[r] = "get"
        <4>1. Left(r)' = Fetching(r)' - retries'[r] /\ Fetching(r)' = Fetching(r)
          BY <1>4, <3>1, <3>4, LeftIsThen
        <4>2. QED
          BY <1>2, <3>1, <3>2, <4>1
      <3>5. QED
        BY <3>1, <3>3, <3>4
    <2>3. QED
      BY <1>11, <2>1, <2>2 DEF Staged
  <1>12. CASE PutSucceeds(r) \/ SkipPut(r)
    <2>1. pc[r] = "put" /\ pc'[r] = "stage" /\ left' = [left EXCEPT ![r].app = Tail(@)]
      BY <1>12 DEF PutSucceeds, SkipPut, NextFile, Goto, TypeOK, PlacesTyped
    <2>2. left[r].app # <<>>
      BY <2>1 DEF Control
    <2>3. Storing(r)' = Storing(r) - (MaxRetries + 2) /\ Storing(r)' \in Nat
      BY <2>1, <2>2, FileLess
    <2>4. Left(r) = Storing(r) - 1 - retries[r] /\ Left(r)' = Storing(r)'
      BY <2>1, LeftIs, LeftIsThen
    <2>5. QED
      BY <1>2, <2>3, <2>4
  <1>13. CASE PutFails(r)
    BY <1>13, RetryDown DEF PutFails
  <1>14. CASE OpenFails(r)
    BY <1>3, <1>14, RetryDown DEF OpenFails
  <1>15. CASE GetFails(r) \/ GetFindsNothing(r) \/ ReadFails(r)
    BY <1>15, RetryDown DEF GetFails, GetFindsNothing, ReadFails, Getting
  <1>16. CASE ReadWhole(r)
    <2>1. /\ pc[r] = "get" /\ pc'[r] \in {"close", "get"} /\ retries'[r] = 0
          /\ left' = [left EXCEPT ![r].want = Tail(@)]
      BY <1>16 DEF ReadWhole, Getting, Goto, TypeOK, PlacesTyped
    <2>2. left[r].want # <<>>
      BY <2>1 DEF Control
    <2>3. Fetching(r)' = Fetching(r) - (MaxRetries + 1) /\ Fetching(r)' \in Nat /\ Fetching(r)' >= 2
      BY <2>1, <2>2, FingerprintLess
    <2>4. Left(r) = Fetching(r) - retries[r]
      BY <2>1, LeftIs
    <2>5. Left(r)' = 2 \/ Left(r)' = Fetching(r)'
      <3>1. CASE pc'[r] = "close"
        BY <3>1, LeftIsThen
      <3>2. CASE pc'[r] = "get"
        <4>1. Left(r)' = Fetching(r)' - retries'[r]
          BY <3>2, LeftIsThen
        <4>2. QED
          BY <2>1, <2>3, <4>1
      <3>3. QED
        BY <2>1, <3>1, <3>2
    <2>6. Fetching(r)' <= Fetching(r) - retries[r] - 1
      BY <1>2, <2>3
    <2>7. QED
      BY <1>1, <2>3, <2>4, <2>5, <2>6
  <1>17. CASE CloseZip(r)
    <2>1. pc[r] = "close" /\ pc'[r] = "respond"
      BY <1>17 DEF CloseZip, Goto, TypeOK, PlacesTyped
    <2>2. Left(r) = 2 /\ Left(r)' = 1
      BY <2>1, LeftIs, LeftIsThen
    <2>3. QED
      BY <2>2
  <1>18. CASE Respond(r)
    BY <1>3, <1>18 DEF Respond
  <1>19. QED
    BY <1>5, <1>6, <1>7, <1>8, <1>9, <1>10, <1>11, <1>12, <1>13, <1>14, <1>15, <1>16, <1>17, <1>18
       DEF Goes, Prepare, PostMatches, FetchFiles

\* Requests keep the count of their own retries.
LEMMA RetriesOthers ==
  ASSUME TypeOK, NEW r \in Req, Step(r), NEW q \in Req, q # r
  PROVE  retries'[q] = retries[q]
  <1>1. \/ UNCHANGED retries
        \/ \E n \in Nat : retries' = [retries EXCEPT ![r] = n]
        \/ \E n \in Nat : retries' = [retries EXCEPT ![r] = @ + 1]
    BY DEF Step, Prepare, PostMatches, StoreFiles, FetchFiles, Arrive, Refuse, Accept, Match, ExistsFails,
           AnswerMatches, Stage, StageFails, Staged, PutIsVisible, PutSucceeds, SkipPut, PutFails, OpenFails,
           GetFails, GetFindsNothing, ReadFails, ReadWhole, CloseZip, Respond, RetryOrReturn
  <1>2. QED
    BY <1>1 DEF TypeOK, PlacesTyped

\* What a step does to the steps left.
Fewer(r) == pc[r] # "idle" => Left(r)' \in 0..(Left(r) - (IF Goes(r) THEN 1 ELSE 0))

LEMMA LeftStays ==
  ASSUME TypeOK, NEW r \in Req, Control(r), UNCHANGED <<pc[r], left[r], retries[r]>>, ~Goes(r)
  PROVE  Fewer(r)
  <1>1. Left(r)' = Left(r)
    BY DEF Left
  <1>2. QED
    BY <1>1, LeftTyped DEF Fewer

\* All steps together.
LEMMA FewerLeft ==
  ASSUME IndInv, [Next]_vars, NEW q \in Req
  PROVE  Fewer(q)
  <1>1. TypeOK /\ Control(q)
    BY DEF IndInv
  <1>2. CASE Goes(q)
    BY <1>1, <1>2, GoesDown DEF Fewer
  <1>3. ASSUME ~Goes(q), NEW r \in Req, Step(r) PROVE Fewer(q)
    <2>1. CASE q # r
      BY <1>1, <1>3, <2>1, StepOthers, RetriesOthers, LeftStays DEF Untouched
    <2>2. CASE q = r
      <3>1. PutIsVisible(q)
        BY <1>3, <2>2 DEF Step, Goes, StoreFiles
      <3>2. QED
        BY <1>1, <1>3, <3>1, LeftStays DEF PutIsVisible
    <2>3. QED
      BY <2>1, <2>2
  <1>4. CASE ~Goes(q) /\ Kill
    <2>1. UNCHANGED <<left, retries>> /\ (pc'[q] = pc[q] \/ pc'[q] = "killed")
      BY <1>1, <1>4, KillFrame DEF Kill
    <2>2. CASE pc'[q] = pc[q]
      BY <1>1, <1>4, <2>1, <2>2, LeftStays
    <2>3. CASE pc'[q] = "killed"
      <3>1. Left(q)' = 0
        BY <2>3, LeftIsThen
      <3>2. QED
        BY <1>1, <1>4, <3>1, LeftTyped DEF Fewer
    <2>4. QED
      BY <2>1, <2>2, <2>3
  <1>5. CASE ~Goes(q) /\ UNCHANGED vars
    BY <1>1, <1>5, LeftStays DEF vars
  <1>6. QED
    BY <1>2, <1>3, <1>4, <1>5 DEF Next

\* A request takes no more steps than are left when it arrives, however often
\* the calls it makes fail (PostEntries, PostBundles, CreateTempZipFileFrom).
THEOREM StepsBounded == Spec => StepsAreBounded
  <1>1. IndInv /\ [Next]_vars =>
          [\A r \in Req : pc[r] # "idle" => Left(r)' \in 0..(Left(r) - (IF Goes(r) THEN 1 ELSE 0))]_vars
    BY FewerLeft DEF Fewer
  <1>2. QED
    BY <1>1, Inductive, PTL DEF Spec, StepsAreBounded
=============================================================================
