------------------------ MODULE RemoteContract_proofs -----------------------
(***************************************************************************)
(* RemoteBlobstore implements BlobstoreCalls: a call sends several         *)
(* requests, which fail, interleave with those of others and die with the  *)
(* process, and is still one operation of Blobstore to its caller.         *)
(***************************************************************************)
EXTENDS RemoteBlobstore_proofs, FiniteSetTheorems

-----------------------------------------------------------------------------
(* What a call knows between two requests, of keys nobody else writes.      *)

\* Running calls are known to each other as writers.
Crowded ==
  \A p, q \in Call : p # q /\ Running(p) /\ Running(q) => Writes(q) \subseteq contended[p]

\* While a missing object leads to the question for the bucket, it is missing.
Subject(p) == IF Is(p, {"copy"}) THEN job[p].source ELSE job[p].key
Seen(p) ==
  pc[p] = "check" =>
    /\ Is(p, {"stat", "get", "copy", "delete"})
    /\ Uses(p) \cap contended[p] = {} => ~Has(Subject(p))

\* The blocks a Put has sent are staged.
Built(p) ==
  /\ pc[p] = "block" =>
       /\ Is(p, {"put"}) /\ sent[p] <= Blocks[job[p].content]
       /\ job[p].key \notin contended[p] =>
            \A i \in 1..sent[p] : staged[job[p].key][i] = job[p].content
  /\ pc[p] \in {"idle", "first"} => sent[p] = 0

\* What a DeleteDir has listed and has not still to delete is gone, or a
\* deletion has failed.
Behind(p, i) ==
  IF pc[p] = "list" THEN i <= page[p].marker
  ELSE i \notin page[p].todo /\ (i <= page[p].marker \/ ~page[p].more)
Swept(p) ==
  /\ pc[p] \in {"list", "remove"} =>
       /\ Is(p, {"deleteDir"})
       /\ \A i \in DOMAIN Listing[job[p].key] :
            Behind(p, i) /\ Listing[job[p].key][i] \notin contended[p]
              => page[p].errs \/ ~Has(Listing[job[p].key][i])
  /\ pc[p] \in {"idle", "first"} => page[p].marker = 0
  /\ pc[p] = "remove" /\ page[p].todo # {} => page[p].marker # 0

\* Only an answer can be wrong, and of each backend only some.
Honest(p) ==
  p \in misreports => pc[p] = "done" /\ <<job[p].kind, answer[p]>> \in MisreportsOf(backend)

Own(p) == Seen(p) /\ Built(p) /\ Swept(p) /\ Honest(p)

ContractInv == TypeInv /\ Crowded /\ \A p \in Call : Own(p)

-----------------------------------------------------------------------------
(* What the contract says, in the terms of this module.                     *)

\* The contract's own copies of what both modules define are these.
LEMMA SameTerms ==
  /\ \A p \in Call : /\ \A K : Contract!Is(p, K) <=> Is(p, K)
                     /\ Contract!Writes(p) = Writes(p)
                     /\ Contract!Uses(p) = Uses(p)
  /\ \A k : Contract!Exists(k) <=> Has(k)
  /\ Contract!Stored = Stored
  BY DEF Contract!Is, Is, Contract!Writes, Writes, Contract!Uses, Uses, Contract!Exists, Has,
         Contract!Stored, Stored

\* A Put that succeeds stores its content, one that fails may do anything to
\* its key.
LEMMA KeepsPut ==
  ASSUME NEW p \in Call, Is(p, {"put"}), NEW e \in {"nil", "error"}, NEW v,
         blob' = [blob EXCEPT ![job[p].key] = v],
         IF e = "nil" THEN v = job[p].content ELSE v \in {blob[job[p].key], Torn, job[p].content}
  PROVE  Contract!Keeps(p, e)
  <1>1. Contract!Put(job[p].key, job[p].content, e)
    BY DEF Contract!Put, Contract!Leftovers
  <1>2. ~Is(p, {"deleteDir"})
    BY DEF Is
  <1>3. Contract!Does(p, e)
    BY <1>1, SameTerms DEF Contract!Does, Contract!Is, Is
  <1>4. QED
    BY <1>2, <1>3, SameTerms DEF Contract!Keeps

\* A copy that succeeds has found its source; one that fails may also leave
\* the destination as it was.
LEMMA KeepsCopy ==
  ASSUME TypeInv, NEW p \in Call, Is(p, {"copy"}), NEW e,
         \/ /\ e \in {"nil", "error"} /\ Has(job[p].source)
            /\ blob' = [blob EXCEPT ![job[p].key] = blob[job[p].source]]
         \/ /\ e = "notFound" /\ ~Has(job[p].source) /\ UNCHANGED blob
         \/ /\ e = "error" /\ blob' = [blob EXCEPT ![job[p].key] = Torn]
         \/ /\ e = "error" /\ UNCHANGED blob
  PROVE  Contract!Keeps(p, e)
  <1>1. UNCHANGED blob => blob' = [blob EXCEPT ![job[p].key] = blob[job[p].key]]
    BY CallTypes
  <1>2. Contract!Copy(job[p].source, job[p].key, e)
    BY <1>1, SameTerms DEF Contract!Copy, Contract!Put, Contract!Leftovers
  <1>3. ~Is(p, {"deleteDir"}) /\ ~Is(p, {"put"})
    BY DEF Is
  <1>4. Contract!Does(p, e)
    BY <1>2, <1>3, SameTerms DEF Contract!Does, Contract!Is, Is
  <1>5. QED
    BY <1>3, <1>4, SameTerms DEF Contract!Keeps

\* When each kind of call keeps the contract.
LEMMA KeepsDelete ==
  ASSUME TypeInv, NEW p \in Call, Is(p, {"delete"}), NEW e,
         \/ /\ e \in {"nil", "error"}
            /\ blob' = [blob EXCEPT ![job[p].key] = Absent]
         \/ /\ e = "notFound" /\ ~Has(job[p].key) /\ UNCHANGED blob
         \/ /\ e = "error" /\ UNCHANGED blob
  PROVE  Contract!Keeps(p, e)
  <1>1. UNCHANGED blob => blob' = [blob EXCEPT ![job[p].key] = blob[job[p].key]]
    BY CallTypes
  <1>2. Contract!Delete(job[p].key, e)
    BY <1>1, SameTerms DEF Contract!Delete
  <1>3. ~Is(p, {"deleteDir"}) /\ ~Is(p, {"put"}) /\ ~Is(p, {"copy"})
    BY DEF Is
  <1>4. Contract!Does(p, e)
    BY <1>2, <1>3, SameTerms DEF Contract!Does, Contract!Is, Is
  <1>5. QED
    BY <1>3, <1>4, SameTerms DEF Contract!Keeps

LEMMA KeepsRead ==
  ASSUME NEW p \in Call, Is(p, {"stat", "get"}), NEW e, UNCHANGED blob,
         e = "nil" => Has(job[p].key),
         e = "notFound" => ~Has(job[p].key)
  PROVE  Contract!Keeps(p, e)
  <1>1. ~Is(p, {"deleteDir"}) /\ ~Is(p, {"put"}) /\ ~Is(p, {"copy"}) /\ ~Is(p, {"delete"})
    BY DEF Is
  <1>2. Contract!Does(p, e)
    BY <1>1, SameTerms DEF Contract!Does, Contract!Is, Is
  <1>3. QED
    BY <1>1, <1>2, SameTerms DEF Contract!Keeps

LEMMA KeepsClears ==
  ASSUME TypeInv, NEW p \in Call, Is(p, {"deleteDir"}), NEW e \in {"nil", "notFound", "error"},
         NEW ks \in SUBSET Under[job[p].key],
         blob' = [k \in Key |-> IF k \in ks THEN Absent ELSE blob[k]],
         e = "nil" => \A k \in Under[job[p].key] \ contended[p] : blob'[k] = Absent,
         e = "notFound" => \A k \in Under[job[p].key] \ contended[p] : ~Has(k)
  PROVE  Contract!Keeps(p, e)
  <1>1. Writes(p) = Under[job[p].key]
    BY WritesWhat
  <1>2. Contract!Removed(ks) = [k \in Key |-> IF k \in ks THEN Absent ELSE blob[k]]
    BY DEF Contract!Removed
  <1>3. Contract!Clears(p, e)
    BY <1>1, <1>2, SameTerms DEF Contract!Clears
  <1>4. QED
    BY <1>3, SameTerms DEF Contract!Keeps

\* With others at the same keys, all that counts is what is written.
LEMMA KeepsClash ==
  ASSUME TypeInv, NEW p \in Call, ~Is(p, {"deleteDir"}), NEW e, Touches(p),
         Uses(p) \cap contended[p] # {}
  PROVE  Contract!Keeps(p, e)
  <1>1. Contract!Clashes(p)
    BY SameTerms DEF Contract!Clashes, Touches
  <1>2. QED
    BY <1>1, SameTerms DEF Contract!Keeps

\* A call that failed may have changed nothing.
LEMMA KeepsNothing ==
  ASSUME TypeInv, NEW p \in Call, UNCHANGED blob
  PROVE  Contract!Keeps(p, "error")
  <1>1. blob' = [blob EXCEPT ![job[p].key] = blob[job[p].key]]
    BY CallTypes
  <1>2. PICK none \in SUBSET Under[job[p].key] : none = {}
    OBVIOUS
  <1>3. CASE Is(p, {"put"})
    BY <1>1, <1>3, KeepsPut
  <1>4. CASE Is(p, {"copy"})
    BY <1>4, KeepsCopy
  <1>5. CASE Is(p, {"delete"})
    BY <1>5, KeepsDelete
  <1>6. CASE Is(p, {"stat", "get"})
    BY <1>6, KeepsRead
  <1>7. CASE Is(p, {"deleteDir"})
    <2>1. blob' = [k \in Key |-> IF k \in none THEN Absent ELSE blob[k]]
      BY <1>2, CallTypes
    <2>2. QED
      BY <1>7, <2>1, KeepsClears
  <1>8. QED
    BY <1>3, <1>4, <1>5, <1>6, <1>7, CallTypes DEF Job, Is

\* Functions to Booleans are the same when they say the same.
LEMMA SameClaims ==
  ASSUME NEW S, NEW f \in [S -> BOOLEAN], NEW g \in [S -> BOOLEAN], \A q \in S : f[q] <=> g[q]
  PROVE  f = g
  <1>1. ASSUME NEW q \in S PROVE f[q] = g[q]
    <2>1. f[q] \in BOOLEAN /\ g[q] \in BOOLEAN /\ (f[q] <=> g[q])
      OBVIOUS
    <2>2. QED
      BY <2>1
  <1>2. f = [q \in S |-> f[q]] /\ g = [q \in S |-> g[q]]
    OBVIOUS
  <1>3. QED
    BY <1>1, <1>2

\* Whether a call has written is a truth value.
LEMMA WroteTyped ==
  /\ [q \in Call |-> Wrote(q)] \in [Call -> BOOLEAN]
  /\ [q \in Call |-> Wrote(q)]' \in [Call -> BOOLEAN]
  BY DEF Wrote, In, Is

-----------------------------------------------------------------------------
(* A step of a call is a step of the contract, and leaves it knowing what   *)
(* it relies on.                                                            *)

Step(p) == [Contract!CNext]_(Contract!cvars) /\ Own(p)'

\* The resource a call returns.
Gets(p, e) ==
  IF Is(p, {"get"}) /\ e = "nil" THEN got' = [got EXCEPT ![p] = blob[job[p].key]] ELSE UNCHANGED got

\* A call runs as long as it has a request to make, and no answer is wrong before.
LEMMA IsRunning ==
  ASSUME ContractInv, NEW p \in Call
  PROVE  /\ Running(p) <=> pc[p] \in Request
         /\ pc[p] \in Request => p \notin misreports /\ answer[p] = "running"
         /\ TypeInv
  BY DEF ContractInv, Own, Honest, TypeInv, Control, Running, Request

\* Nothing else is asked of a call that has returned.
LEMMA DoneOwn ==
  ASSUME TypeInv, NEW p \in Call, pc'[p] = "done", Honest(p)'
  PROVE  Own(p)'
  BY DEF Own, Seen, Built, Swept

\* A misreport is never the answer that something failed.
LEMMA WrongWhat ==
  ASSUME TypeInv, NEW m \in MisreportsOf(backend)
  PROVE  /\ m[2] # "error"
         /\ m \in UNION {MisreportsOf(b) : b \in Backends}
  <1>1. backend \in Backends
    BY DEF TypeInv, TypeOK
  <1>2. m \in {<<"copy", "nil">>, <<"get", "notFound">>, <<"deleteDir", "nil">>,
               <<"stat", "notFound">>, <<"copy", "notFound">>}
    BY DEF MisreportsOf
  <1>3. QED
    BY <1>1, <1>2

\* A call that returns f, or fails if its answer is wrong.
LEMMA Answers ==
  ASSUME ContractInv, NEW p \in Call, Effect(p), NEW f \in Result, Answer(p, f),
         NEW wrong \in BOOLEAN, Misleads(p, wrong),
         wrong => <<job[p].kind, f>> \in MisreportsOf(backend),
         NEW e, e = IF wrong THEN "error" ELSE f,
         Contract!Keeps(p, e), Gets(p, e),
         Wrote(p) => /\ e # "notFound"
                     /\ e = "nil" /\ Is(p, {"copy"}) => job[p].source # job[p].key
  PROVE  Step(p)
  <1>1. /\ pc[p] \in Request /\ p \notin misreports /\ answer[p] = "running" /\ TypeInv
        /\ misreports \subseteq Call
    BY IsRunning DEF Effect, Moves, TypeInv, TypeOK
  <1>2. /\ pc' = [pc EXCEPT ![p] = "done"]
        /\ answer' = [answer EXCEPT ![p] = f]
        /\ UNCHANGED <<job, contended, fixed>>
    BY DEF Answer, Effect, Notes
  <1>3. pc'[p] = "done" /\ answer'[p] = f /\ \A q \in Call \ {p} : pc'[q] = pc[q] /\ answer'[q] = answer[q]
    BY <1>1, <1>2 DEF TypeInv, TypeOK, CallsTypeOK
  <1>4. \A q \in Call \ {p} : page'[q] = page[q] /\ (q \in misreports' <=> q \in misreports)
    BY <1>1 DEF Effect, Notes, TypeInv, TypeOK
  <1>5. p \in misreports' <=> wrong
    BY <1>1 DEF Misleads
  <1>6. \A q \in Call : Wrote(q)' <=> (q # p /\ Wrote(q))
    BY <1>2, <1>3, <1>4 DEF Wrote, In, Is, fixed
  <1>7. [q \in Call |-> Wrote(q)]' = [[q \in Call |-> Wrote(q)] EXCEPT ![p] = FALSE]
    <2> DEFINE h == [q \in Call |-> Wrote(q)]'
               g == [[q \in Call |-> Wrote(q)] EXCEPT ![p] = FALSE]
    <2>1. h \in [Call -> BOOLEAN] /\ g \in [Call -> BOOLEAN]
      BY WroteTyped
    <2>2. \A q \in Call : h[q] <=> g[q]
      BY <1>6
    <2> HIDE DEF h, g
    <2>3. h = g
      BY <2>1, <2>2, SameClaims
    <2>4. QED
      BY <2>3 DEF h, g
  <1>8. e \in Contract!Meant(job[p].kind, f) /\ misreports' = IF e = f THEN misreports ELSE misreports \cup {p}
    <2>1. CASE wrong
      BY <1>1, <2>1, WrongWhat DEF Contract!Meant, Misleads
    <2>2. CASE ~wrong
      BY <2>2 DEF Contract!Meant, Misleads
    <2>3. QED
      BY <2>1, <2>2
  <1>9. Contract!Running(p)
    BY <1>1 DEF Contract!Running
  <1>10. IF Is(p, {"get"}) /\ e = "nil"
           THEN \E v \in Stored : /\ got' = [got EXCEPT ![p] = v]
                                  /\ job[p].key \in contended[p] \/ v = blob[job[p].key]
           ELSE UNCHANGED got
    BY <1>1, CallTypes DEF Gets
  <1>11. [q \in Call |-> Wrote(q)][p] => /\ e # "notFound"
                                         /\ e = "nil" /\ Is(p, {"copy"}) => job[p].source # job[p].key
    OBVIOUS
  <1>12. Contract!Ends(p, e)
    BY <1>2, <1>7, <1>9, <1>10, <1>11, SameTerms DEF Contract!Ends, Result
  <1>13. Contract!Return(p, f) /\ f \in Contract!Result
    BY <1>2, <1>8, <1>12 DEF Contract!Return, Contract!Result, Result
  <1>14. Honest(p)'
    BY <1>2, <1>3, <1>5 DEF Honest, fixed
  <1>15. QED
    BY <1>1, <1>3, <1>13, <1>14, DoneOwn DEF Step, Contract!CNext

\* One whose answer is right.
LEMMA AnswersTruly ==
  ASSUME ContractInv, NEW p \in Call, Effect(p), NEW e \in Result, Answer(p, e),
         UNCHANGED misreports, Contract!Keeps(p, e), Gets(p, e),
         Wrote(p) => /\ e # "notFound"
                     /\ e = "nil" /\ Is(p, {"copy"}) => job[p].source # job[p].key
  PROVE  Step(p)
  BY Answers DEF Misleads

\* A call that goes on and has shown nothing.
LEMMA Stutters ==
  ASSUME ContractInv, NEW p \in Call, Effect(p), UNCHANGED <<answer, blob, got, misreports>>,
         Wrote(p)' <=> Wrote(p), Own(p)'
  PROVE  Step(p)
  <1>1. UNCHANGED <<job, contended, fixed>>
    BY DEF Effect, Moves, Notes
  <1>2. \A q \in Call \ {p} : page'[q] = page[q] /\ pc'[q] = pc[q]
    BY DEF Effect, Notes, Moves, ContractInv, TypeInv, TypeOK
  <1>3. \A q \in Call : Wrote(q)' <=> Wrote(q)
    BY <1>1, <1>2 DEF Wrote, In, Is, fixed
  <1>4. [q \in Call |-> Wrote(q)]' = [q \in Call |-> Wrote(q)]
    <2> DEFINE f == [q \in Call |-> Wrote(q)]'
               g == [q \in Call |-> Wrote(q)]
    <2>1. f \in [Call -> BOOLEAN] /\ g \in [Call -> BOOLEAN]
      BY WroteTyped
    <2>2. \A q \in Call : f[q] <=> g[q]
      BY <1>3
    <2> HIDE DEF f, g
    <2>3. f = g
      BY <2>1, <2>2, SameClaims
    <2>4. QED
      BY <2>3 DEF f, g
  <1>5. UNCHANGED Contract!cvars
    BY <1>1, <1>4 DEF Contract!cvars, Contract!calls
  <1>6. QED
    BY <1>5 DEF Step

\* A call that goes on and has written.
LEMMA Disturbs ==
  ASSUME ContractInv, NEW p \in Call, Effect(p), UNCHANGED <<answer, got, misreports>>,
         Contract!Keeps(p, "error"), Wrote(p)', Own(p)'
  PROVE  Step(p)
  <1>1. UNCHANGED <<job, contended, fixed>>
    BY DEF Effect, Moves, Notes
  <1>2. \A q \in Call \ {p} : page'[q] = page[q] /\ pc'[q] = pc[q]
    BY DEF Effect, Notes, Moves, ContractInv, TypeInv, TypeOK
  <1>3. \A q \in Call : Wrote(q)' <=> (q = p \/ Wrote(q))
    BY <1>1, <1>2 DEF Wrote, In, Is, fixed
  <1>4. [q \in Call |-> Wrote(q)]' = [[q \in Call |-> Wrote(q)] EXCEPT ![p] = TRUE]
    <2> DEFINE f == [q \in Call |-> Wrote(q)]'
               g == [[q \in Call |-> Wrote(q)] EXCEPT ![p] = TRUE]
    <2>1. f \in [Call -> BOOLEAN] /\ g \in [Call -> BOOLEAN]
      BY WroteTyped
    <2>2. \A q \in Call : f[q] <=> g[q]
      BY <1>3
    <2> HIDE DEF f, g
    <2>3. f = g
      BY <2>1, <2>2, SameClaims
    <2>4. QED
      BY <2>3 DEF f, g
  <1>5. Contract!Running(p)
    BY IsRunning DEF Contract!Running, Effect, Moves
  <1>6. Contract!Disturb(p)
    BY <1>1, <1>4, <1>5 DEF Contract!Disturb, Contract!calls
  <1>7. QED
    BY <1>6 DEF Step, Contract!CNext

-----------------------------------------------------------------------------
(* Requests that every backend makes the same way.                          *)

\* Calls that write once have not written before.
LEMMA WroteWhat ==
  ASSUME ContractInv, NEW p \in Call
  PROVE  /\ Is(p, {"stat", "get", "delete"}) => ~Wrote(p)
         /\ Is(p, {"copy"}) /\ Wrote(p) => pc[p] = "second" /\ backend = "webdav"
  BY DEF Wrote, In, Is, ContractInv, Own, Built

\* A call that returns, by its kind: its last step is its End in the contract.
LEMMA ReadAnswers ==
  ASSUME ContractInv, NEW p \in Call, Effect(p), Is(p, {"stat", "get"}),
         NEW a \in Ans, Ask(job[p].key, a), IF Is(p, {"get"}) THEN Receives(p, a) ELSE UNCHANGED got,
         NEW f \in Result, Answer(p, f), NEW wrong \in BOOLEAN, Misleads(p, wrong),
         wrong => <<job[p].kind, f>> \in MisreportsOf(backend),
         NEW e, e = IF wrong THEN "error" ELSE f,
         e = "nil" <=> a = "ok", e = "notFound" => a = "missing"
  PROVE  Step(p)
  <1>1. Contract!Keeps(p, e)
    BY KeepsRead DEF Ask, server
  <1>2. ~Wrote(p)
    BY WroteWhat DEF Is
  <1>3. Gets(p, e)
    BY DEF Gets, Receives
  <1>4. QED
    BY <1>1, <1>2, <1>3, Answers

LEMMA PutAnswers ==
  ASSUME ContractInv, NEW p \in Call, Effect(p), Is(p, {"put"}),
         NEW a \in Ans, Store(job[p].key, job[p].content, a), UNCHANGED <<got, misreports>>,
         Answer(p, Outcome(a)) \/ Answer(p, Failed(a))
  PROVE  Step(p)
  <1> DEFINE e == IF a = "ok" THEN "nil" ELSE "error"
  <1>1. a \in {"ok", "failed"}
    BY DEF Store, Ans
  <1>2. Outcome(a) = e /\ Failed(a) = e
    BY <1>1 DEF Outcome, Failed
  <1>3. PICK v : /\ blob' = [blob EXCEPT ![job[p].key] = v]
                 /\ IF e = "nil" THEN v = job[p].content ELSE v \in {blob[job[p].key], Torn, job[p].content}
    BY <1>1, CallTypes DEF Store, ContractInv
  <1>4. e \in {"nil", "error"} /\ e \in Result
    BY DEF Result
  <1> HIDE DEF e
  <1>5. Contract!Keeps(p, e)
    BY <1>3, <1>4, KeepsPut
  <1>6. Gets(p, e) /\ ~Is(p, {"copy"})
    BY DEF Gets, Is
  <1>7. QED
    BY <1>2, <1>4, <1>5, <1>6, AnswersTruly

LEMMA CopyAnswers ==
  ASSUME ContractInv, NEW p \in Call, Effect(p), Is(p, {"copy"}),
         NEW a \in Ans, StoreCopy(job[p].source, job[p].key, a), UNCHANGED got,
         NEW f \in Result, Answer(p, f), NEW wrong \in BOOLEAN, Misleads(p, wrong),
         wrong => <<job[p].kind, f>> \in MisreportsOf(backend),
         NEW e \in {"nil", "notFound", "error"}, e = IF wrong THEN "error" ELSE f,
         e = "nil" => a = "ok", e = "notFound" => a = "missing",
         Wrote(p) => /\ e # "notFound"
                     /\ e = "nil" /\ Is(p, {"copy"}) => job[p].source # job[p].key
  PROVE  Step(p)
  <1>1. Contract!Keeps(p, e)
    BY KeepsCopy DEF StoreCopy, ContractInv
  <1>2. Gets(p, e)
    BY DEF Gets, Is
  <1>3. QED
    BY <1>1, <1>2, Answers

LEMMA DeleteAnswers ==
  ASSUME ContractInv, NEW p \in Call, Effect(p), Is(p, {"delete"}),
         NEW a \in Ans, Remove(job[p].key, a), UNCHANGED <<got, misreports>>,
         NEW e \in {"nil", "notFound", "error"}, Answer(p, e),
         e = "nil" => a = "ok", e = "notFound" => a = "missing"
  PROVE  Step(p)
  <1>1. Contract!Keeps(p, e)
    BY KeepsDelete DEF Remove, ContractInv
  <1>2. Gets(p, e) /\ ~Wrote(p) /\ e \in Result
    BY WroteWhat DEF Gets, Is, Result
  <1>3. QED
    BY <1>1, <1>2, AnswersTruly

\* A call that fails without having changed anything more.
LEMMA FailsHere ==
  ASSUME ContractInv, NEW p \in Call, Effect(p), Answer(p, "error"),
         UNCHANGED <<blob, got, misreports>>
  PROVE  Step(p)
  <1>1. Contract!Keeps(p, "error") /\ Gets(p, "error") /\ "error" \in Result
    BY KeepsNothing DEF Gets, Result, ContractInv
  <1>2. QED
    BY <1>1, AnswersTruly

\* One that asks for the bucket and is told that it is there.
LEMMA GoesToSecond ==
  ASSUME ContractInv, NEW p \in Call, Effect(p), Goto(p, "second"),
         UNCHANGED <<blob, got, misreports>>, pc[p] = "first",
         ~(backend = "webdav" /\ Is(p, {"copy"}))
  PROVE  Step(p)
  <1>1. pc'[p] = "second" /\ UNCHANGED <<answer, backend, job>>
    BY DEF Goto, calls, Effect, Notes, fixed, ContractInv, TypeInv, TypeOK
  <1>2. ~Wrote(p) /\ ~Wrote(p)'
    BY <1>1 DEF Wrote, In, Is
  <1>3. Own(p)'
    BY <1>1 DEF Own, Seen, Built, Swept, Honest, ContractInv
  <1>4. QED
    BY <1>1, <1>2, <1>3, Stutters

\* A missing object leads to the question for the bucket.
LEMMA GoesToCheck ==
  ASSUME ContractInv, NEW p \in Call, Effect(p), Goto(p, "check"),
         UNCHANGED <<blob, got, misreports>>, Is(p, {"stat", "get", "copy", "delete"}),
         pc[p] = "first", ~Has(Subject(p))
  PROVE  Step(p)
  <1>1. pc'[p] = "check" /\ UNCHANGED <<answer, backend, job, contended>>
    BY DEF Goto, calls, Effect, Notes, fixed, ContractInv, TypeInv, TypeOK
  <1>2. ~Wrote(p) /\ ~Wrote(p)'
    BY <1>1 DEF Wrote, In, Is
  <1>3. Seen(p)'
    BY <1>1 DEF Seen, Subject, Has, Is
  <1>4. Own(p)'
    BY <1>1, <1>3 DEF Own, Built, Swept, Honest, ContractInv
  <1>5. QED
    BY <1>1, <1>2, <1>4, Stutters

\* After a failed request it is the answer about the bucket that decides.
LEMMA HandlesError ==
  ASSUME ContractInv, NEW p \in Call, Effect(p), pc[p] = "check", NEW a \in Ans,
         AskBucket(a), Answer(p, IF a = "ok" THEN "notFound" ELSE "error"),
         UNCHANGED <<got, misreports>>
  PROVE  Step(p)
  <1>1. UNCHANGED blob
    BY DEF AskBucket, server
  <1>2. CASE a # "ok"
    BY <1>1, <1>2, FailsHere
  <1>3. CASE a = "ok"
    <2>1. /\ Is(p, {"stat", "get", "copy", "delete"})
          /\ Uses(p) \cap contended[p] = {} => ~Has(Subject(p))
      BY DEF ContractInv, Own, Seen
    <2>2. Contract!Keeps(p, "notFound")
      <3>1. CASE Uses(p) \cap contended[p] # {}
        BY <2>1, <3>1, KeepsClash DEF Effect, Is, ContractInv
      <3>2. CASE ~Has(Subject(p)) /\ Is(p, {"copy"})
        BY <1>1, <3>2, KeepsCopy DEF Subject, ContractInv
      <3>3. CASE ~Has(Subject(p)) /\ Is(p, {"delete"})
        BY <1>1, <3>3, KeepsDelete DEF Subject, Is, ContractInv
      <3>4. CASE ~Has(Subject(p)) /\ Is(p, {"stat", "get"})
        BY <1>1, <3>4, KeepsRead DEF Subject, Is
      <3>5. QED
        BY <2>1, <3>1, <3>2, <3>3, <3>4 DEF Is
    <2>3. Gets(p, "notFound") /\ ~Wrote(p) /\ "notFound" \in Result
      BY <2>1, WroteWhat DEF Gets, Result, Is
    <2>4. QED
      BY <1>3, <2>2, <2>3, AnswersTruly
  <1>4. QED
    BY <1>2, <1>3

-----------------------------------------------------------------------------
(* DeleteDir.                                                               *)

\* A part of a page is not longer than the page.
LEMMA PartOfPage ==
  ASSUME NEW n \in Nat, NEW A \in SUBSET (1..n), NEW B \in SUBSET A,
         NEW size \in Nat, Cardinality(A) <= size
  PROVE  Cardinality(B) <= size
  <1>1. IsFiniteSet(1..n)
    BY FS_Interval
  <1>2. IsFiniteSet(A)
    BY <1>1, FS_Subset
  <1>3. IsFiniteSet(B) /\ Cardinality(B) <= Cardinality(A)
    BY <1>2, FS_Subset
  <1>4. Cardinality(A) \in Nat /\ Cardinality(B) \in Nat
    BY <1>2, <1>3, FS_CardinalityType
  <1>5. QED
    BY <1>3, <1>4

\* A page is listed: what it leaves out is beyond its marker, or was not there.
LEMMA ListsStep ==
  ASSUME ContractInv, NEW p \in Call, Is(p, {"deleteDir"}), NEW size \in Nat, Lists(p, size), Effect(p)
  PROVE  Step(p)
  <1>1. pc[p] = "list" /\ UNCHANGED <<blob, backend, got, misreports>>
    BY DEF Lists, server, fixed
  <1>2. CASE Answer(p, "error")
    BY <1>1, <1>2, FailsHere
  <1>3. CASE ListPage(p, size) /\ Goto(p, "remove")
    <2> DEFINE L == Listing[job[p].key]
               names == {i \in DOMAIN L : i > page[p].marker /\ Has(L[i])}
               todo == {i \in names : Cardinality({j \in names : j <= i}) <= size}
    <2>1. PICK last \in todo \cup {page[p].marker} :
            /\ \A i \in todo : i <= last
            /\ page' = [page EXCEPT ![p] = [@ EXCEPT !.todo = todo, !.more = names # todo, !.marker = last]]
      BY <1>3 DEF ListPage
    <2>2. pc'[p] = "remove" /\ UNCHANGED <<answer, job, contended>>
      BY <1>3 DEF Goto, calls, ContractInv, TypeInv, TypeOK
    <2>3. L \in Seq(Key) /\ page[p] \in PageOf(p) /\ TypeInv
      BY CallTypes DEF ContractInv
    <2>4. Len(L) \in Nat /\ DOMAIN L = 1..Len(L)
      BY <2>3
    <2>5. /\ page[p].marker \in Nat /\ last \in Nat /\ todo \subseteq names /\ names \subseteq 1..Len(L)
          /\ todo # {} => last \in todo
      <3>1. page[p].marker \in Nat
        BY <2>3 DEF PageOf
      <3>2. todo \subseteq names /\ names \subseteq 1..Len(L)
        BY <2>4
      <3>3. \A i \in todo : i > page[p].marker
        OBVIOUS
      <3> HIDE DEF todo, names, L
      <3>4. last \in Nat
        BY <2>4, <3>1, <3>2
      <3>5. todo # {} => last \in todo
        BY <2>1, <2>4, <3>1, <3>2, <3>3
      <3>6. QED
        BY <3>1, <3>2, <3>4, <3>5
    <2>6. /\ page'[p].todo = todo /\ page'[p].more = (names # todo)
          /\ page'[p].marker = last /\ page'[p].errs = page[p].errs
      <3> HIDE DEF todo, names
      <3>1. page'[p] = [page[p] EXCEPT !.todo = todo, !.more = names # todo, !.marker = last]
        BY <2>1 DEF ContractInv, TypeInv, TypeOK
      <3>2. QED
        BY <2>3, <3>1 DEF PageOf
    <2>7. ASSUME NEW i \in DOMAIN L, i \notin todo, i <= last \/ names = todo, Has(L[i])
          PROVE  i <= page[p].marker
      <3> SUFFICES ASSUME ~(i <= page[p].marker) PROVE FALSE
        OBVIOUS
      <3>1. i \in names
        <4>1. i \in 1..Len(L)
          BY <2>4, <2>7
        <4>2. i > page[p].marker
          BY <2>4, <2>5, <4>1
        <4>3. QED
          BY <2>7, <4>2
      <3>2. i <= last /\ last \in todo
        BY <2>4, <2>5, <2>7, <3>1
      <3> DEFINE A == {j \in names : j <= last}
                 B == {j \in names : j <= i}
      <3>3. Cardinality(A) <= size
        BY <3>2
      <3>4. A \in SUBSET (1..Len(L))
        BY <2>5
      <3>5. B \in SUBSET A
        <4> SUFFICES ASSUME NEW j \in names, j <= i PROVE j <= last
          OBVIOUS
        <4> HIDE DEF names
        <4>1. i \in 1..Len(L) /\ j \in 1..Len(L)
          BY <2>5, <3>1
        <4>2. QED
          BY <2>4, <2>5, <3>2, <4>1
      <3> HIDE DEF A, B
      <3>6. Cardinality(B) <= size
        BY <2>4, <3>3, <3>4, <3>5, PartOfPage
      <3>7. QED
        BY <2>7, <3>1, <3>6 DEF B
    <2>8. Swept(p)'
      <3>1. ASSUME NEW i \in DOMAIN L, i \notin todo, i <= last \/ names = todo, L[i] \notin contended[p]
            PROVE  page[p].errs \/ ~Has(L[i])
        BY <1>1, <2>7, <3>1 DEF ContractInv, Own, Swept, Behind
      <3>2. \A i \in DOMAIN L : Behind(p, i)' => i \notin todo /\ (i <= last \/ names = todo)
        <4> HIDE DEF todo, names
        <4>1. QED
          BY <2>2, <2>6 DEF Behind
      <3>3. page'[p].todo # {} => page'[p].marker # 0
        <4> HIDE DEF todo, names, L
        <4>1. QED
          BY <2>4, <2>5, <2>6
      <3> HIDE DEF todo, names
      <3>4. QED
        BY <1>1, <2>2, <2>6, <3>1, <3>2, <3>3 DEF Swept, Is, Has
    <2>9. Own(p)'
      BY <1>1, <2>2, <2>8 DEF Own, Seen, Built, Honest, ContractInv
    <2>10. Contract!Keeps(p, "error")
      BY <1>1, KeepsNothing DEF ContractInv
    <2>11. Wrote(p) => Wrote(p)'
      <3>1. Wrote(p) => page[p].marker # 0
        BY <1>1 DEF Wrote, In
      <3>2. page[p].marker # 0 => page'[p].marker # 0
        <4>1. page[p].marker <= last
          <5> HIDE DEF names
          <5>1. \A i \in todo : i > page[p].marker
            BY <2>5 DEF names
          <5> HIDE DEF todo
          <5>2. QED
            BY <2>1, <2>4, <2>5, <5>1
        <4> HIDE DEF todo, names
        <4>2. QED
          BY <2>5, <2>6, <4>1
      <3>3. page'[p].marker # 0 => Wrote(p)'
        BY <2>2 DEF Wrote, Is
      <3>4. QED
        BY <3>1, <3>2, <3>3
    <2>12. QED
      <3>1. CASE Wrote(p)'
        BY <1>1, <2>2, <2>9, <2>10, <3>1, Disturbs
      <3>2. CASE ~Wrote(p)'
        BY <1>1, <2>2, <2>9, <2>11, <3>2, Stutters
      <3>3. QED
        BY <3>1, <3>2
  <1>4. QED
    BY <1>2, <1>3 DEF Lists

\* An object of the page is deleted, or its failure is noted.
LEMMA DeletesStep ==
  ASSUME ContractInv, NEW p \in Call, Is(p, {"deleteDir"}),
         NEW ignored \in {{"missing"}, {}}, Deletes(p, ignored), Effect(p)
  PROVE  Step(p)
  <1>1. pc[p] = "remove" /\ UNCHANGED <<calls, pc, fixed, got, misreports>>
    BY DEF Deletes
  <1> DEFINE L == Listing[job[p].key]
  <1>2. PICK i \in page[p].todo, a \in Ans :
          /\ Remove(L[i], a)
          /\ page' = [page EXCEPT ![p] =
               [page[p] EXCEPT !.todo = @ \ {i}, !.errs = @ \/ a \notin {"ok"} \cup ignored]]
    BY DEF Deletes
  <1>3. /\ page[p] \in PageOf(p) /\ L \in Seq(Key) /\ i \in DOMAIN L
        /\ {L[j] : j \in DOMAIN L} = Under[job[p].key] /\ blob \in [Key -> Stored]
        /\ Under[job[p].key] \subseteq Key
    BY CallTypes, RemoteAssumption DEF ContractInv, PageOf
  <1>4. L[i] \in Key /\ L[i] \in Under[job[p].key]
    BY <1>3
  <1>5. /\ page'[p].todo = page[p].todo \ {i} /\ page'[p].more = page[p].more
        /\ page'[p].marker = page[p].marker
        /\ page[p].errs => page'[p].errs
        /\ a = "failed" => page'[p].errs
    BY <1>2, <1>3 DEF PageOf, ContractInv, TypeInv, TypeOK
  <1>6. \A k \in Key : blob'[k] = blob[k] \/ blob'[k] = Absent
    BY <1>2, <1>3, <1>4 DEF Remove
  <1>7. page'[p].errs \/ blob'[L[i]] = Absent
    BY <1>2, <1>3, <1>4, <1>5 DEF Remove, Has, Ans
  <1>8. Contract!Keeps(p, "error")
    <2>1. CASE UNCHANGED blob
      BY <2>1, KeepsNothing DEF ContractInv
    <2>2. CASE blob' = [blob EXCEPT ![L[i]] = Absent]
      <3>1. PICK ks \in SUBSET Under[job[p].key] : ks = {L[i]}
        BY <1>4
      <3>2. blob' = [k \in Key |-> IF k \in ks THEN Absent ELSE blob[k]]
        BY <1>3, <2>2, <3>1
      <3>3. QED
        BY <3>2, KeepsClears DEF ContractInv
    <2>3. QED
      BY <1>2, <2>1, <2>2 DEF Remove
  <1>9. page[p].marker # 0
    BY <1>1, <1>2 DEF ContractInv, Own, Swept
  <1>10. Swept(p)'
    <2>1. UNCHANGED <<job, contended, pc>>
      BY <1>1 DEF calls
    <2>2. ASSUME NEW j \in DOMAIN L, Behind(p, j)', L[j] \notin contended[p]
          PROVE  page'[p].errs \/ blob'[L[j]] = Absent
      <3>1. CASE j = i
        BY <1>7, <3>1
      <3>2. CASE j # i
        <4>1. Behind(p, j)
          BY <1>1, <1>5, <2>1, <2>2, <3>2 DEF Behind
        <4>2. page[p].errs \/ ~Has(L[j])
          BY <1>1, <2>2, <4>1 DEF ContractInv, Own, Swept
        <4>3. L[j] \in Key
          BY <1>3
        <4>4. QED
          BY <1>5, <1>6, <4>2, <4>3 DEF Has
      <3>3. QED
        BY <3>1, <3>2
    <2>3. QED
      BY <1>1, <1>5, <1>9, <2>1, <2>2 DEF Swept, Is, Has
  <1>11. Own(p)'
    BY <1>1, <1>10 DEF Own, Seen, Built, Honest, ContractInv
  <1>12. Wrote(p)'
    BY <1>1, <1>5, <1>9 DEF Wrote, Is, calls
  <1>13. QED
    BY <1>1, <1>8, <1>11, <1>12, Disturbs DEF calls

\* The next page begins where this one ended.
LEMMA NextPageStep ==
  ASSUME ContractInv, NEW p \in Call, Is(p, {"deleteDir"}), NextPage(p), Effect(p)
  PROVE  Step(p)
  <1>1. /\ pc[p] = "remove" /\ page[p].todo = {}
        /\ pc'[p] = "list" /\ UNCHANGED <<answer, job, contended, blob, page, got, misreports, backend>>
    BY DEF NextPage, Goto, calls, server, local, fixed, ContractInv, TypeInv, TypeOK
  <1>2. Wrote(p)' <=> Wrote(p)
    BY <1>1 DEF Wrote, In, Is
  <1>3. Swept(p)'
    <2>1. \A i \in DOMAIN Listing[job[p].key] : Behind(p, i)' => Behind(p, i)
      BY <1>1 DEF Behind
    <2>2. QED
      BY <1>1, <2>1 DEF ContractInv, Own, Swept, Is, Has
  <1>4. Own(p)'
    BY <1>1, <1>3 DEF Own, Seen, Built, Honest, ContractInv
  <1>5. QED
    BY <1>1, <1>2, <1>4, Stutters

\* The end of a DeleteDir; a failed deletion is an error or misreported.
LEMMA EndsStep ==
  ASSUME ContractInv, NEW p \in Call, Is(p, {"deleteDir"}), Effect(p),
         pc[p] = "remove", page[p].todo = {}, ~page[p].more,
         UNCHANGED <<blob, got>>,
         NEW f \in Result, Answer(p, f), NEW wrong \in BOOLEAN, Misleads(p, wrong),
         wrong => <<job[p].kind, f>> \in MisreportsOf(backend),
         (IF wrong THEN "error" ELSE f) = IF page[p].errs THEN "error" ELSE "nil"
  PROVE  Step(p)
  <1> DEFINE e == IF page[p].errs THEN "error" ELSE "nil"
             L == Listing[job[p].key]
  <1>1. page[p].errs \/ \A i \in DOMAIN L : L[i] \notin contended[p] => ~Has(L[i])
    BY DEF ContractInv, Own, Swept, Behind
  <1>2. \A k \in Under[job[p].key] : k \in Key /\ \E i \in DOMAIN L : k = L[i]
    BY CallTypes, RemoteAssumption DEF ContractInv
  <1>3. Contract!Keeps(p, e)
    <2>1. CASE page[p].errs
      BY <2>1, KeepsNothing DEF ContractInv
    <2>2. CASE ~page[p].errs
      <3>1. PICK none \in SUBSET Under[job[p].key] : none = {}
        OBVIOUS
      <3>2. blob' = [k \in Key |-> IF k \in none THEN Absent ELSE blob[k]]
        BY <3>1, CallTypes DEF ContractInv
      <3>3. \A k \in Under[job[p].key] \ contended[p] : blob'[k] = Absent
        BY <1>1, <1>2, <2>2 DEF Has
      <3>4. QED
        BY <2>2, <3>2, <3>3, KeepsClears DEF ContractInv
    <2>3. QED
      BY <2>1, <2>2
  <1>4. Gets(p, e) /\ e # "notFound" /\ ~Is(p, {"copy"})
    BY DEF Gets, Is
  <1>5. QED
    BY <1>3, <1>4, Answers

\* The last page is done: nothing is left below the directory, or an error was noted.
LEMMA DeletedStep ==
  ASSUME ContractInv, NEW p \in Call, Is(p, {"deleteDir"}), Deleted(p), Effect(p)
  PROVE  Step(p)
  <1>1. Misleads(p, FALSE) /\ UNCHANGED <<blob, got>>
    BY DEF Deleted, Misleads, local, server
  <1>2. QED
    BY <1>1, EndsStep DEF Deleted, Result

-----------------------------------------------------------------------------
(* The steps of each backend.                                               *)

\* One lemma for each backend: each of its requests is a step of the contract.
LEMMA S3Step ==
  ASSUME ContractInv, NEW p \in Call, S3(p)
  PROVE  Step(p)
  <1>0. Effect(p) /\ TypeInv
    BY WorksEffect DEF ContractInv, Works
  <1>1. CASE S3Exists(p)
    <2>1. PICK a \in Ans : Ask(job[p].key, a) /\ Answer(p, Outcome(a))
      BY <1>1 DEF S3Exists
    <2>2. Is(p, {"stat", "get"}) /\ ~Is(p, {"get"}) /\ UNCHANGED got /\ Misleads(p, FALSE)
      BY <1>1 DEF S3Exists, In, Is, local, Misleads
    <2>3. QED
      BY <1>0, <2>1, <2>2, Outcomes, ReadAnswers
  <1>2. CASE S3Get(p)
    <2>1. PICK a \in Ans : Ask(job[p].key, a) /\ Receives(p, a) /\ Answer(p, Outcome(a))
      BY <1>2 DEF S3Get
    <2>2. Is(p, {"stat", "get"}) /\ Is(p, {"get"}) /\ Misleads(p, FALSE)
      BY <1>2 DEF S3Get, In, Is, Misleads
    <2>3. QED
      BY <1>0, <2>1, <2>2, Outcomes, ReadAnswers
  <1>3. CASE S3Put(p)
    <2>1. Is(p, {"put"}) /\ UNCHANGED <<got, misreports>>
      BY <1>3 DEF S3Put, In, local
    <2>2. QED
      BY <1>0, <1>3, <2>1, PutAnswers DEF S3Put
  <1>4. CASE S3Copy(p)
    <2>1. PICK a \in Ans : StoreCopy(job[p].source, job[p].key, a) /\ Answer(p, Outcome(a))
      BY <1>4 DEF S3Copy
    <2>2. /\ Is(p, {"copy"}) /\ backend # "webdav"
          /\ UNCHANGED got /\ Misleads(p, FALSE)
      BY <1>4 DEF S3Copy, In, local, Misleads
    <2>3. Outcome(a) \in {"nil", "notFound", "error"} /\ Outcome(a) \in Result
      BY DEF Outcome, Ans, Result
    <2>4. QED
      BY <1>0, <2>1, <2>2, <2>3, Outcomes, WroteWhat, CopyAnswers
  <1>5. CASE S3Delete(p)
    <2>1. PICK a \in Ans : Remove(job[p].key, a) /\ Answer(p, Outcome(a))
      BY <1>5 DEF S3Delete
    <2>2. Is(p, {"delete"}) /\ UNCHANGED <<got, misreports>>
      BY <1>5 DEF S3Delete, In, local
    <2>3. Outcome(a) \in {"nil", "notFound", "error"}
      BY DEF Outcome, Ans
    <2>4. QED
      BY <1>0, <2>1, <2>2, <2>3, Outcomes, DeleteAnswers
  <1>6. CASE S3DeleteDir(p)
    <2>1. Is(p, {"deleteDir"}) /\ PageSize \in Nat /\ Len(Listing[job[p].key]) \in Nat
      BY <1>0, <1>6, RemoteAssumption, CallTypes DEF S3DeleteDir
    <2>2. QED
      BY <1>0, <1>6, <2>1, ListsStep, DeletesStep, NextPageStep, DeletedStep DEF S3DeleteDir
  <1>7. QED
    BY <1>1, <1>2, <1>3, <1>4, <1>5, <1>6 DEF S3

LEMMA GcpStep ==
  ASSUME ContractInv, NEW p \in Call, Gcp(p)
  PROVE  Step(p)
  <1>0. Effect(p) /\ TypeInv
    BY WorksEffect DEF ContractInv, Works
  <1>1. CASE GcpHandleError(p)
    <2>1. pc[p] = "check" /\ UNCHANGED <<got, misreports>>
      BY <1>1 DEF GcpHandleError, local
    <2>2. QED
      BY <1>0, <1>1, <2>1, HandlesError DEF GcpHandleError
  <1>2. CASE GcpExists(p)
    <2>1. PICK a \in Ans : Ask(job[p].key, a) /\ GcpAnswers(p, a) /\ UNCHANGED got
      BY <1>2 DEF GcpExists, local
    <2>2. /\ Is(p, {"stat"}) /\ pc[p] = "first" /\ backend = "gcp"
          /\ UNCHANGED misreports /\ Misleads(p, FALSE)
      BY <1>2 DEF GcpExists, In, local, Misleads
    <2>3. CASE a = "missing"
      <3>1. Goto(p, "check") /\ UNCHANGED <<blob, got>> /\ ~Has(Subject(p))
        BY <2>1, <2>2, <2>3 DEF GcpAnswers, Receives, Ask, StoreCopy, Remove, server, Subject, Is
      <3>2. Is(p, {"stat", "get", "copy", "delete"})
        BY <2>2 DEF Is
      <3>3. QED
        BY <1>0, <2>2, <3>1, <3>2, GoesToCheck
    <2>4. CASE a # "missing"
      <3>1. /\ Answer(p, Outcome(a)) /\ Outcome(a) \in {"nil", "notFound", "error"}
            /\ Outcome(a) \in Result /\ Is(p, {"stat", "get"}) <=> Is(p, {"stat"}) \/ Is(p, {"get"})
        BY <2>1, <2>4 DEF GcpAnswers, Outcome, Ans, Result, Is
      <3>2. QED
        BY <1>0, <2>1, <2>2, <3>1, Outcomes, WroteWhat, ReadAnswers DEF Is
    <2>5. QED
      BY <2>3, <2>4
  <1>3. CASE GcpGet(p)
    <2>1. PICK a \in Ans : Ask(job[p].key, a) /\ GcpAnswers(p, a) /\ Receives(p, a)
      BY <1>3 DEF GcpGet, local
    <2>2. /\ Is(p, {"get"}) /\ pc[p] = "first" /\ backend = "gcp"
          /\ UNCHANGED misreports /\ Misleads(p, FALSE)
      BY <1>3 DEF GcpGet, In, local, Misleads
    <2>3. CASE a = "missing"
      <3>1. Goto(p, "check") /\ UNCHANGED <<blob, got>> /\ ~Has(Subject(p))
        BY <2>1, <2>2, <2>3 DEF GcpAnswers, Receives, Ask, StoreCopy, Remove, server, Subject, Is
      <3>2. Is(p, {"stat", "get", "copy", "delete"})
        BY <2>2 DEF Is
      <3>3. QED
        BY <1>0, <2>2, <3>1, <3>2, GoesToCheck
    <2>4. CASE a # "missing"
      <3>1. /\ Answer(p, Outcome(a)) /\ Outcome(a) \in {"nil", "notFound", "error"}
            /\ Outcome(a) \in Result /\ Is(p, {"stat", "get"}) <=> Is(p, {"stat"}) \/ Is(p, {"get"})
        BY <2>1, <2>4 DEF GcpAnswers, Outcome, Ans, Result, Is
      <3>2. QED
        BY <1>0, <2>1, <2>2, <3>1, Outcomes, WroteWhat, ReadAnswers DEF Is
    <2>5. QED
      BY <2>3, <2>4
  <1>4. CASE GcpPut(p)
    <2>1. Is(p, {"put"}) /\ UNCHANGED <<got, misreports>> /\ backend = "gcp"
      BY <1>4 DEF GcpPut, In, local
    <2>2. CASE \E a \in Ans : /\ AskBucket(a) /\ pc[p] = "first"
                             /\ IF a = "ok" THEN Goto(p, "second") ELSE Answer(p, "error")
      BY <1>0, <2>1, <2>2, GoesToSecond, FailsHere DEF AskBucket, server
    <2>3. CASE \E a \in Ans : Store(job[p].key, job[p].content, a) /\ Answer(p, Outcome(a))
      BY <1>0, <2>1, <2>3, PutAnswers
    <2>4. CASE Store(job[p].key, Torn, "failed") /\ Answer(p, "error")
      <3>1. CASE UNCHANGED blob
        BY <1>0, <2>1, <2>4, <3>1, FailsHere
      <3>2. CASE blob' = [blob EXCEPT ![job[p].key] = Torn]
        <4>1. Contract!Keeps(p, "error")
          BY <2>1, <3>2, KeepsPut
        <4>2. Gets(p, "error") /\ "error" \in Result
          BY <2>1 DEF Gets, Result
        <4>3. QED
          BY <1>0, <2>1, <2>4, <4>1, <4>2, AnswersTruly
      <3>3. QED
        BY <2>4, <3>1, <3>2 DEF Store
    <2>5. QED
      BY <1>4, <2>2, <2>3, <2>4 DEF GcpPut, In
  <1>5. CASE GcpCopy(p)
    <2>1. PICK a \in Ans : StoreCopy(job[p].source, job[p].key, a) /\ GcpAnswers(p, a) /\ UNCHANGED got
      BY <1>5 DEF GcpCopy, local
    <2>2. /\ Is(p, {"copy"}) /\ pc[p] = "first" /\ backend = "gcp"
          /\ UNCHANGED misreports /\ Misleads(p, FALSE)
      BY <1>5 DEF GcpCopy, In, local, Misleads
    <2>3. CASE a = "missing"
      <3>1. Goto(p, "check") /\ UNCHANGED <<blob, got>> /\ ~Has(Subject(p))
        BY <2>1, <2>2, <2>3 DEF GcpAnswers, Receives, Ask, StoreCopy, Remove, server, Subject, Is
      <3>2. Is(p, {"stat", "get", "copy", "delete"})
        BY <2>2 DEF Is
      <3>3. QED
        BY <1>0, <2>2, <3>1, <3>2, GoesToCheck
    <2>4. CASE a # "missing"
      <3>1. /\ Answer(p, Outcome(a)) /\ Outcome(a) \in {"nil", "notFound", "error"}
            /\ Outcome(a) \in Result /\ Is(p, {"stat", "get"}) <=> Is(p, {"stat"}) \/ Is(p, {"get"})
        BY <2>1, <2>4 DEF GcpAnswers, Outcome, Ans, Result, Is
      <3>2. QED
        BY <1>0, <2>1, <2>2, <3>1, Outcomes, WroteWhat, CopyAnswers DEF Is
    <2>5. QED
      BY <2>3, <2>4
  <1>6. CASE GcpDelete(p)
    <2>1. PICK a \in Ans : Remove(job[p].key, a) /\ GcpAnswers(p, a) /\ UNCHANGED got
      BY <1>6 DEF GcpDelete, local
    <2>2. /\ Is(p, {"delete"}) /\ pc[p] = "first" /\ backend = "gcp"
          /\ UNCHANGED misreports /\ Misleads(p, FALSE)
      BY <1>6 DEF GcpDelete, In, local, Misleads
    <2>3. CASE a = "missing"
      <3>1. Goto(p, "check") /\ UNCHANGED <<blob, got>> /\ ~Has(Subject(p))
        BY <2>1, <2>2, <2>3 DEF GcpAnswers, Receives, Ask, StoreCopy, Remove, server, Subject, Is
      <3>2. Is(p, {"stat", "get", "copy", "delete"})
        BY <2>2 DEF Is
      <3>3. QED
        BY <1>0, <2>2, <3>1, <3>2, GoesToCheck
    <2>4. CASE a # "missing"
      <3>1. /\ Answer(p, Outcome(a)) /\ Outcome(a) \in {"nil", "notFound", "error"}
            /\ Outcome(a) \in Result /\ Is(p, {"stat", "get"}) <=> Is(p, {"stat"}) \/ Is(p, {"get"})
        BY <2>1, <2>4 DEF GcpAnswers, Outcome, Ans, Result, Is
      <3>2. QED
        BY <1>0, <2>1, <2>2, <3>1, Outcomes, WroteWhat, DeleteAnswers DEF Is
    <2>5. QED
      BY <2>3, <2>4
  <1>7. CASE GcpDeleteDir(p)
    <2>1. Is(p, {"deleteDir"}) /\ PageSize \in Nat /\ Len(Listing[job[p].key]) \in Nat
      BY <1>0, <1>7, RemoteAssumption, CallTypes DEF GcpDeleteDir
    <2>2. QED
      BY <1>0, <1>7, <2>1, ListsStep, DeletesStep, NextPageStep, DeletedStep DEF GcpDeleteDir
  <1>8. QED
    BY <1>1, <1>2, <1>3, <1>4, <1>5, <1>6, <1>7 DEF Gcp

\* The steps of a Put to Azure.
LEMMA AzureCreateStep ==
  ASSUME ContractInv, NEW p \in Call, AzureCreate(p)
  PROVE  Step(p)
  <1>0. Effect(p) /\ TypeInv
    BY AzureCreateEffect DEF ContractInv
  <1>1. /\ Is(p, {"put"}) /\ pc[p] = "first" /\ UNCHANGED <<got, misreports, sent, page, job, contended>>
    BY <1>0 DEF AzureCreate, In, local, Effect, Moves
  <1>2. CASE Answer(p, "error") /\ UNCHANGED server
    BY <1>0, <1>1, <1>2, FailsHere DEF server
  <1>3. CASE blob' = [blob EXCEPT ![job[p].key] = Torn]
    <2>1. Contract!Keeps(p, "error")
      BY <1>1, <1>3, KeepsPut
    <2>2. CASE Answer(p, "error")
      <3>1. Gets(p, "error") /\ "error" \in Result
        BY <1>1 DEF Gets, Result
      <3>2. QED
        BY <1>0, <1>1, <2>1, <2>2, <3>1, AnswersTruly
    <2>3. CASE Goto(p, "block")
      <3>1. pc'[p] = "block" /\ UNCHANGED answer
        BY <1>0, <2>3 DEF Goto, calls, TypeInv, TypeOK
      <3>2. sent[p] = 0 /\ Blocks[job[p].content] \in Nat
        BY <1>0, <1>1, CallTypes DEF ContractInv, Own, Built
      <3>3. Built(p)'
        BY <1>1, <3>1, <3>2 DEF Built, Is
      <3>4. Own(p)' /\ Wrote(p)'
        BY <1>1, <3>1, <3>3 DEF Own, Seen, Swept, Honest, Wrote, ContractInv
      <3>5. QED
        BY <1>0, <1>1, <2>1, <3>1, <3>4, Disturbs
    <2>4. QED
      BY <2>2, <2>3 DEF AzureCreate
  <1>4. QED
    BY <1>2, <1>3 DEF AzureCreate

LEMMA AzureBlockStep ==
  ASSUME ContractInv, NEW p \in Call, AzureBlock(p)
  PROVE  Step(p)
  <1> DEFINE c == job[p].content
             k == job[p].key
  <1>0. Effect(p) /\ TypeInv
    BY AzureBlockEffect DEF ContractInv
  <1>1. /\ Is(p, {"put"}) /\ pc[p] = "block" /\ sent[p] < Blocks[c]
        /\ UNCHANGED <<fixed, got, page, misreports>> /\ UNCHANGED blob
        /\ c \in Content /\ Blocks[c] \in Nat /\ k \in Key
    BY <1>0, CallTypes DEF AzureBlock, In, server
  <1>2. CASE Answer(p, "error")
    BY <1>0, <1>1, <1>2, FailsHere
  <1>3. CASE /\ staged' = [staged EXCEPT ![k][sent[p] + 1] = c]
             /\ sent' = [sent EXCEPT ![p] = @ + 1] /\ UNCHANGED <<calls, pc>>
    <2>1. sent[p] \in Nat /\ sent[p] + 1 \in 1..Blocks[c] /\ sent[p] + 1 \in BlockID
      <3>1. sent[p] \in Nat
        BY <1>0, RemoteAssumption DEF TypeInv, TypeOK, BlockID
      <3>2. QED
        BY <1>1, <3>1 DEF BlockID
    <2>2. sent'[p] = sent[p] + 1
      BY <1>0, <1>3 DEF TypeInv, TypeOK
    <2>3. staged \in [Key -> Staged]
      BY <1>0 DEF TypeInv, TypeOK, Staged
    <2>4. /\ staged'[k][sent[p] + 1] = c
          /\ \A i \in BlockID : i # sent[p] + 1 => staged'[k][i] = staged[k][i]
      BY <1>1, <1>3, <2>1, <2>3 DEF Staged
    <2>5. ASSUME k \notin contended[p], NEW i \in 1..(sent[p] + 1) PROVE staged'[k][i] = c
      <3>1. i \in 1..sent[p] \/ i = sent[p] + 1
        BY <2>1
      <3>2. i \in BlockID
        BY <1>1, <2>1 DEF BlockID
      <3>3. i \in 1..sent[p] => staged[k][i] = c /\ i # sent[p] + 1
        BY <1>1, <2>1, <2>5 DEF ContractInv, Own, Built
      <3>4. QED
        BY <2>4, <3>1, <3>2, <3>3
    <2>6. Built(p)'
      BY <1>1, <1>3, <2>1, <2>2, <2>5 DEF Built, Is, calls
    <2>7. Own(p)' /\ Wrote(p)' /\ Wrote(p)
      BY <1>1, <1>3, <2>6 DEF Own, Seen, Swept, Honest, Wrote, ContractInv, calls
    <2>8. QED
      BY <1>0, <1>1, <1>3, <2>7, Stutters DEF calls
  <1>4. QED
    BY <1>2, <1>3 DEF AzureBlock

LEMMA AzureCommitStep ==
  ASSUME ContractInv, NEW p \in Call, AzureCommit(p)
  PROVE  Step(p)
  <1> DEFINE c == job[p].content
             k == job[p].key
  <1>0. Effect(p) /\ TypeInv
    BY AzureCommitEffect DEF ContractInv
  <1>1. /\ Is(p, {"put"}) /\ pc[p] = "block" /\ sent[p] = Blocks[c]
        /\ UNCHANGED <<got, misreports>>
        /\ c \in Content /\ k \in Key
    BY <1>0, CallTypes DEF AzureCommit, In, local
  <1>2. PICK a \in Ans : CommitBlocks(k, sent[p], a) /\ Answer(p, Outcome(a))
    BY DEF AzureCommit
  <1>3. CASE UNCHANGED server /\ a = "failed"
    BY <1>0, <1>1, <1>2, <1>3, FailsHere DEF server, Outcome
  <1>4. CASE a # "missing" /\ blob' = [blob EXCEPT ![k] = Assembled(k, sent[p])]
    <2> DEFINE e == Outcome(a)
    <2>1. e \in {"nil", "error"} /\ e \in Result
      BY <1>4 DEF Outcome, Ans, Result
    <2> HIDE DEF e
    <2>2. CASE k \in contended[p]
      <3>1. Uses(p) \cap contended[p] # {}
        BY <2>2 DEF Uses
      <3>2. Contract!Keeps(p, e)
        BY <1>0, <1>1, <3>1, KeepsClash DEF Effect, Is
      <3>3. QED
        BY <1>0, <1>1, <1>2, <2>1, <3>2, AnswersTruly DEF Gets, Is, e
    <2>3. CASE k \notin contended[p]
      <3>1. \A i \in 1..Blocks[c] : staged[k][i] = c
        BY <1>1, <2>3 DEF ContractInv, Own, Built
      <3>2. Assembled(k, sent[p]) = c
        BY <1>1, <3>1, AssembledIs
      <3>3. Contract!Keeps(p, e)
        BY <1>1, <1>4, <2>1, <3>2, KeepsPut
      <3>4. QED
        BY <1>0, <1>1, <1>2, <2>1, <3>3, AnswersTruly DEF Gets, Is, e
    <2>4. QED
      BY <2>2, <2>3
  <1>5. QED
    BY <1>2, <1>3, <1>4 DEF CommitBlocks

LEMMA AzureStep ==
  ASSUME ContractInv, NEW p \in Call, Azure(p)
  PROVE  Step(p)
  <1>0. Effect(p) /\ TypeInv
    BY WorksEffect DEF ContractInv, Works
  <1>1. CASE AzureHandleError(p)
    <2>1. pc[p] = "check" /\ UNCHANGED <<got, misreports>>
      BY <1>1 DEF AzureHandleError, local
    <2>2. QED
      BY <1>0, <1>1, <2>1, HandlesError DEF AzureHandleError
  <1>2. CASE AzureExists(p)
    <2>1. PICK a \in Ans : Ask(job[p].key, a) /\ Answer(p, Outcome(a))
      BY <1>2 DEF AzureExists
    <2>2. Is(p, {"stat", "get"}) /\ ~Is(p, {"get"}) /\ UNCHANGED got /\ Misleads(p, FALSE)
      BY <1>2 DEF AzureExists, In, Is, local, Misleads
    <2>3. QED
      BY <1>0, <2>1, <2>2, Outcomes, ReadAnswers
  <1>3. CASE AzureGet(p)
    <2>1. PICK a \in Ans : /\ Ask(job[p].key, a) /\ Receives(p, a)
                           /\ IF a = "missing" THEN Goto(p, "check") ELSE Answer(p, Outcome(a))
      BY <1>3 DEF AzureGet
    <2>2. /\ Is(p, {"get"}) /\ pc[p] = "first" /\ UNCHANGED misreports /\ Misleads(p, FALSE)
      BY <1>3 DEF AzureGet, In, Misleads
    <2>3. CASE a = "missing"
      <3>1. Goto(p, "check") /\ UNCHANGED <<blob, got>> /\ ~Has(Subject(p))
        BY <2>1, <2>2, <2>3 DEF Receives, Ask, server, Subject, Is
      <3>2. Is(p, {"stat", "get", "copy", "delete"})
        BY <2>2 DEF Is
      <3>3. QED
        BY <1>0, <2>2, <3>1, <3>2, GoesToCheck
    <2>4. CASE a # "missing"
      <3>1. Is(p, {"stat", "get"})
        BY <2>2 DEF Is
      <3>2. QED
        BY <1>0, <2>1, <2>2, <2>4, <3>1, Outcomes, ReadAnswers
    <2>5. QED
      BY <2>3, <2>4
  <1>4. CASE AzureCreate(p) \/ AzureBlock(p) \/ AzureCommit(p)
    BY <1>4, AzureCreateStep, AzureBlockStep, AzureCommitStep
  <1>5. CASE AzureCopy(p)
    <2>1. PICK a \in Ans : StoreCopy(job[p].source, job[p].key, a) /\ Misleads(p, a # "ok")
      BY <1>5 DEF AzureCopy
    <2>2. /\ Is(p, {"copy"}) /\ backend # "webdav" /\ Answer(p, "nil") /\ UNCHANGED got
      BY <1>5 DEF AzureCopy, In
    <2> DEFINE e == IF a # "ok" THEN "error" ELSE "nil"
    <2>3. /\ e \in {"nil", "notFound", "error"} /\ "nil" \in Result
          /\ <<job[p].kind, "nil">> \in MisreportsOf(backend)
      BY <1>5, <2>2 DEF Result, AzureCopy, In, Is, MisreportsOf
    <2>4. QED
      BY <1>0, <2>1, <2>2, <2>3, WroteWhat, CopyAnswers
  <1>6. CASE AzureDelete(p)
    <2>1. PICK a \in Ans : Remove(job[p].key, a) /\ Answer(p, Outcome(a))
      BY <1>6 DEF AzureDelete
    <2>2. Is(p, {"delete"}) /\ UNCHANGED <<got, misreports>>
      BY <1>6 DEF AzureDelete, In, local
    <2>3. Outcome(a) \in {"nil", "notFound", "error"}
      BY DEF Outcome, Ans
    <2>4. QED
      BY <1>0, <2>1, <2>2, <2>3, Outcomes, DeleteAnswers
  <1>7. CASE AzureDeleteDir(p)
    <2>1. Is(p, {"deleteDir"}) /\ PageSize \in Nat /\ Len(Listing[job[p].key]) \in Nat
      BY <1>0, <1>7, RemoteAssumption, CallTypes DEF AzureDeleteDir
    <2>2. QED
      BY <1>0, <1>7, <2>1, ListsStep, DeletesStep, NextPageStep, DeletedStep DEF AzureDeleteDir
  <1>8. QED
    BY <1>1, <1>2, <1>3, <1>4, <1>5, <1>6, <1>7 DEF Azure

LEMMA OpenstackStep ==
  ASSUME ContractInv, NEW p \in Call, Openstack(p)
  PROVE  Step(p)
  <1>0. Effect(p) /\ TypeInv
    BY WorksEffect DEF ContractInv, Works
  <1>1. CASE OpenstackContainerExists(p)
    <2>1. /\ backend = "openstack" /\ pc[p] = "first" /\ UNCHANGED <<got, misreports, page, backend, blob>>
      BY <1>1 DEF OpenstackContainerExists, local, fixed, AskBucket, server
    <2>2. CASE Answer(p, "error")
      BY <1>0, <2>1, <2>2, FailsHere
    <2>3. CASE Goto(p, "second")
      BY <1>0, <2>1, <2>3, GoesToSecond
    <2>4. CASE Goto(p, "list") /\ Is(p, {"deleteDir"})
      <3>1. pc'[p] = "list" /\ UNCHANGED <<answer, job, contended>>
        BY <1>0, <2>4 DEF Goto, calls, TypeInv, TypeOK
      <3>2. page[p].marker = 0
        BY <2>1 DEF ContractInv, Own, Swept
      <3>3. ~Wrote(p) /\ ~Wrote(p)'
        BY <2>1, <3>1, <3>2 DEF Wrote, In, Is
      <3>4. \A i \in DOMAIN Listing[job[p].key] : ~Behind(p, i)'
        <4>1. Listing[job[p].key] \in Seq(Key)
          BY <1>0, CallTypes
        <4>2. \A i \in DOMAIN Listing[job[p].key] : i \in Nat /\ i > 0
          BY <4>1
        <4>3. QED
          BY <2>1, <3>1, <3>2, <4>2 DEF Behind
      <3>5. Swept(p)'
        BY <2>1, <2>4, <3>1, <3>4 DEF Swept, Is
      <3>6. Own(p)'
        BY <2>1, <3>1, <3>5 DEF Own, Seen, Built, Honest, ContractInv
      <3>7. QED
        BY <1>0, <2>1, <3>1, <3>3, <3>6, Stutters
    <2>5. QED
      BY <1>1, <2>2, <2>3, <2>4 DEF OpenstackContainerExists
  <1>2. CASE OpenstackExists(p)
    <2>1. PICK a \in Ans : Ask(job[p].key, a) /\ Answer(p, Outcome(a))
      BY <1>2 DEF OpenstackExists
    <2>2. Is(p, {"stat", "get"}) /\ ~Is(p, {"get"}) /\ UNCHANGED got /\ Misleads(p, FALSE)
      BY <1>2 DEF OpenstackExists, In, Is, local, Misleads
    <2>3. QED
      BY <1>0, <2>1, <2>2, Outcomes, ReadAnswers
  <1>3. CASE OpenstackGet(p)
    <2>1. PICK a \in Ans : /\ Ask(job[p].key, a) /\ Receives(p, a) /\ Answer(p, Outcome(a))
                           /\ Misleads(p, a = "missing" /\ ~bucket)
      BY <1>3 DEF OpenstackGet
    <2>2. Is(p, {"stat", "get"}) /\ Is(p, {"get"})
      BY <1>3 DEF OpenstackGet, In, Is
    <2> DEFINE wrong == a = "missing" /\ ~bucket
               e == IF wrong THEN "error" ELSE Outcome(a)
    <2>3. /\ wrong \in BOOLEAN /\ (e = "nil" <=> a = "ok") /\ (e = "notFound" => a = "missing")
          /\ wrong => <<job[p].kind, Outcome(a)>> \in MisreportsOf(backend)
      BY <1>3, <2>2, Outcomes DEF OpenstackGet, In, Is, MisreportsOf, Outcome
    <2>4. QED
      BY <1>0, <2>1, <2>2, <2>3, Outcomes, ReadAnswers
  <1>4. CASE OpenstackPut(p)
    <2>1. Is(p, {"put"}) /\ UNCHANGED <<got, misreports>>
      BY <1>4 DEF OpenstackPut, In, local
    <2>2. QED
      BY <1>0, <1>4, <2>1, PutAnswers DEF OpenstackPut
  <1>5. CASE OpenstackCopy(p)
    <2>1. PICK a \in Ans : StoreCopy(job[p].source, job[p].key, a) /\ Answer(p, Outcome(a))
      BY <1>5 DEF OpenstackCopy
    <2>2. /\ Is(p, {"copy"}) /\ backend # "webdav"
          /\ UNCHANGED got /\ Misleads(p, FALSE)
      BY <1>5 DEF OpenstackCopy, In, local, Misleads
    <2>3. Outcome(a) \in {"nil", "notFound", "error"} /\ Outcome(a) \in Result
      BY DEF Outcome, Ans, Result
    <2>4. QED
      BY <1>0, <2>1, <2>2, <2>3, Outcomes, WroteWhat, CopyAnswers
  <1>6. CASE OpenstackDelete(p)
    <2>1. PICK a \in Ans : Remove(job[p].key, a) /\ Answer(p, Outcome(a))
      BY <1>6 DEF OpenstackDelete
    <2>2. Is(p, {"delete"}) /\ UNCHANGED <<got, misreports>>
      BY <1>6 DEF OpenstackDelete, In, local
    <2>3. Outcome(a) \in {"nil", "notFound", "error"}
      BY DEF Outcome, Ans
    <2>4. QED
      BY <1>0, <2>1, <2>2, <2>3, Outcomes, DeleteAnswers
  <1>7. CASE OpenstackDeleteDir(p)
    <2>1. Is(p, {"deleteDir"}) /\ PageSize \in Nat /\ Len(Listing[job[p].key]) \in Nat
      BY <1>0, <1>7, RemoteAssumption, CallTypes DEF OpenstackDeleteDir
    <2>2. QED
      BY <1>0, <1>7, <2>1, ListsStep, DeletesStep, NextPageStep, DeletedStep DEF OpenstackDeleteDir
  <1>8. QED
    BY <1>1, <1>2, <1>3, <1>4, <1>5, <1>6, <1>7 DEF Openstack

LEMMA AlibabaStep ==
  ASSUME ContractInv, NEW p \in Call, Alibaba(p)
  PROVE  Step(p)
  <1>0. Effect(p) /\ TypeInv
    BY WorksEffect DEF ContractInv, Works
  <1>1. CASE AlibabaBucketExists(p)
    <2>1. /\ backend = "alibaba" /\ pc[p] = "first" /\ UNCHANGED <<got, misreports, blob>>
      BY <1>1 DEF AlibabaBucketExists, local, AskBucket, server
    <2>2. QED
      BY <1>0, <1>1, <2>1, FailsHere, GoesToSecond DEF AlibabaBucketExists
  <1>2. CASE AlibabaExists(p)
    <2>1. PICK a \in Ans : Ask(job[p].key, a) /\ Answer(p, Outcome(a))
      BY <1>2 DEF AlibabaExists
    <2>2. Is(p, {"stat", "get"}) /\ ~Is(p, {"get"}) /\ UNCHANGED got /\ Misleads(p, FALSE)
      BY <1>2 DEF AlibabaExists, In, Is, local, Misleads
    <2>3. QED
      BY <1>0, <2>1, <2>2, Outcomes, ReadAnswers
  <1>3. CASE AlibabaGet(p)
    <2>1. PICK a \in Ans : /\ Ask(job[p].key, a) /\ Receives(p, a)
                           /\ Answer(p, IF a = "ok" THEN "nil" ELSE "notFound")
                           /\ Misleads(p, a = "failed")
      BY <1>3 DEF AlibabaGet
    <2>2. Is(p, {"stat", "get"}) /\ Is(p, {"get"})
      BY <1>3 DEF AlibabaGet, In, Is
    <2> DEFINE f == IF a = "ok" THEN "nil" ELSE "notFound"
               e == IF a = "failed" THEN "error" ELSE f
    <2>3. /\ f \in Result /\ (e = "nil" <=> a = "ok") /\ (e = "notFound" => a = "missing")
          /\ a = "failed" => <<job[p].kind, f>> \in MisreportsOf(backend)
      BY <1>3, <2>2 DEF Result, Ans, AlibabaGet, In, Is, MisreportsOf
    <2>4. QED
      BY <1>0, <2>1, <2>2, <2>3, ReadAnswers
  <1>4. CASE AlibabaPut(p)
    <2>1. Is(p, {"put"}) /\ UNCHANGED <<got, misreports>>
      BY <1>4 DEF AlibabaPut, In, local
    <2>2. QED
      BY <1>0, <1>4, <2>1, PutAnswers DEF AlibabaPut
  <1>5. CASE AlibabaCopy(p)
    <2>1. PICK a \in Ans : StoreCopy(job[p].source, job[p].key, a) /\ Answer(p, Failed(a))
      BY <1>5 DEF AlibabaCopy
    <2>2. /\ Is(p, {"copy"}) /\ backend # "webdav"
          /\ UNCHANGED got /\ Misleads(p, FALSE)
      BY <1>5 DEF AlibabaCopy, In, local, Misleads
    <2>3. Failed(a) \in {"nil", "notFound", "error"} /\ Failed(a) \in Result
      BY DEF Failed, Ans, Result
    <2>4. QED
      BY <1>0, <2>1, <2>2, <2>3, Outcomes, WroteWhat, CopyAnswers
  <1>6. CASE AlibabaDelete(p)
    <2>1. PICK a \in Ans : Remove(job[p].key, a) /\ Answer(p, Failed(a))
      BY <1>6 DEF AlibabaDelete
    <2>2. Is(p, {"delete"}) /\ UNCHANGED <<got, misreports>>
      BY <1>6 DEF AlibabaDelete, In, local
    <2>3. Failed(a) \in {"nil", "notFound", "error"}
      BY DEF Failed, Ans
    <2>4. QED
      BY <1>0, <2>1, <2>2, <2>3, Outcomes, DeleteAnswers
  <1>7. CASE AlibabaDeleteDir(p)
    <2>1. /\ Is(p, {"deleteDir"}) /\ PageSize \in Nat /\ page[p].errs \in BOOLEAN
          /\ <<job[p].kind, "nil">> \in MisreportsOf(backend)
      BY <1>0, <1>7, RemoteAssumption, CallTypes DEF AlibabaDeleteDir, PageOf, Is, MisreportsOf
    <2>2. CASE /\ pc[p] = "remove" /\ page[p].todo = {} /\ ~page[p].more
               /\ Answer(p, "nil") /\ Misleads(p, page[p].errs)
               /\ UNCHANGED <<server, fixed, got, sent, page, kills>>
      BY <1>0, <2>1, <2>2, EndsStep DEF server, Result
    <2>3. QED
      BY <1>0, <1>7, <2>1, <2>2, ListsStep, DeletesStep, NextPageStep DEF AlibabaDeleteDir
  <1>8. QED
    BY <1>1, <1>2, <1>3, <1>4, <1>5, <1>6, <1>7 DEF Alibaba

\* With webdav, which empties the destination before it asks for the copy,
\* no call copies a resource onto itself.
NoSelfCopy == "webdav" \in Backends => \A j \in Jobs : j.kind = "copy" => j.source # j.key

LEMMA WebdavStep ==
  ASSUME ContractInv, NEW p \in Call, Webdav(p), NoSelfCopy
  PROVE  Step(p)
  <1>0. Effect(p) /\ TypeInv
    BY WorksEffect DEF ContractInv, Works
  <1>1. CASE WebdavExists(p)
    <2>1. PICK e \in {"nil", "notFound", "error"}, a \in Ans :
            /\ Ask(job[p].key, a) /\ (e = Outcome(a) \/ (a = "failed" /\ e = "notFound"))
            /\ Misleads(p, a = "failed" /\ e = "notFound") /\ Answer(p, e)
      BY <1>1 DEF WebdavExists, WebdavHead
    <2>2. Is(p, {"stat", "get"}) /\ ~Is(p, {"get"}) /\ UNCHANGED got
      BY <1>1 DEF WebdavExists, In, Is
    <2> DEFINE wrong == a = "failed" /\ e = "notFound"
               r == IF wrong THEN "error" ELSE e
    <2>3. /\ wrong \in BOOLEAN /\ e \in Result
          /\ (r = "nil" <=> a = "ok") /\ (r = "notFound" => a = "missing")
          /\ wrong => <<job[p].kind, e>> \in MisreportsOf(backend)
      BY <1>1, <2>1, Outcomes DEF Result, WebdavExists, In, Is, MisreportsOf
    <2>4. QED
      BY <1>0, <2>1, <2>2, <2>3, ReadAnswers
  <1>2. CASE WebdavGet(p)
    <2>1. Is(p, {"stat", "get"}) /\ Is(p, {"get"}) /\ <<job[p].kind, "notFound">> \in MisreportsOf(backend)
      BY <1>2 DEF WebdavGet, In, Is, MisreportsOf
    <2>2. CASE /\ pc[p] = "first" /\ UNCHANGED got
               /\ \E e \in {"nil", "notFound", "error"} :
                    WebdavHead(p, e) /\ IF e = "nil" THEN Goto(p, "second") ELSE Answer(p, e)
      <3>1. PICK e \in {"nil", "notFound", "error"}, a \in Ans :
              /\ Ask(job[p].key, a) /\ (e = Outcome(a) \/ (a = "failed" /\ e = "notFound"))
              /\ Misleads(p, a = "failed" /\ e = "notFound")
              /\ IF e = "nil" THEN Goto(p, "second") ELSE Answer(p, e)
        BY <2>2 DEF WebdavHead
      <3>2. CASE e = "nil"
        <4>1. UNCHANGED <<blob, misreports>>
          BY <3>1, <3>2 DEF Ask, server, Misleads
        <4>2. QED
          BY <1>0, <2>1, <2>2, <3>1, <3>2, <4>1, GoesToSecond DEF Is
      <3>3. CASE e # "nil"
        <4> DEFINE wrong == a = "failed" /\ e = "notFound"
                   r == IF wrong THEN "error" ELSE e
        <4>1. /\ wrong \in BOOLEAN /\ e \in Result
              /\ (r = "nil" <=> a = "ok") /\ (r = "notFound" => a = "missing")
          BY <3>1, <3>3, Outcomes DEF Result
        <4>2. a # "ok"
          BY <3>1, <3>3, Outcomes
        <4>3. Receives(p, a)
          BY <2>2, <4>2 DEF Receives
        <4>4. QED
          BY <1>0, <2>1, <3>1, <3>3, <4>1, <4>3, ReadAnswers
      <3>4. QED
        BY <3>2, <3>3
    <2>3. CASE /\ UNCHANGED misreports
               /\ \E a \in Ans : Ask(job[p].key, a) /\ Receives(p, a) /\ Answer(p, Failed(a))
      BY <1>0, <2>1, <2>3, Outcomes, ReadAnswers DEF Misleads
    <2>4. QED
      BY <1>2, <2>2, <2>3 DEF WebdavGet, In
  <1>3. CASE WebdavPut(p)
    <2>1. Is(p, {"put"}) /\ UNCHANGED <<got, misreports>>
      BY <1>3 DEF WebdavPut, In, local
    <2>2. QED
      BY <1>0, <1>3, <2>1, PutAnswers DEF WebdavPut
  <1>4. CASE WebdavCopy(p)
    <2>1. Is(p, {"copy"}) /\ backend = "webdav" /\ UNCHANGED <<got, job, contended>>
      BY <1>0, <1>4 DEF WebdavCopy, In, local, Effect, Moves
    <2>2. CASE /\ pc[p] = "first" /\ UNCHANGED misreports
               /\ \E a \in Ans : /\ Store(job[p].key, Torn, a)
                                 /\ IF a = "ok" THEN Goto(p, "second") ELSE Answer(p, "error")
      <3>1. CASE UNCHANGED blob /\ Answer(p, "error")
        BY <1>0, <2>1, <2>2, <3>1, FailsHere
      <3>2. CASE blob' = [blob EXCEPT ![job[p].key] = Torn]
        <4>1. Contract!Keeps(p, "error")
          BY <1>0, <2>1, <3>2, KeepsCopy
        <4>2. CASE Answer(p, "error")
          BY <1>0, <2>1, <2>2, <4>1, <4>2, AnswersTruly DEF Gets, Is, Result
        <4>3. CASE Goto(p, "second")
          <5>1. pc'[p] = "second" /\ UNCHANGED <<answer, backend>>
            BY <1>0, <4>3 DEF Goto, calls, TypeInv, TypeOK, Effect, Notes, fixed
          <5>2. Own(p)' /\ Wrote(p)'
            BY <2>1, <2>2, <5>1 DEF Own, Seen, Built, Swept, Honest, Wrote, In, Is, ContractInv
          <5>3. QED
            BY <1>0, <2>1, <2>2, <4>1, <5>1, <5>2, Disturbs
        <4>4. QED
          BY <2>2, <4>2, <4>3
      <3>3. QED
        BY <2>2, <3>1, <3>2 DEF Store
    <2>3. CASE \E a \in Ans : /\ StoreCopy(job[p].source, job[p].key, a) /\ Answer(p, Outcome(a))
                              /\ Misleads(p, a = "missing")
      <3>1. PICK a \in Ans : /\ StoreCopy(job[p].source, job[p].key, a) /\ Answer(p, Outcome(a))
                             /\ Misleads(p, a = "missing")
        BY <2>3
      <3> DEFINE e == IF a = "missing" THEN "error" ELSE Outcome(a)
      <3>2. /\ e \in {"nil", "notFound", "error"} /\ Outcome(a) \in Result
            /\ e # "notFound" /\ (e = "nil" => a = "ok")
            /\ a = "missing" => <<job[p].kind, Outcome(a)>> \in MisreportsOf(backend)
        BY <2>1 DEF Outcome, Ans, Result, Is, MisreportsOf
      <3>3. job[p].source # job[p].key
        BY <1>0, <2>1, CallTypes DEF NoSelfCopy, Is, TypeInv, TypeOK
      <3>4. QED
        BY <1>0, <2>1, <3>1, <3>2, <3>3, CopyAnswers
    <2>4. QED
      BY <1>4, <2>2, <2>3 DEF WebdavCopy, In, local
  <1>5. CASE WebdavDelete(p)
    <2>1. PICK a \in Ans : Remove(job[p].key, a) /\ Answer(p, Failed(a))
      BY <1>5 DEF WebdavDelete
    <2>2. Is(p, {"delete"}) /\ UNCHANGED <<got, misreports>>
      BY <1>5 DEF WebdavDelete, In, local
    <2>3. Failed(a) \in {"nil", "notFound", "error"}
      BY DEF Failed, Ans
    <2>4. QED
      BY <1>0, <2>1, <2>2, <2>3, Outcomes, DeleteAnswers
  <1>6. CASE WebdavDeleteDir(p)
    <2>1. Is(p, {"deleteDir"}) /\ pc[p] = "first" /\ UNCHANGED <<got, misreports>>
      BY <1>6 DEF WebdavDeleteDir, In, local
    <2>2. PICK a \in Ans, gone \in SUBSET Under[job[p].key] :
            /\ a = "ok" => gone = Under[job[p].key]
            /\ a = "missing" => gone = {} /\ \A k \in Under[job[p].key] : ~Has(k)
            /\ blob' = [k \in Key |-> IF k \in gone THEN Absent ELSE blob[k]]
            /\ Answer(p, Outcome(a))
      BY <1>6 DEF WebdavDeleteDir
    <2>3. Outcome(a) \in {"nil", "notFound", "error"} /\ Outcome(a) \in Result
      BY DEF Outcome, Ans, Result
    <2>4. Contract!Keeps(p, Outcome(a))
      <3>1. a = "ok" => \A k \in Under[job[p].key] \ contended[p] : blob'[k] = Absent
        BY <1>0, <2>2, CallTypes
      <3>2. QED
        BY <1>0, <2>1, <2>2, <2>3, <3>1, Outcomes, KeepsClears
    <2>5. Gets(p, Outcome(a)) /\ ~Wrote(p)
      BY <2>1 DEF Gets, Is, Wrote, In
    <2>6. QED
      BY <1>0, <2>1, <2>2, <2>3, <2>4, <2>5, AnswersTruly
  <1>7. QED
    BY <1>1, <1>2, <1>3, <1>4, <1>5, <1>6 DEF Webdav

\* Whatever the backend, a step of a call is one of the contract.
LEMMA WorksStep ==
  ASSUME ContractInv, NoSelfCopy, NEW p \in Call, Works(p)
  PROVE  Step(p)
  BY S3Step, GcpStep, AzureStep, OpenstackStep, AlibabaStep, WebdavStep DEF Works

-----------------------------------------------------------------------------
(* What the calls rely on stays true.                                       *)

\* A call leaves what the others rely on: they know it as a writer.
LEMMA OthersOwn ==
  ASSUME ContractInv, NEW p \in Call, Effect(p), NEW q \in Call \ {p}
  PROVE  Own(q)'
  <1>1. /\ UNCHANGED <<job, contended>> /\ pc'[q] = pc[q] /\ sent'[q] = sent[q]
        /\ page'[q] = page[q] /\ (q \in misreports' <=> q \in misreports)
    BY DEF Effect, Moves, Notes, ContractInv, TypeInv, TypeOK
  <1>2. ASSUME pc[q] \in Request PROVE Writes(p) \subseteq contended[q]
    BY <1>2, IsRunning DEF ContractInv, Crowded, Effect, Moves
  <1>3. \A k \in Key : pc[q] \in Request /\ k \notin contended[q] =>
          blob'[k] = blob[k] /\ \A i \in BlockID : staged'[k][i] = staged[k][i]
    <2> SUFFICES ASSUME NEW k \in Key, pc[q] \in Request, k \notin contended[q]
                 PROVE  blob'[k] = blob[k] /\ \A i \in BlockID : staged'[k][i] = staged[k][i]
      OBVIOUS
    <2>1. k \notin Writes(p)
      BY <1>2
    <2>2. QED
      BY <2>1, WritesWhat DEF Effect, Touches, Stages
  <1>4. job[q].key \in Key /\ job[q].source \in Key /\ Listing[job[q].key] \in Seq(Key)
    BY CallTypes DEF ContractInv
  <1>5. Seen(q)'
    <2>1. Subject(q) \in Uses(q) /\ Subject(q) \in Key
      BY <1>4 DEF Subject, Uses
    <2>2. pc[q] = "check" /\ Uses(q) \cap contended[q] = {} => blob'[Subject(q)] = blob[Subject(q)]
      BY <1>3, <2>1 DEF Request
    <2>3. QED
      BY <1>1, <2>2 DEF ContractInv, Own, Seen, Is, Uses, Subject, Has
  <1>6. Built(q)'
    <2>1. ASSUME pc[q] = "block", NEW i \in 1..sent[q] PROVE i \in BlockID
      <3>1. job[q].content \in Content /\ sent[q] <= Blocks[job[q].content]
            /\ Blocks[job[q].content] \in Nat
        BY <2>1, CallTypes DEF ContractInv, Own, Built
      <3>2. sent[q] \in Nat
        BY RemoteAssumption DEF ContractInv, TypeInv, TypeOK, BlockID
      <3>3. i \in 1..Blocks[job[q].content]
        BY <3>1, <3>2
      <3>4. QED
        BY <3>1, <3>3 DEF BlockID
    <2>2. QED
      BY <1>1, <1>3, <1>4, <2>1 DEF ContractInv, Own, Built, Is, Request
  <1>7. Swept(q)'
    <2>1. \A i \in DOMAIN Listing[job[q].key] : Listing[job[q].key][i] \in Key
      BY <1>4
    <2>2. \A i \in DOMAIN Listing[job[q].key] : Behind(q, i)' <=> Behind(q, i)
      BY <1>1 DEF Behind
    <2>3. QED
      BY <1>1, <1>3, <2>1, <2>2 DEF ContractInv, Own, Swept, Is, Has, Request
  <1>8. Honest(q)'
    <2>1. answer'[q] = answer[q] /\ backend' = backend
      BY DEF Effect, Moves, Notes, fixed, ContractInv, TypeInv, TypeOK, CallsTypeOK
    <2>2. QED
      BY <1>1, <2>1 DEF ContractInv, Own, Honest
  <1>9. QED
    BY <1>5, <1>6, <1>7, <1>8 DEF Own

\* The invariant after a step of a call.
LEMMA InvWorks ==
  ASSUME ContractInv, NoSelfCopy, NEW p \in Call, Works(p)
  PROVE  ContractInv'
  <1>1. Effect(p) /\ TypeInv'
    BY WorksEffect, TypeEffect DEF ContractInv
  <1>2. Own(p)'
    BY WorksStep DEF Step
  <1>3. Crowded'
    <2>1. UNCHANGED <<job, contended>> /\ \A q \in Call : Running(q)' => Running(q)
      BY <1>1, IsRunning DEF Effect, Moves, Running, ContractInv, TypeInv, TypeOK, CallsTypeOK
    <2>2. QED
      BY <2>1 DEF ContractInv, Crowded, Writes, Is
  <1>4. QED
    BY <1>1, <1>2, <1>3, OthersOwn DEF ContractInv

\* What starts has done nothing yet.
LEMMA InvStart ==
  ASSUME ContractInv, NEW p \in Call, Start(p)
  PROVE  ContractInv' /\ Contract!Begin(p)
  <1>1. TypeInv' /\ TypeInv
    BY TypeStart DEF ContractInv
  <1>2. /\ answer[p] = "idle" /\ pc[p] = "idle" /\ p \notin misreports
        /\ page[p].marker = 0 /\ sent[p] = 0
        /\ UNCHANGED <<job, fixed, server, local>>
    BY DEF Start, Begins, ContractInv, TypeInv, Control, Own, Built, Swept, Honest
  <1>3. /\ answer' = [answer EXCEPT ![p] = "running"]
        /\ contended' = [q \in Call |->
             IF q = p THEN UNION {Writes(r) : r \in {s \in Call : Running(s)}}
             ELSE contended[q] \cup (IF Running(q) THEN Writes(p) ELSE {})]
        /\ pc'[p] = "first" \/ (pc'[p] = "list" /\ Is(p, {"deleteDir"}))
        /\ \A q \in Call \ {p} : pc'[q] = pc[q]
    BY <1>1 DEF Start, Begins, TypeInv, TypeOK
  <1>4. \A q \in Call : (Running(q)' <=> (q = p \/ Running(q))) /\ Writes(q)' = Writes(q)
    BY <1>1, <1>2, <1>3 DEF Running, Writes, Is, TypeInv, TypeOK, CallsTypeOK
  <1>5. Crowded'
    <2> SUFFICES ASSUME NEW q \in Call, NEW r \in Call, q # r, Running(q)', Running(r)'
                 PROVE  Writes(r) \subseteq contended'[q]
      BY <1>4 DEF Crowded
    <2>1. CASE q = p
      <3>1. Running(r)
        BY <1>4, <2>1
      <3>2. QED
        BY <1>3, <2>1, <3>1
    <2>2. CASE q # p /\ r = p
      <3>1. Running(q)
        BY <1>4, <2>2
      <3>2. QED
        BY <1>3, <2>2, <3>1
    <2>3. CASE q # p /\ r # p
      <3>1. Running(q) /\ Running(r) /\ contended[q] \subseteq contended'[q]
        BY <1>3, <1>4, <2>3
      <3>2. QED
        BY <3>1 DEF ContractInv, Crowded
    <2>4. QED
      BY <2>1, <2>2, <2>3
  <1>6. Own(p)'
    <2>1. Listing[job[p].key] \in Seq(Key)
      BY <1>1, CallTypes
    <2>2. \A i \in DOMAIN Listing[job[p].key] : i \in Nat /\ i > 0
      BY <2>1
    <2>3. pc'[p] = "list" => \A i \in DOMAIN Listing[job[p].key] : ~Behind(p, i)'
      BY <1>2, <2>2 DEF Behind, local
    <2>4. Swept(p)'
      BY <1>2, <1>3, <2>3 DEF Swept, Is, local
    <2>5. QED
      BY <1>2, <1>3, <2>4 DEF Own, Seen, Built, Honest, local
  <1>7. ASSUME NEW q \in Call \ {p} PROVE Own(q)'
    <2>1. contended[q] \subseteq contended'[q] /\ pc'[q] = pc[q]
      BY <1>3
    <2>2. Seen(q)' /\ Built(q)'
      BY <1>2, <2>1 DEF ContractInv, Own, Seen, Built, Is, Uses, Subject, Has, server, local
    <2>6. Honest(q)'
      BY <1>1, <1>2, <1>3, <2>1 DEF ContractInv, Own, Honest, TypeInv, TypeOK, CallsTypeOK, fixed, local
    <2>3. \A i \in DOMAIN Listing[job[q].key] : Behind(q, i)' <=> Behind(q, i)
      BY <1>2, <2>1 DEF Behind, local
    <2>4. Swept(q)'
      BY <1>2, <2>1, <2>3 DEF ContractInv, Own, Swept, Is, Has, server, local
    <2>5. QED
      BY <2>2, <2>4, <2>6 DEF Own
  <1>8. ContractInv'
    BY <1>1, <1>5, <1>6, <1>7 DEF ContractInv
  <1>9. Contract!Begin(p)
    <2>3. \A q \in Call : Contract!Running(q) <=> Running(q)
      BY DEF Contract!Running, Running
    <2>4. {s \in Call : Contract!Running(s)} = {s \in Call : Running(s)}
      BY <2>3
    <2>5. {Contract!Writes(r) : r \in {s \in Call : Contract!Running(s)}}
            = {Writes(r) : r \in {s \in Call : Running(s)}}
      BY <2>4, SameTerms
    <2>6. contended' = [q \in Call |->
             IF q = p THEN UNION {Contract!Writes(r) : r \in {s \in Call : Contract!Running(s)}}
             ELSE contended[q] \cup (IF Contract!Running(q) THEN Contract!Writes(p) ELSE {})]
      BY <1>3, <2>3, <2>5, SameTerms
    <2>7. Contract!Begins(p)
      BY <1>2, <1>3, <2>6 DEF Contract!Begins
    <2>8. \A q \in Call : Wrote(q)' <=> Wrote(q)
      BY <1>1, <1>2, <1>3 DEF Wrote, In, Is, fixed, local
    <2>9. [q \in Call |-> Wrote(q)]' = [q \in Call |-> Wrote(q)]
      <3> DEFINE f == [q \in Call |-> Wrote(q)]'
                 g == [q \in Call |-> Wrote(q)]
      <3>1. f \in [Call -> BOOLEAN] /\ g \in [Call -> BOOLEAN] /\ \A q \in Call : f[q] <=> g[q]
        BY <2>8, WroteTyped
      <3> HIDE DEF f, g
      <3>2. f = g
        BY <3>1, SameClaims
      <3>3. QED
        BY <3>2 DEF f, g
    <2>10. QED
      BY <1>2, <2>7, <2>9 DEF Contract!Begin, server, local
  <1>10. QED
    BY <1>8, <1>9

\* A kill ends all running calls, here and in the contract.
LEMMA InvKill ==
  ASSUME ContractInv, Kill
  PROVE  ContractInv' /\ Contract!CKill
  <1>1. TypeInv' /\ TypeInv
    BY TypeKill DEF ContractInv
  <1>2. /\ answer' = [q \in Call |-> IF Running(q) THEN "killed" ELSE answer[q]]
        /\ pc' = [q \in Call |-> IF Running(q) THEN "done" ELSE pc[q]]
        /\ UNCHANGED <<job, contended, fixed, server, got, sent, page, misreports>>
    BY DEF Kill, Killed
  <1>3. \A q \in Call : ~Running(q)' /\ pc'[q] \in {"idle", "done"}
    BY <1>1, <1>2, IsRunning, CallTypes DEF Running
  <1>4. Crowded'
    BY <1>3 DEF Crowded
  <1>5. ASSUME NEW q \in Call PROVE Own(q)'
    <2>1. pc'[q] = "done" \/ pc'[q] = pc[q]
      BY <1>2
    <2>2. q \in misreports => answer'[q] = answer[q]
      BY <1>2, IsRunning DEF Running
    <2>3. Honest(q)'
      BY <1>2, <1>3, <2>1, <2>2 DEF ContractInv, Own, Honest, fixed
    <2>4. QED
      BY <1>2, <1>3, <2>1, <2>3 DEF ContractInv, Own, Seen, Built, Swept
  <1>6. ~ \E q \in Call : Wrote(q)'
    BY <1>2, <1>3 DEF Wrote, In, Is
  <1>7. [q \in Call |-> Wrote(q)]' = [q \in Call |-> FALSE]
    <2> DEFINE f == [q \in Call |-> Wrote(q)]'
               g == [q \in Call |-> FALSE]
    <2>1. f \in [Call -> BOOLEAN] /\ g \in [Call -> BOOLEAN] /\ \A q \in Call : f[q] <=> g[q]
      BY <1>6, WroteTyped
    <2> HIDE DEF f, g
    <2>2. f = g
      BY <2>1, SameClaims
    <2>3. QED
      BY <2>2 DEF f, g
  <1>8. Contract!Killed
    <2>1. \A q \in Call : Contract!Running(q) <=> Running(q)
      BY DEF Contract!Running, Running
    <2>2. QED
      BY <1>2, <2>1 DEF Contract!Killed
  <1>9. QED
    BY <1>1, <1>2, <1>4, <1>5, <1>7, <1>8 DEF ContractInv, Contract!CKill, server

\* Initial states are initial states of the contract.
LEMMA ContractInit == Init => ContractInv /\ Contract!CInit
  <1> SUFFICES ASSUME Init PROVE ContractInv /\ Contract!CInit
    OBVIOUS
  <1>1. TypeInv
    BY TypeInit
  <1>2. \A p \in Call : pc[p] = "idle" /\ ~Running(p) /\ ~Wrote(p) /\ p \notin misreports
    BY DEF Init, CallsInit, Running, Wrote, In, Is
  <1>3. Crowded
    BY <1>2 DEF Crowded
  <1>4. \A p \in Call : Own(p)
    BY <1>2 DEF Own, Seen, Built, Swept, Honest, Init
  <1>5. [q \in Call |-> Wrote(q)] = [q \in Call |-> FALSE]
    <2> DEFINE f == [q \in Call |-> Wrote(q)]
               g == [q \in Call |-> FALSE]
    <2>1. f \in [Call -> BOOLEAN] /\ g \in [Call -> BOOLEAN] /\ \A q \in Call : f[q] <=> g[q]
      BY <1>2, WroteTyped
    <2> HIDE DEF f, g
    <2>2. f = g
      BY <2>1, SameClaims
    <2>3. QED
      BY <2>2 DEF f, g
  <1>6. Contract!CallsInit
    BY DEF Contract!CallsInit, Init, CallsInit
  <1>7. QED
    BY <1>1, <1>3, <1>4, <1>5, <1>6 DEF ContractInv, Contract!CInit, Init

\* Every step keeps the invariant and is a step of the contract, or none.
LEMMA ContractStep ==
  ASSUME NoSelfCopy
  PROVE  ContractInv /\ [Next]_vars => ContractInv' /\ [Contract!CNext]_(Contract!cvars)
  <1> SUFFICES ASSUME ContractInv, [Next]_vars
               PROVE  ContractInv' /\ [Contract!CNext]_(Contract!cvars)
    OBVIOUS
  <1>1. CASE \E p \in Call : Start(p)
    BY <1>1, InvStart DEF Contract!CNext
  <1>2. CASE \E p \in Call : Works(p)
    BY <1>2, InvWorks, WorksStep DEF Step
  <1>3. CASE Kill
    BY <1>3, InvKill DEF Contract!CNext
  <1>4. CASE UNCHANGED vars
    <2>1. TypeInv'
      BY <1>4, TypeStep DEF ContractInv
    <2>2. Crowded'
      BY <1>4 DEF vars, calls, ContractInv, Crowded, Running, Writes, Is
    <2>3. \A p \in Call : Own(p)'
      BY <1>4 DEF vars, calls, fixed, server, local, ContractInv, Own, Seen, Built, Swept, Honest,
                  Behind, Subject, Uses, Has, Is
    <2>4. UNCHANGED Contract!cvars
      BY <1>4 DEF vars, calls, fixed, server, local, Contract!cvars, Contract!calls, Wrote, In, Is
    <2>5. QED
      BY <2>1, <2>2, <2>3, <2>4 DEF ContractInv
  <1>5. QED
    BY <1>1, <1>2, <1>3, <1>4 DEF Next

\* On every backend, every call keeps the contract of Blobstore that the
\* handlers are built on, whatever fails, is lost or runs at the same time,
\* as long as nobody copies a resource onto itself with webdav: its first
\* request to the server, its last and all in between are one Put, Copy, Get,
\* Exists, Delete or DeleteDir with the answer its caller gets, or a failed
\* one where MisreportsOf has that answer.
THEOREM ContractKept ==
  ASSUME NoSelfCopy
  PROVE  Spec => KeepsContract
  <1>1. Init => ContractInv /\ Contract!CInit
    BY ContractInit
  <1>2. ContractInv /\ [Next]_vars => ContractInv' /\ [Contract!CNext]_(Contract!cvars)
    BY ContractStep
  <1> DEFINE Known == \A p \in misreports : <<job[p].kind, answer[p]>> \in MisreportsOf(backend)
  <1>3. ContractInv => Known
    BY DEF ContractInv, TypeInv, TypeOK, Own, Honest
  <1> HIDE DEF Known
  <1>4. Spec => Contract!CSpec /\ []Known
    BY <1>1, <1>2, <1>3, PTL DEF Spec, Contract!CSpec
  <1>5. QED
    BY <1>4 DEF KeepsContract, Known

-----------------------------------------------------------------------------
(* A call as its caller sees it.                                            *)

CONSTANT Self \* a call

VARIABLE seen \* history: what was stored when it began and when it returned

Once == INSTANCE AtomicCall_proofs WITH
  Redirects <- Key,
  Misreports <- UNION {MisreportsOf(b) : b \in Backends},
  misled <- misreports,
  wrote <- [p \in Call |-> Wrote(p)]

WatchedSpec == Spec /\ seen = blob /\ [][Once!Looks]_<<vars, seen>>

\* The contract that AtomicCall builds on is the one that is kept.
LEMMA SameContract ==
  /\ Once!CNext <=> Contract!CNext
  /\ Once!CInit <=> Contract!CInit
  BY DEF Once!CNext, Contract!CNext, Once!Begin, Contract!Begin, Once!Begins, Contract!Begins,
         Once!Disturb, Contract!Disturb, Once!Return, Contract!Return, Once!Ends, Contract!Ends,
         Once!Meant, Contract!Meant, Once!Keeps, Contract!Keeps,
         Once!Clears, Contract!Clears, Once!Does, Contract!Does, Once!Clashes, Contract!Clashes,
         Once!Put, Contract!Put, Once!Leftovers, Contract!Leftovers, Once!Copy, Contract!Copy,
         Once!Delete, Contract!Delete, Once!Removed, Contract!Removed, Once!Exists, Contract!Exists,
         Once!Stored, Contract!Stored, Once!Is, Contract!Is, Once!Running, Contract!Running,
         Once!Writes, Contract!Writes, Once!Uses, Contract!Uses, Once!Result, Contract!Result,
         Once!CKill, Contract!CKill, Once!Killed, Contract!Killed, Once!calls, Contract!calls,
         Once!CInit, Contract!CInit, Once!CallsInit, Contract!CallsInit

\* To its caller, a call to any of these backends is one operation of Blobstore
\* on the keys that no other call writes meanwhile, however many requests it
\* sends to the server, whichever of them fail and wherever the process dies:
\* one with the answer it gets, or, if that is one that some configured backend
\* gives for failures too (MisreportsOf), one that failed.
THEOREM CallsAreOperations ==
  ASSUME NoSelfCopy, Self \in Call
  PROVE  WatchedSpec => Once!ActsAtOnce
  <1>0. /\ Key \subseteq Key /\ Once!Job = Job
        /\ UNION {MisreportsOf(b) : b \in Backends} \subseteq Once!Misleading
    BY DEF Once!Job, Job, MisreportsOf, Once!Misleading
  <1>1. Init /\ seen = blob => ContractInv /\ Once!AInv
    <2> SUFFICES ASSUME Init, seen = blob PROVE ContractInv /\ Once!AInv
      OBVIOUS
    <2>1. ContractInv /\ Contract!CInit
      BY ContractInit
    <2>2. Once!BlobTypeOK
      BY <2>1 DEF ContractInv, TypeInv, TypeOK, Once!BlobTypeOK, Once!Stored, Stored
    <2>3. Once!AInit
      BY <2>1, <2>2, SameContract DEF Once!AInit
    <2>4. Once!AInv
      BY <1>0, <2>3, Once!AInvInit, BitsAssumption, ResourcesAssumption, CallsAssumption
    <2>5. QED
      BY <2>1, <2>4
  <1>2. ContractInv /\ [Next]_vars /\ [Once!Looks]_<<vars, seen>>
          => ContractInv' /\ [Once!ANext]_(Once!avars)
    <2> SUFFICES ASSUME ContractInv, [Next]_vars, [Once!Looks]_<<vars, seen>>
                 PROVE  ContractInv' /\ [Once!ANext]_(Once!avars)
      OBVIOUS
    <2>1. ContractInv' /\ [Contract!CNext]_(Contract!cvars)
      BY ContractStep
    <2>2. CASE Contract!CNext /\ Once!Looks
      BY <2>1, <2>2, SameContract DEF Once!ANext
    <2>3. CASE UNCHANGED Contract!cvars /\ Once!Looks
      <3>1. UNCHANGED seen
        BY <2>3 DEF Once!Looks, Contract!cvars, Contract!calls
      <3>2. QED
        BY <2>1, <2>3, <3>1 DEF Once!avars, Once!cvars, Once!calls, Contract!cvars, Contract!calls
    <2>4. CASE UNCHANGED <<vars, seen>>
      <3>1. UNCHANGED Contract!cvars
        BY <2>4 DEF vars, calls, fixed, server, local, Contract!cvars, Contract!calls, Wrote, In, Is
      <3>2. QED
        BY <2>1, <2>4, <3>1 DEF Once!avars, Once!cvars, Once!calls, Contract!cvars, Contract!calls
    <2>5. QED
      BY <2>1, <2>2, <2>3, <2>4
  <1>3. Once!AInv /\ [Once!ANext]_(Once!avars) => Once!AInv' /\ [Once!EndsAtOnce]_(Once!avars)
    BY <1>0, Once!AInvInductive, Once!EndDid, BitsAssumption, ResourcesAssumption, CallsAssumption
  <1>4. QED
    BY <1>1, <1>2, <1>3, PTL DEF WatchedSpec, Spec, Once!ActsAtOnce, Once!EndsAtOnce
=============================================================================
