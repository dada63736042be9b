---------------------------- MODULE StashPromise ----------------------------
(***************************************************************************)
(* What the app-stash promises its clients, without calls to a blobstore,  *)
(* retries or temporary files: a stock of files that only grows, by the    *)
(* files of requests that are under way.  What a client is told holds of   *)
(* the stock between its request and the answer: files that were there all *)
(* the time are found and bundled, unless the backend overlooks them, and  *)
(* a success means that the client's own files are there too.              *)
(***************************************************************************)
EXTENDS Bits, Sequences, SequencesExt

CONSTANTS
  Req,
  ShaOf,      \* ShaOf[c]: the key of file c
  Bundled,    \* the files that bundling keeps; the others it only passes on
  MayOverlook \* whether a file that is there may be reported as not there

VARIABLES
  ask,    \* ask[r]: kind, own files, and the keys that r refers to: all of them in
          \* order (refs), and those that are looked up (sought)
  phase,  \* phase[r]: how far r is
  stock,  \* the keys of the files that are stored
  since,  \* since[r]: the stock when r came
  unseen, \* unseen[r]: the files that were there and overlooked
  reply   \* reply[r]: what r was told

svars == <<ask, phase, stock, since, unseen, reply>>

Nothing == [shas |-> <<>>, zip |-> <<>>, missing |-> {}]

SInit ==
  /\ phase = [r \in Req |-> "new"]
  /\ stock \subseteq {ShaOf[c] : c \in Content}
  /\ since = [r \in Req |-> {}]
  /\ unseen = [r \in Req |-> {}]
  /\ reply = [r \in Req |-> Nothing]

\* The keys of the files that r may add.
Own(r) ==
  {ShaOf[c] : c \in ToSet(ask[r].own) \cap (IF ask[r].kind = "entries" THEN Content ELSE Bundled)}

Move(r, from, to) ==
  /\ phase[r] = from
  /\ phase' = [phase EXCEPT ![r] = to]
  /\ UNCHANGED ask

Tell(r, answer) == reply' = [reply EXCEPT ![r] = answer]

Grows(r) == \E new \in SUBSET Own(r) : stock' = stock \cup new

Take(r) ==
  /\ Move(r, "new", "open")
  /\ since' = [since EXCEPT ![r] = stock]
  /\ UNCHANGED <<stock, unseen, reply>>

Add(r) == Move(r, "open", "open") /\ Grows(r) /\ UNCHANGED <<since, unseen, reply>>

Overlooks(r, k) ==
  /\ MayOverlook
  /\ unseen' = [unseen EXCEPT ![r] = @ \cup {k}]

Overlook(r) ==
  /\ Move(r, "open", "open")
  /\ \E k \in ask[r].sought \cap stock : Overlooks(r, k)
  /\ UNCHANGED <<stock, since, reply>>

\* Without a word about the stock.
Refuse(r) == Move(r, "open", "refused") /\ Grows(r) /\ UNCHANGED <<since, unseen, reply>>

TellMatches(r) ==
  /\ ask[r].kind = "matches"
  /\ \E found \in BoundedSeq(stock \cap ask[r].sought, Len(ask[r].refs)) :
       /\ since[r] \cap ask[r].sought \subseteq ToSet(found) \cup unseen[r]
       /\ Tell(r, [Nothing EXCEPT !.shas = found])

TellEntries(r) ==
  /\ ask[r].kind = "entries"
  /\ Own(r) \subseteq stock
  /\ Tell(r, [Nothing EXCEPT !.shas = [i \in DOMAIN ask[r].own |-> ShaOf[ask[r].own[i]]]])

\* The client's own files, and then those it refers to.
TellZip(r) ==
  /\ ask[r].kind \in {"bundle", "package"}
  /\ Own(r) \cup ask[r].sought \subseteq stock
  /\ Tell(r, [Nothing EXCEPT !.zip =
       [i \in DOMAIN ask[r].own |-> <<ask[r].own[i]>>]
       \o [i \in DOMAIN ask[r].refs |-> <<CHOOSE c \in Content : ShaOf[c] = ask[r].refs[i]>>]])

Serve(r) ==
  /\ Move(r, "open", "served")
  /\ TellMatches(r) \/ TellEntries(r) \/ TellZip(r)
  /\ UNCHANGED <<stock, since, unseen>>

\* A file that r refers to was not there, or is overlooked.
Miss(r) ==
  /\ Move(r, "open", "missed")
  /\ \E k \in ask[r].sought :
       /\ \/ k \notin since[r] /\ UNCHANGED unseen
          \/ k \in stock /\ Overlooks(r, k)
       /\ Tell(r, [Nothing EXCEPT !.missing = {k}])
  /\ UNCHANGED <<stock, since>>

\* The process is killed.
Die ==
  /\ phase' = [r \in Req |-> IF phase[r] = "open" THEN "dead" ELSE phase[r]]
  /\ UNCHANGED <<ask, stock, since, unseen, reply>>

SNext ==
  \/ \E r \in Req : Take(r) \/ Add(r) \/ Overlook(r) \/ Refuse(r) \/ Serve(r) \/ Miss(r)
  \/ Die

SSpec == SInit /\ [][SNext]_svars
=============================================================================
