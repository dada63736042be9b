----------------------------- MODULE AtomicCall -----------------------------
(***************************************************************************)
(* One of the calls of BlobstoreCalls as its caller sees it: whatever it   *)
(* does between its start and its return, while other calls run, is to its *)
(* caller one operation of Blobstore, which is the step that a handler     *)
(* takes for it in ResourceHandler and AppStash.                           *)
(***************************************************************************)
EXTENDS BlobstoreCalls

CONSTANT Self \* the call

\* History: what was stored when Self began and, once it has returned, what
\* was stored then.
VARIABLE seen

avars == <<cvars, seen>>

AInit == CInit /\ BlobTypeOK /\ seen = blob

Looks == seen' = IF answer'[Self] # answer[Self] THEN blob' ELSE seen

ANext == CNext /\ Looks

ASpec == AInit /\ [][ANext]_avars

-----------------------------------------------------------------------------

\* The keys that are Self's alone, and what it has seen there.
Own == Uses(Self) \ contended[Self]
Mine == [k \in Key |-> IF k \in Own THEN seen[k] ELSE Absent]

One == INSTANCE BlobstoreCalls WITH blob <- Mine

\* Nobody else writes what Self uses, and it copies something whole to
\* another key.
Alone ==
  /\ Uses(Self) \cap contended[Self] = {}
  /\ Is(Self, {"copy"}) => job[Self].source # job[Self].key /\ seen[job[Self].source] # Torn

\* The one operation: of the directory, the part that is Self's alone.
Did(e) ==
  IF Is(Self, {"deleteDir"}) THEN One!DeleteDir(job[Self].key, e)
  ELSE Alone => /\ One!Does(Self, e)
                /\ Is(Self, {"get"}) /\ e = "nil" => got'[Self] = seen[job[Self].key]

\* What an answer of Self says of it: a call that dies with the process, and
\* one whose answer misreports, is one that failed.
Says(e) == IF e = "killed" \/ Self \in misled' THEN "error" ELSE e

\* Between its start and its return, a call to a backend does to the keys it
\* uses what one operation of Blobstore may do, with the result it returns; a
\* call that dies with the process does what one that fails may do, and so
\* does one that returns another result, which only the backends of Misreports
\* do and only for the results named there.
ActsAtOnce ==
  [][Running(Self) /\ ~Running(Self)'
       => /\ Did(Says(answer'[Self]))
          /\ Self \in misled' => <<job[Self].kind, answer'[Self]>> \in Misreports]_avars
=============================================================================
