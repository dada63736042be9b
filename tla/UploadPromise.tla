--------------------------- MODULE UploadPromise ---------------------------
(***************************************************************************)
(* What the bits-service promises the Cloud Controller about package       *)
(* uploads, without retries, temporary files, background goroutines or     *)
(* replies: the sequences in docs/create-v3-app-with-bits-service-*.txt,   *)
(* for any number of uploads at once.  An upload is refused without        *)
(* touching the store, or it is taken on; then it writes until its bits    *)
(* are stored or it gives up, and after that it reports once, READY with   *)
(* the checksums of its own content or FAILED.  Whether the Cloud          *)
(* Controller records a report is left open.                               *)
(***************************************************************************)
EXTENDS Bits

CONSTANTS Req, Absent, Torn

VARIABLES
  ask,    \* ask[r]: the key and the content r is about
  phase,  \* phase[r]: how far r's upload is
  bits,   \* bits[k]: what is stored
  record  \* record[k]: the Cloud Controller's package

pvars == <<ask, phase, bits, record>>

Phase == {"new", "refused", "taken", "stored", "failed", "reported", "dead", "other"}

PInit ==
  /\ phase \in [Req -> {"new", "other"}]
  /\ bits = [k \in Key |-> Absent]
  /\ record = [k \in Key |-> [state |-> "AWAITING_UPLOAD", checksum |-> NoContent]]

Move(r, from, to) ==
  /\ phase[r] = from
  /\ phase' = [phase EXCEPT ![r] = to]
  /\ UNCHANGED ask

\* The Cloud Controller may or may not record what it is sent.
MayRecord(k, s, c) ==
  \/ UNCHANGED record
  \/ record' = [record EXCEPT ![k] = [state |-> s, checksum |-> c]]

Writes(r) == \E v \in {bits[ask[r].key], Torn, ask[r].content} :
               bits' = [bits EXCEPT ![ask[r].key] = v]

\* Refused, perhaps by an announcement that the Cloud Controller recorded
\* and whose answer was lost.
Refuse(r) ==
  /\ Move(r, "new", "refused")
  /\ MayRecord(ask[r].key, "PROCESSING_UPLOAD", NoContent)
  /\ UNCHANGED bits

TakeOn(r) ==
  /\ Move(r, "new", "taken")
  /\ MayRecord(ask[r].key, "PROCESSING_UPLOAD", NoContent)
  /\ UNCHANGED bits

WriteAgain(r) == Move(r, "taken", "taken") /\ Writes(r) /\ UNCHANGED record

GiveUp(r) == Move(r, "taken", "failed") /\ Writes(r) /\ UNCHANGED record

Store(r) ==
  /\ Move(r, "taken", "stored")
  /\ bits' = [bits EXCEPT ![ask[r].key] = ask[r].content]
  /\ UNCHANGED record

ReportReady(r) ==
  /\ Move(r, "stored", "reported")
  /\ MayRecord(ask[r].key, "READY", ask[r].content)
  /\ UNCHANGED bits

ReportFailed(r) ==
  /\ Move(r, "failed", "reported")
  /\ MayRecord(ask[r].key, "FAILED", NoContent)
  /\ UNCHANGED bits

\* Requests of other kinds write bits too; they never report.
OtherWrite ==
  /\ \E r \in Req : phase[r] = "other"
  /\ UNCHANGED <<ask, phase, record>>

\* The process is killed.
Die ==
  /\ \E dead \in SUBSET Req :
       phase' = [r \in Req |-> IF r \in dead THEN "dead" ELSE phase[r]]
  /\ UNCHANGED <<ask, bits, record>>

Forget ==
  /\ \E k \in Key :
       record' = [record EXCEPT ![k] = [state |-> "GONE", checksum |-> NoContent]]
  /\ UNCHANGED <<ask, phase, bits>>

PNext ==
  \/ \E r \in Req : \/ Refuse(r) \/ TakeOn(r)
                    \/ WriteAgain(r) \/ GiveUp(r) \/ Store(r)
                    \/ ReportReady(r) \/ ReportFailed(r)
  \/ OtherWrite
  \/ Die
  \/ Forget

PSpec == PInit /\ [][PNext]_pvars
=============================================================================
