----------------------------- MODULE Resources -----------------------------
(***************************************************************************)
(* What can be found under a key of a blobstore.                           *)
(***************************************************************************)
EXTENDS Bits

CONSTANTS
  Absent, \* no resource under a key
  Torn,   \* a resource with some bytes that nobody asked to be stored
  Under   \* Under[k]: the keys below k when k names a directory

ASSUME ResourcesAssumption ==
  /\ Absent \notin Content /\ Torn \notin Content /\ Absent # Torn
  /\ Under \in [Key -> SUBSET Key]

Stored == Content \cup {Absent, Torn}
=============================================================================
