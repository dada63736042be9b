------------------------------ MODULE Shelves ------------------------------
(***************************************************************************)
(* What the clients of the bits-service take for granted: every resource   *)
(* is on a shelf of its own, no matter its type; deleting the              *)
(* buildpack_cache of an app takes the entries of that app and nothing     *)
(* else; and who is granted the upload of a resource can write that        *)
(* resource, or one whose name it begins, for an hour, with new bits or    *)
(* with those of a resource of its type.                                   *)
(***************************************************************************)
EXTENDS Naturals

CONSTANTS
  Resource, \* [type, id] of every resource
  Content,  \* what the operators of the platform store
  Parcel,   \* what those store who are granted an upload
  Absent,   \* no resource
  Room,     \* Room[r]: the resources that are stored by an upload of r
  Kin,      \* Kin[r]: the resources that r can be a copy of
  Cache,    \* Cache[a]: the buildpack_cache entries of app a
  Lifetime  \* of a grant

VARIABLES
  shelf,  \* shelf[r]: what is stored of r
  grants, \* the uploads granted: resources, and since when
  now     \* the time

svars == <<shelf, grants, now>>

SInit ==
  /\ shelf = [r \in Resource |-> Absent]
  /\ grants = {}
  /\ now = 0

Fill(r, cs) ==
  /\ \/ \E s \in Room[r], c \in cs : shelf' = [shelf EXCEPT ![s] = c]
     \/ \E t \in Kin[r] : shelf[t] # Absent /\ shelf' = [shelf EXCEPT ![r] = shelf[t]]
  /\ UNCHANGED <<grants, now>>

Clear(rs) ==
  /\ shelf' = [r \in Resource |-> IF r \in rs THEN Absent ELSE shelf[r]]
  /\ UNCHANGED <<grants, now>>

Grant(r) ==
  /\ grants' = grants \cup {[resource |-> r, since |-> now]}
  /\ UNCHANGED <<shelf, now>>

UseGrant(g) == now <= g.since + Lifetime /\ Fill(g.resource, Parcel)

Pass == now' = now + 1 /\ UNCHANGED <<shelf, grants>>

SNext ==
  \/ \E r \in Resource : Fill(r, Content) \/ Clear({r}) \/ Grant(r)
  \/ \E a \in DOMAIN Cache : Clear(Cache[a])
  \/ Clear(UNION {Cache[a] : a \in DOMAIN Cache})
  \/ \E g \in grants : UseGrant(g)
  \/ Pass

SSpec == SInit /\ [][SNext]_svars
=============================================================================
