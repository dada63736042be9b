---------------------------- MODULE MCSignedURLs ----------------------------
(***************************************************************************)
(* A small instance of SignedURLs: two apps whose GUIDs share their first  *)
(* directory, buildpack_cache entries of both, and a droplet, the name it  *)
(* is uploaded under and a file of the app-stash that begin like them.     *)
(***************************************************************************)
EXTENDS SignedURLs

CONSTANTS stored, uploaded

guid1 == <<"a", "b", "a", "b">>
guid2 == <<"a", "b", "b", "a">>
stack == <<"/", "s">>

Apps == {guid1, guid2}

Resources ==
  {[type |-> "droplets", id |-> guid1 \o stack],
   [type |-> "droplets", id |-> guid1],
   [type |-> "app_stash", id |-> guid1]}
  \cup {[type |-> "buildpack_cache", id |-> g \o stack] : g \in Apps}

Letters == {"/", "_", "a", "b", "c", "d", "e", "h", "i", "k", "l", "p", "s", "t", "u"}

PlainLetters == Letters \ {"/", "_"}

Directory == <<"d">>
=============================================================================
