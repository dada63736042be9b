-------------------------------- MODULE Bits --------------------------------
(***************************************************************************)
(* The data every component of the bits-service passes around: the keys    *)
(* under which resources are stored and the contents they can have.  A key *)
(* is the `identifier` of a route (a package GUID, a droplet's             *)
(* GUID/checksum, a buildpack_cache path); a content stands for the bytes  *)
(* of a resource and for their SHA1/SHA256, which identify them.           *)
(***************************************************************************)
CONSTANTS
  Key,      \* identifiers of resources
  Content,  \* complete contents of a resource
  NoContent \* a request or a package record that carries no content

ASSUME BitsAssumption == NoContent \notin Content
=============================================================================
