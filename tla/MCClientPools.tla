--------------------------- MODULE MCClientPools ---------------------------
(***************************************************************************)
(* Small instances of ClientPools.  One address more than there are pools  *)
(* lets a pool be dropped and another be made; since a dropped arena never *)
(* comes free again, the number of addresses bounds a behaviour.           *)
(***************************************************************************)
EXTENDS ClientPools
=============================================================================
