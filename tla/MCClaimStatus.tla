--------------------------- MODULE MCClaimStatus ----------------------------
(* A small instance of ClaimStatus for TLC. *)
EXTENDS ClaimStatus

CONSTANTS d1, d2

MCResults == <<d1>>
=============================================================================
