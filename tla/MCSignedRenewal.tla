--------------------------- MODULE MCSignedRenewal ---------------------------
(* One process keeps the packet port, two renewals, the bootstrap worker. *)
EXTENDS SignedRenewal
=============================================================================
