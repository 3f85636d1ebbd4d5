---------------------------- MODULE MCNodeUpgrade ----------------------------
(* Three versions, two jobs, both platforms. *)
EXTENDS NodeUpgrade
=============================================================================
