----------------------------- MODULE MCCloudSync -----------------------------
(* A model of CloudSync: a policy that needs a tunnel, first prepared (P)    *)
(* and then committed (A), and a delivery Core refuses (B).                 *)
EXTENDS CloudSync

CONSTANTS A, P, B, S,
    Published   \* which of the three deliveries Cloud publishes

MCDeliveries ==
    {[etag |-> e, phase |-> IF e = P THEN "prepare" ELSE "commit",
      subject |-> S, outbound |-> TRUE, inbound |-> FALSE,
      flaw |-> IF e = B THEN "core" ELSE None] : e \in Published}

=============================================================================
