---------------------------- MODULE MCSdwanAgent ----------------------------
(* Three activations: a second policy in the first one's tunnel, then a     *)
(* second tunnel.                                                           *)
EXTENDS SdwanAgent

MCActivations ==
    {[gen |-> 1, tun |-> 1, pol |-> 1], [gen |-> 2, tun |-> 1, pol |-> 2],
     [gen |-> 3, tun |-> 2, pol |-> 2]}

=============================================================================
