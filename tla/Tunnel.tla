------------------------------- MODULE Tunnel -------------------------------
(***************************************************************************)
(* What a session promises the IP packets of its two ends: one that is     *)
(* written to an end's TUN device was read from the other's, is written    *)
(* once, and is fewer than Window packets behind the latest.  Any may get  *)
(* lost.  DataPlane implements this module.                                *)
(***************************************************************************)
EXTENDS Naturals

CONSTANTS Numbers,      \* of packets, in the order in which an end reads them
          Window

VARIABLES sent,         \* how many packets each end has read from its device
          arrived       \* how often each number was written to an end's

tunnelVars == <<sent, arrived>>

Ends    == {"client", "server"}
Peer(e) == CHOOSE f \in Ends : f # e

TunnelInit == /\ sent = [e \in Ends |-> 0]
              /\ arrived = [e \in Ends |-> [n \in Numbers |-> 0]]

Send(e) == /\ sent' = [sent EXCEPT ![e] = @ + 1]
           /\ UNCHANGED arrived

Arrive(e, n) == /\ n < sent[Peer(e)]
                /\ arrived[e][n] = 0
                /\ \A m \in Numbers : arrived[e][m] > 0 => m < n + Window
                /\ arrived' = [arrived EXCEPT ![e][n] = 1]
                /\ UNCHANGED sent

TunnelNext == \E e \in Ends : Send(e) \/ \E n \in Numbers : Arrive(e, n)

TunnelSpec == TunnelInit /\ [][TunnelNext]_tunnelVars
=============================================================================
