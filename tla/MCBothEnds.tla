----------------------------- MODULE MCBothEnds -----------------------------
(* What begins must end, at both ends of the tunnel: the handshakes and the *)
(* sessions of the server, and the loops of the desktop client.  They share *)
(* no state, so a behaviour takes the steps of one end, and the other stays *)
(* as it begins.                                                            *)
EXTENDS Server, DesktopClient

CONSTANTS a1, a2, x

VARIABLE end    \* the end whose steps a behaviour takes

MCHostOf == [a \in Addrs |-> x]

MCInit == /\ Init /\ ClientInit
          /\ end \in {"server", "client"}
          /\ end = "client" => issued = {}

MCNext == /\ \/ end = "server" /\ Next       /\ UNCHANGED clientVars
             \/ end = "client" /\ ClientNext /\ UNCHANGED vars
          /\ UNCHANGED end

(* The client's goroutines run when it is the client whose steps these are. *)
MCClientFairness ==
    \A a \in Connects : /\ WF_clientVars(end = "client" /\ running /\ Loop(a))
                        /\ SF_clientVars(end = "client" /\ running /\ BackoffCancelled(a))

MCFairSpec == MCInit /\ [][MCNext]_<<vars, clientVars, end>> /\ Fairness /\ MCClientFairness
=============================================================================
