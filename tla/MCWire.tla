------------------------------- MODULE MCWire -------------------------------
(* What packets go through: the transport's queues, the handshake byte by   *)
(* byte, the data path of a session and its replay window.  They share no   *)
(* state, so a behaviour takes the steps of one part, and the others stay   *)
(* as they begin.                                                           *)
EXTENDS ReplayWindow, Transport, KeyExchange, DataPlane, Bitwise

CONSTANT Parts      \* those this run checks

VARIABLE part

wireVars == <<vars, connVars, kxVars, planeVars>>

MCInit == Init /\ ConnInit /\ KxInit /\ PlaneInit /\ part \in Parts

MCNext == /\ \/ part = "window"    /\ Next      /\ UNCHANGED <<connVars, kxVars, planeVars>>
             \/ part = "transport" /\ ConnNext  /\ UNCHANGED <<vars, kxVars, planeVars>>
             \/ part = "handshake" /\ KxNext    /\ UNCHANGED <<vars, connVars, planeVars>>
             \/ part = "session"   /\ PlaneNext /\ UNCHANGED <<vars, connVars, kxVars>>
          /\ UNCHANGED part

MCSpec     == MCInit /\ [][MCNext]_<<wireVars, part>>
MCFairSpec == MCSpec /\ ConnFairness /\ PlaneFairness
-----------------------------------------------------------------------------
MCXor(a, b)  == a ^^ b
MCKey        == <<5, 3>>
MCScalars    == {3, 6}
MCChallenges == {<<1, 0>>, <<2, 3>>}
MCTokens     == {<<1>>, <<2, 2>>}
MCIPPackets  == {[i \in 1..15 |-> i % 4], <<3>>}
MCClocks     == {-8388608, -1, 0, 3, 8388607}     \* the ends and the middle of the range
=============================================================================
