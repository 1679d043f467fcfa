------------------------------ MODULE MCMobile ------------------------------
(* The mobile engine, and the two apps that use it, over what EngineEvents  *)
(* promises of it.  They share no state, so a behaviour takes the steps of  *)
(* one part, and the others stay as they begin.                             *)
EXTENDS MobileEngine, AndroidService, IosTunnel

VARIABLE part

MCInit == Init /\ ServiceInit /\ TunnelInit /\ part \in {"engine", "android", "ios"}

MCNext == /\ \/ part = "engine"  /\ Next        /\ UNCHANGED <<serviceVars, tunnelVars>>
             \/ part = "android" /\ ServiceNext /\ UNCHANGED <<vars, tunnelVars>>
             \/ part = "ios"     /\ TunnelNext  /\ UNCHANGED <<vars, serviceVars>>
          /\ UNCHANGED part

MCSpec     == MCInit /\ [][MCNext]_<<vars, serviceVars, tunnelVars, part>>
MCFairSpec == MCSpec /\ Fairness
=============================================================================
