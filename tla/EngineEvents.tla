----------------------------- MODULE EngineEvents ----------------------------
(***************************************************************************)
(* What mobile engines promise the app that uses them: the states each     *)
(* announces after an accepted Connect, and when it may announce them.     *)
(* MobileEngine implements this; AndroidService and IosTunnel rely on it.  *)
(***************************************************************************)
CONSTANT Engines

VARIABLES told,     \* those whose Disconnect was called
          shown     \* the state each announced last

events == <<told, shown>>

Init == told = {} /\ shown = [e \in Engines |-> "none"]

Tell(e) == told' = told \cup {e} /\ UNCHANGED shown

(* An engine gives up only when it is told to, and is silent after that.   *)
Announce(e, state) ==
    /\ \/ state = "connecting"   /\ shown[e] \in {"none", "reconnecting"}
       \/ state = "connected"    /\ shown[e] = "connecting"
       \/ state = "reconnecting" /\ shown[e] \in {"connecting", "connected"}
       \/ state = "disconnected" /\ shown[e] \in {"connecting", "connected", "reconnecting"} /\ e \in told
    /\ shown' = [shown EXCEPT ![e] = state]
    /\ UNCHANGED told

States == {"connecting", "connected", "reconnecting", "disconnected"}

Next == \E e \in Engines : Tell(e) \/ \E state \in States : Announce(e, state)

(* And then it does give up, sooner or later.                              *)
Spec == /\ Init /\ [][Next]_events
        /\ \A e \in Engines : e \in told ~> shown[e] = "disconnected"
=============================================================================
