------------------------------ MODULE IosTunnel ------------------------------
(***************************************************************************)
(* The packet tunnel provider of the iOS app (PacketTunnelProvider.swift)  *)
(* over an engine that keeps EngineEvents.  The system starts and stops    *)
(* the tunnel and answers setTunnelNetworkSettings on queues of its own;   *)
(* an engine's events come on a thread of the engine.                      *)
(*                                                                         *)
(* A provider serves one start.  The engine's "error" event is left out:   *)
(* an engine reports one for a second Connect only.                        *)
(***************************************************************************)
EXTENDS Naturals, Sequences

VARIABLES providerTold, providerShown,    \* told and shown of its engine
          provider,         \* "idle", "started", "stopped", or "refused"
          startCompletion,  \* the completion handler is kept
          answers,          \* history: what it was called with
          waitingForConnect,
          asked,            \* calls of setTunnelNetworkSettings not answered yet
          applied,          \* history: settings the system has applied
          forwarding        \* threads that read packets from the engine

reported   == <<providerTold, providerShown>>
tunnelVars == <<reported, provider, startCompletion, answers, waitingForConnect, asked, applied, forwarding>>

Engine == INSTANCE EngineEvents WITH Engines <- {"engine"}, told <- providerTold, shown <- providerShown

TunnelInit == /\ Engine!Init
              /\ provider = "idle" /\ startCompletion = FALSE /\ answers = <<>>
              /\ waitingForConnect = TRUE /\ asked = 0 /\ applied = 0 /\ forwarding = 0
-----------------------------------------------------------------------------
(* A configuration that lacks the address or the token is refused at once. *)
Start == /\ provider = "idle"
         /\ \/ provider' = "refused" /\ answers' = <<"error">> /\ UNCHANGED startCompletion
            \/ provider' = "started" /\ startCompletion' = TRUE /\ UNCHANGED answers
         /\ UNCHANGED <<reported, waitingForConnect, asked, applied, forwarding>>

Stop == /\ provider = "started"
        /\ provider' = "stopped"
        /\ Engine!Tell("engine")
        /\ UNCHANGED <<startCompletion, answers, waitingForConnect, asked, applied, forwarding>>

(* A mutant: every connection of the engine is taken for the first.        *)
didConnectAgain == /\ Engine!Announce("engine", "connected")
                   /\ asked' = asked + 1
                   /\ UNCHANGED waitingForConnect

(* The listener reports only the first connection: settings are not        *)
(* renewed when the engine reconnects.                                     *)
didConnect == /\ Engine!Announce("engine", "connected")
              /\ asked' = IF waitingForConnect THEN asked + 1 ELSE asked
              /\ waitingForConnect' = FALSE

onEvent == /\ provider \in {"started", "stopped"}
           /\ \/ didConnect
              \/ \E state \in {"connecting", "reconnecting", "disconnected"} :
                    Engine!Announce("engine", state) /\ UNCHANGED <<asked, waitingForConnect>>
           /\ UNCHANGED <<provider, startCompletion, answers, applied, forwarding>>

Complete(answer) == /\ answers' = IF startCompletion THEN Append(answers, answer) ELSE answers
                    /\ startCompletion' = FALSE

(* startPacketForwarding, which does nothing when the engine is gone.      *)
SettingsAnswered ==
    /\ asked > 0 /\ asked' = asked - 1
    /\ \/ Complete("error") /\ UNCHANGED <<applied, forwarding>>
       \/ /\ Complete("ok") /\ applied' = applied + 1
          /\ forwarding' = IF provider = "started" THEN forwarding + 1 ELSE forwarding
    /\ UNCHANGED <<reported, provider, waitingForConnect>>

TunnelNext == Start \/ Stop \/ onEvent \/ SettingsAnswered
TunnelSpec == TunnelInit /\ [][TunnelNext]_tunnelVars
-----------------------------------------------------------------------------
(* The system's completion handler is called at most once, whatever order  *)
(* a stop, a reconnection and the answer to the settings come in; packets  *)
(* are forwarded only after it was told of success, and by one thread.     *)
CompletionOnce == /\ Len(answers) <= 1
                  /\ forwarding <= 1
                  /\ forwarding = 1 => answers = <<"ok">> /\ applied = 1
=============================================================================
