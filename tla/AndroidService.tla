---------------------------- MODULE AndroidService ---------------------------
(***************************************************************************)
(* The Android VPN service (HomeTunnelVpnService.kt) over engines that     *)
(* keep EngineEvents.  Intents are handled on the main thread, an engine's *)
(* events on a thread of the engine, and openTun in a coroutine; the       *)
(* fields engine and tunFd are shared without a lock.                      *)
(*                                                                         *)
(* The e-th startTunnel makes engine e, and the n-th openTun opens device  *)
(* n.  The two coroutines that move packets change no state of the service *)
(* and are left out.                                                       *)
(***************************************************************************)
EXTENDS Naturals, Sequences

CONSTANTS MaxStarts,    \* bound: starts
          MaxOpens,     \* bound: calls of openTun
          NoFd

ASSUME ServiceAssumption == {MaxStarts, MaxOpens} \subseteq Nat /\ NoFd \notin Nat

VARIABLES engineTold, engineShown,  \* told and shown of the engines
          engines,      \* engines made so far
          engine,       \* the service's engine, or 0
          todo,         \* what the main thread has still to do in the call it handles
          tunFd,        \* the service's device, or NoFd
          devices,      \* devices that are open
          opens,        \* calls of openTun so far
          launched,     \* those that have not begun
          established,  \* those whose device is open and not yet in tunFd
          over,         \* the service's scope is cancelled
          crossed       \* history: openTun met a stop, or a device that was open

announced   == <<engineTold, engineShown>>
device      == <<tunFd, devices, opens, launched, established>>
serviceVars == <<announced, engines, engine, todo, device, over, crossed>>

Events == INSTANCE EngineEvents WITH Engines <- 1..MaxStarts, told <- engineTold, shown <- engineShown

ServiceInit == /\ Events!Init
               /\ engines = 0 /\ engine = 0 /\ todo = <<>>
               /\ tunFd = NoFd /\ devices = {} /\ opens = 0 /\ launched = {} /\ established = {}
               /\ over = FALSE /\ crossed = FALSE
-----------------------------------------------------------------------------
(* The main thread.  onDestroy comes when the service has stopped itself,  *)
(* or when the system wants its memory.                                    *)
stopTunnel   == <<"disconnect", "close">>

(* A mutant: a start does not end the session before.                      *)
startTunnelOnly == <<"connect">>

startTunnel  == stopTunnel \o <<"connect">>
onDisconnect == stopTunnel \o <<"stopSelf">>
onDestroy    == stopTunnel \o <<"cancel">>

Called == /\ todo = <<>> /\ ~over
          /\ \/ todo' = startTunnel /\ engines < MaxStarts
             \/ todo' \in {onDisconnect, onDestroy}
          /\ UNCHANGED <<announced, engines, engine, device, over, crossed>>

Does(step) == todo # <<>> /\ Head(todo) = step /\ todo' = Tail(todo)

Disconnects == /\ Does("disconnect")
               /\ \/ engine = 0 /\ UNCHANGED announced
                  \/ engine # 0 /\ Events!Tell(engine)
               /\ engine' = 0
               /\ UNCHANGED <<engines, device, over, crossed>>

(* tunFd?.close(); tunFd = null                                            *)
CloseTun == /\ devices' = devices \ {tunFd}
            /\ tunFd' = NoFd
            /\ crossed' = (crossed \/ launched \cup established # {})
            /\ UNCHANGED <<opens, launched, established>>

Closes == Does("close") /\ CloseTun /\ UNCHANGED <<announced, engines, engine, over>>

Connects == /\ Does("connect")
            /\ engines' = engines + 1 /\ engine' = engines + 1
            /\ UNCHANGED <<announced, device, over, crossed>>

(* stopSelf only asks for onDestroy; cancelling the scope takes back the   *)
(* coroutines that have not begun.                                         *)
Ends == /\ \/ Does("stopSelf") /\ UNCHANGED <<launched, over>>
           \/ Does("cancel") /\ launched' = {} /\ over' = TRUE
        /\ UNCHANGED <<announced, engines, engine, tunFd, devices, opens, established, crossed>>
-----------------------------------------------------------------------------
(* handleGoEvent asks for no engine: the events of one that was replaced   *)
(* are handled like those of the current one.                              *)
handleGoEvent(e) ==
    /\ e <= engines
    /\ \/ /\ Events!Announce(e, "connected") /\ opens < MaxOpens
          /\ opens' = opens + 1
          /\ launched' = IF over THEN launched ELSE launched \cup {opens + 1}
          /\ UNCHANGED <<tunFd, devices, established, crossed>>
       \/ Events!Announce(e, "disconnected") /\ CloseTun
       \/ \E state \in {"connecting", "reconnecting"} : Events!Announce(e, state) /\ UNCHANGED <<device, crossed>>
    /\ UNCHANGED <<engines, engine, todo, over>>

(* establish may fail, which ends openTun.                                 *)
Establish(n) == /\ n \in launched
                /\ launched' = launched \ {n}
                /\ \/ /\ devices' = devices \cup {n} /\ established' = established \cup {n}
                      /\ crossed' = (crossed \/ devices # {} \/ todo # <<>> \/ over)
                   \/ UNCHANGED <<devices, established, crossed>>
                /\ UNCHANGED <<announced, engines, engine, todo, tunFd, opens, over>>

Publish(n) == /\ n \in established
              /\ tunFd' = n
              /\ established' = established \ {n}
              /\ UNCHANGED <<announced, engines, engine, todo, devices, opens, launched, over, crossed>>

ServiceNext == \/ Called \/ Disconnects \/ Closes \/ Connects \/ Ends
               \/ \E e \in 1..MaxStarts : handleGoEvent(e)
               \/ \E n \in 1..MaxOpens : Establish(n) \/ Publish(n)

ServiceSpec == ServiceInit /\ [][ServiceNext]_serviceVars
-----------------------------------------------------------------------------
(* The service can reach whatever it has: an engine that was not told to   *)
(* disconnect is its engine, whoever started and stopped, and, as long as  *)
(* no openTun met a stop or an open device, an open device is in tunFd or  *)
(* about to be.                                                            *)
NothingOutOfReach ==
    /\ \A e \in 1..engines : e \in engineTold \/ e = engine
    /\ crossed \/ devices \subseteq {tunFd} \cup established
=============================================================================
