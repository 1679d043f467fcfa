---------------------------- MODULE DesktopProofs ----------------------------
(***************************************************************************)
(* Proofs about DesktopClient, for any number of connect commands: which   *)
(* loop owns the socket, the device and the default route follows from     *)
(* where the loops are, so that two loops at work never share them.  And   *)
(* about TunDevice, for any number of handles: an open gives back what it  *)
(* took when it fails.  What the client relies on is what the driver does  *)
(* on Linux (Device), a read that outlives its device included.            *)
(***************************************************************************)
EXTENDS DesktopClient, TunDevice, FiniteSetTheorems, SequenceTheorems, TLAPS

HasSocket == {"handshake", "opentun", "route", "announce", "data", "unroute", "closetun", "close", "fail"}
HasTun    == {"route", "announce", "data", "unroute", "closetun"}
MayRoute  == {"announce", "data", "unroute"}

SocketsFit == \A a \in Connects : a \in sockets <=> pc[a] \in HasSocket
TunFits    == \A a \in Connects : tun = a <=> pc[a] \in HasTun

(* A read that outlives its loop's device is the last of a cancelled loop. *)
ReadersFit == \A a \in readers : /\ pc[a] = "data" \/ a \in cancelled
                                 /\ tun \in {NoConnect, a}

(* A loop whose removal failed has the route until its interface is gone.  *)
Installed(a) == pc[a] \in MayRoute \/ (pc[a] = "closetun" /\ a \in unremoved)
Left(a)      == tun = NoConnect /\ a \in unremoved \cap readers \cap cancelled
RouteFits    == route # NoConnect => Installed(route) \/ Left(route)

ClientInv == ClientTypeOK /\ SocketsFit /\ TunFits /\ ReadersFit /\ RouteFits /\ ConnectedHasTunnel

(* The client starts in the invariant.                                     *)
LEMMA InitInv == ClientInit => ClientInv
BY ClientAssumption
   DEF ClientInit, ClientInv, ClientTypeOK, PCs, Connects, NoConnect, SocketsFit, TunFits, RouteFits, ConnectedHasTunnel,
       Status, HasSocket, HasTun, ReadersFit

(* Attempts are numbers, and NoOne is none of them.                        *)
LEMMA NoConnectIsNone == NoConnect \notin Connects
BY ClientAssumption DEF NoConnect, Connects

(* The steps of a loop; those of its goroutines and commands are below.    *)
LoopSteps(a) == Loop(a) \/ BackoffCancelled(a)

(* A step of a loop moves that loop only.                                  *)
LEMMA OneLoopMoves ==
    ASSUME ClientTypeOK, NEW a \in Connects, LoopSteps(a)
    PROVE  /\ \A b \in Connects \ {a} : pc'[b] = pc[b]
           /\ \A b \in Connects \ {a} : b \in sockets' <=> b \in sockets
BY DEF ClientTypeOK, LoopSteps, Loop, Goto, links, Connect, Publish, Dial, ClientHandshake, OpenTun, AddRoute, Announce,
       DataLoopEnds, RemoveRoute, CloseTun, Close, CloseFailed, Reconnecting, BackoffOver, BackoffCancelled

(* A step of a loop keeps the types (main.go: connectLoop, doConnect).     *)
LEMMA LoopKeepsType ==
    ASSUME ClientTypeOK, NEW a \in Connects, LoopSteps(a)
    PROVE  ClientTypeOK'
<1> USE DEF ClientTypeOK, LoopSteps, Loop, Goto, PCs, control, shared, world, links
<1>1. CASE Connect(a) \/ Publish(a) \/ Dial(a) \/ ClientHandshake(a)
  BY <1>1 DEF Connect, Publish, Dial, ClientHandshake
<1>2. CASE OpenTun(a) \/ AddRoute(a) \/ Announce(a)
  BY <1>2 DEF OpenTun, AddRoute, Announce
<1>3. CASE DataLoopEnds(a) \/ RemoveRoute(a) \/ CloseTun(a) \/ Close(a)
  BY <1>3 DEF DataLoopEnds, RemoveRoute, CloseTun, Close
<1>4. CASE CloseFailed(a) \/ Reconnecting(a) \/ BackoffOver(a) \/ BackoffCancelled(a)
  BY <1>4 DEF CloseFailed, Reconnecting, BackoffOver, BackoffCancelled
<1> QED BY <1>1, <1>2, <1>3, <1>4

(* The socket and the device change hands with the label of their loop.    *)
LEMMA LoopKeepsLinks ==
    ASSUME ClientInv, NEW a \in Connects, LoopSteps(a)
    PROVE  SocketsFit' /\ TunFits'
<1> USE NoConnectIsNone DEF ClientInv
<1> USE DEF LoopSteps, Loop, Goto, control, shared, world, links
<1>1. pc'[a] \in HasSocket <=> a \in sockets'
  BY DEF ClientTypeOK, SocketsFit, HasSocket, Connect, Publish, Dial, ClientHandshake, OpenTun, AddRoute, Announce,
         DataLoopEnds, RemoveRoute, CloseTun, Close, CloseFailed, Reconnecting, BackoffOver, BackoffCancelled
<1>2. SocketsFit' BY <1>1, OneLoopMoves DEF SocketsFit
<1>3. pc'[a] \in HasTun <=> tun' = a
  BY DEF ClientTypeOK, TunFits, HasTun, Connect, Publish, Dial, ClientHandshake, OpenTun, AddRoute, Announce,
         DataLoopEnds, RemoveRoute, CloseTun, Close, CloseFailed, Reconnecting, BackoffOver, BackoffCancelled
<1>4. \A b \in Connects \ {a} : tun' = b <=> tun = b
  BY DEF ClientTypeOK, TunFits, HasTun, Connect, Publish, Dial, ClientHandshake, OpenTun, AddRoute, Announce,
         DataLoopEnds, RemoveRoute, CloseTun, Close, CloseFailed, Reconnecting, BackoffOver, BackoffCancelled
<1>5. TunFits' BY <1>3, <1>4, OneLoopMoves DEF TunFits
<1> QED BY <1>2, <1>5

(* Reads begin with the device of their loop, and it is opened when there  *)
(* are none.                                                               *)
LEMMA LoopKeepsReaders ==
    ASSUME ClientInv, NEW a \in Connects, LoopSteps(a)
    PROVE  ReadersFit'
<1> USE NoConnectIsNone DEF ClientInv
<1>1. CASE OpenTun(a)
  <2>1. UNCHANGED <<readers, cancelled>>
        /\ (readers = {} \/ (tun' = tun /\ pc[a] = "opentun"))
    BY <1>1 DEF OpenTun, Goto, control, shared
  <2> QED BY <2>1, OneLoopMoves DEF ClientTypeOK, ReadersFit
<1>2. CASE Announce(a)
  <2>1. tun = a BY <1>2 DEF Announce, TunFits, HasTun
  <2>2. readers' = {a} BY <1>2, <2>1 DEF Announce, ReadersFit
  <2>3. pc'[a] = "data" /\ tun' = a BY <1>2, <2>1 DEF Announce, Goto, ClientTypeOK
  <2> QED BY <2>2, <2>3 DEF ReadersFit
<1>3. CASE ~OpenTun(a) /\ ~Announce(a)
  <2>1. /\ UNCHANGED <<readers, cancelled>>
        /\ tun' = tun \/ tun' = NoConnect
        /\ pc[a] = "data" => a \in cancelled
    BY <1>3 DEF LoopSteps, Loop, Goto, control, shared, world, links, Connect, Publish, Dial, ClientHandshake, AddRoute,
                DataLoopEnds, RemoveRoute, CloseTun, Close, CloseFailed, Reconnecting, BackoffOver, BackoffCancelled
  <2> QED BY <2>1, OneLoopMoves DEF ClientTypeOK, ReadersFit
<1> QED BY <1>1, <1>2, <1>3

(* The route is that of the loop which has the device, or the one left to  *)
(* a read.                                                                 *)
LEMMA LoopKeepsRoute ==
    ASSUME ClientInv, NEW a \in Connects, LoopSteps(a)
    PROVE  RouteFits'
<1> USE NoConnectIsNone DEF ClientInv
<1>1. \A b \in Connects : Installed(b) => tun = b
  BY DEF Installed, TunFits, HasTun, MayRoute
<1>2. CASE OpenTun(a)
  <2>1. /\ UNCHANGED <<route, readers, cancelled, unremoved>>
        /\ pc[a] = "opentun"
        /\ (tun = NoConnect /\ readers = {}) \/ tun' = tun
    BY <1>2 DEF OpenTun, control, shared, world
  <2>2. CASE tun = NoConnect /\ readers = {}
    <3>1. route = NoConnect BY <1>1, <2>2 DEF ClientTypeOK, RouteFits, Left
    <3> QED BY <2>1, <3>1 DEF RouteFits
  <2>3. CASE tun' = tun
    BY <2>1, <2>3, OneLoopMoves DEF ClientTypeOK, RouteFits, Installed, Left, MayRoute
  <2> QED BY <2>1, <2>2, <2>3
<1>3. CASE AddRoute(a)
  <2>1. /\ pc[a] = "route" /\ pc'[a] = "announce" /\ route' \in {a, route}
        /\ UNCHANGED <<tun, readers, cancelled, unremoved>>
    BY <1>3 DEF ClientTypeOK, Goto, AddRoute, control, shared, world
  <2>2. route' = a => Installed(a)' BY <2>1 DEF Installed, MayRoute
  <2>3. route' = route => RouteFits'
    BY <2>1, OneLoopMoves DEF ClientTypeOK, RouteFits, Installed, Left, MayRoute
  <2> QED BY <2>1, <2>2, <2>3 DEF RouteFits
<1>4. CASE RemoveRoute(a)
  <2>1. /\ pc[a] = "unroute" /\ pc'[a] = "closetun" /\ UNCHANGED <<tun, readers, cancelled>>
        /\ route' = NoConnect \/ (route' = route /\ unremoved' = {a} \cap {route})
    BY <1>4 DEF ClientTypeOK, Goto, RemoveRoute, shared
  <2>2. tun = a BY <2>1 DEF TunFits, HasTun
  <2>3. route \in {NoConnect, a} BY <1>1, <2>2 DEF ClientTypeOK, RouteFits, Left
  <2> QED BY <2>1, <2>3 DEF RouteFits, Installed
<1>5. CASE CloseTun(a)
  <2>1. /\ pc[a] = "closetun" /\ UNCHANGED <<readers, cancelled>> /\ tun' = NoConnect
        /\ route' = NoConnect \/ (a \in readers /\ route' = route /\ unremoved' = unremoved \cap {route})
    BY <1>5 DEF CloseTun, shared
  <2>2. tun = a BY <2>1 DEF TunFits, HasTun
  <2>3. route # NoConnect => route = a /\ a \in unremoved
    BY <1>1, <2>1, <2>2 DEF ClientTypeOK, RouteFits, Left, Installed, MayRoute
  <2>4. a \in readers => a \in cancelled BY <2>1 DEF ReadersFit
  <2> QED BY <2>1, <2>3, <2>4 DEF RouteFits, Left
<1>6. CASE ~OpenTun(a) /\ ~AddRoute(a) /\ ~RemoveRoute(a) /\ ~CloseTun(a)
  <2>1. /\ UNCHANGED <<route, tun, cancelled, unremoved>> /\ readers \subseteq readers'
        /\ pc[a] \in MayRoute => pc'[a] \in MayRoute
        /\ pc[a] # "closetun"
    BY <1>6 DEF ClientTypeOK, MayRoute, LoopSteps, Loop, Goto, control, shared, world, links, Connect, Publish, Dial,
                ClientHandshake, Announce, DataLoopEnds, Close, CloseFailed, Reconnecting, BackoffOver, BackoffCancelled
  <2> QED BY <2>1, OneLoopMoves DEF ClientTypeOK, RouteFits, Installed, Left
<1> QED BY <1>2, <1>3, <1>4, <1>5, <1>6

(* The state "connected" comes with the address of the loop that has the   *)
(* device, and goes before that loop lets go of it.                        *)
LEMMA LoopKeepsConnected ==
    ASSUME ClientInv, NEW a \in Connects, LoopSteps(a)
    PROVE  ConnectedHasTunnel'
<1> USE NoConnectIsNone DEF ClientInv
<1> USE DEF LoopSteps, Loop, Goto, control, shared, world, links, Status
<1>1. CASE Announce(a)
  <2>1. state' = "connected" /\ virtualIP' = a /\ pc'[a] = "data" BY <1>1 DEF ClientTypeOK, Announce
  <2>2. tun' = a /\ a \in sockets'
    BY <2>1, LoopKeepsLinks DEF TunFits, SocketsFit, HasTun, HasSocket
  <2> QED BY <2>1, <2>2 DEF ConnectedHasTunnel
<1>2. CASE ~Announce(a)
  <2> SUFFICES ASSUME state' = "connected"
      PROVE  \E b \in Connects : pc'[b] = "data" /\ tun' = b /\ b \in sockets' /\ virtualIP' = b
    BY DEF ConnectedHasTunnel
  <2>1. state = "connected" /\ virtualIP' = virtualIP /\ pc[a] # "data"
    BY <1>2 DEF ClientTypeOK, Connect, Publish, Dial, ClientHandshake, OpenTun, AddRoute, DataLoopEnds, RemoveRoute,
                CloseTun, Close, CloseFailed, Reconnecting, BackoffOver, BackoffCancelled
  <2>2. PICK b \in Connects : pc[b] = "data" /\ virtualIP = b BY <2>1 DEF ConnectedHasTunnel
  <2>3. pc'[b] = "data" BY <2>1, <2>2, OneLoopMoves
  <2>4. tun' = b /\ b \in sockets'
    BY <2>3, LoopKeepsLinks DEF TunFits, SocketsFit, HasTun, HasSocket
  <2> QED BY <2>1, <2>2, <2>3, <2>4
<1> QED BY <1>1, <1>2

(* Commands and the server touch neither socket nor device nor route, and  *)
(* a context may be cancelled at any time.                                 *)
LEMMA CommandsKeepInv ==
    ASSUME ClientInv,
           \/ CommandDisconnect \/ Disconnect
           \/ \E a \in Connects : CommandConnect(a) \/ CancelTaken(a) \/ ServerForgets(a)
    PROVE  ClientInv'
<1> USE DEF ClientInv, control, shared, world, links
<1>1. ClientTypeOK'
  <2>1. CASE CommandDisconnect
    <3>1. orders' \in 0..MaxOrders
      <4>1. Cardinality(cancelling) \in Nat
        <5>1. cancelling \subseteq 1..MaxConnects BY DEF ClientTypeOK, Connects
        <5>2. IsFiniteSet(1..MaxConnects) BY ClientAssumption, FS_Interval
        <5>3. IsFiniteSet(cancelling) BY <5>1, <5>2, FS_Subset
        <5> QED BY <5>3, FS_CardinalityType
      <4> QED BY <2>1, <4>1, ClientAssumption DEF ClientTypeOK, CommandDisconnect
    <3> QED BY <2>1, <3>1 DEF ClientTypeOK, CommandDisconnect
  <2>2. CASE Disconnect
    <3>1. orders' \in 0..MaxOrders BY <2>2, ClientAssumption DEF ClientTypeOK, Disconnect
    <3>2. cancelling' \in SUBSET Connects BY <2>2 DEF ClientTypeOK, Disconnect
    <3> QED BY <2>2, <3>1, <3>2 DEF ClientTypeOK, Disconnect
  <2>3. ASSUME NEW a \in Connects, CommandConnect(a) PROVE ClientTypeOK'
    <3>1. pc' \in [Connects -> PCs] BY <2>3 DEF ClientTypeOK, PCs, Goto, CommandConnect
    <3> QED BY <2>3, <3>1 DEF ClientTypeOK, CommandConnect
  <2>4. ASSUME NEW a \in Connects, CancelTaken(a) \/ ServerForgets(a) PROVE ClientTypeOK'
    BY <2>4 DEF ClientTypeOK, CancelTaken, ServerForgets
  <2> QED BY <2>1, <2>2, <2>3, <2>4
<1>2. /\ UNCHANGED <<state, virtualIP, sockets, tun, route, readers, unremoved>>
      /\ cancelled \subseteq cancelled'
      /\ \A a \in Connects : pc'[a] = pc[a] \/ (pc[a] = "unused" /\ pc'[a] = "commanded")
  BY DEF ClientTypeOK, Goto, CommandDisconnect, Disconnect, CommandConnect, CancelTaken, ServerForgets
<1>3. SocketsFit' BY <1>2 DEF SocketsFit, HasSocket
<1>4. TunFits' BY <1>2 DEF TunFits, HasTun
<1>5. RouteFits' BY <1>2 DEF ClientTypeOK, RouteFits, Installed, Left, MayRoute
<1>6. ReadersFit' BY <1>2 DEF ClientTypeOK, ReadersFit
<1>7. ConnectedHasTunnel' BY <1>2 DEF ConnectedHasTunnel, Status
<1> QED BY <1>1, <1>3, <1>4, <1>5, <1>6, <1>7

(* The last read takes the interface with it, if its loop has closed it.   *)
LEMMA ReaderKeepsInv ==
    ASSUME ClientInv, NEW a \in Connects, ReaderEnds(a)
    PROVE  ClientInv'
<1> USE DEF ClientInv
<1>1. /\ UNCHANGED <<shared, orders, cancelling, running, gone, pc, sockets, tun>>
      /\ readers' = readers \ {a}
      /\ route' = IF route = a /\ tun # a THEN NoConnect ELSE route
      /\ unremoved' = unremoved \cap {route'}
  BY DEF ReaderEnds
<1>2. ClientTypeOK' BY <1>1 DEF ClientTypeOK, shared
<1>3. (SocketsFit /\ TunFits)' BY <1>1 DEF SocketsFit, TunFits
<1>4. ReadersFit' BY <1>1 DEF ReadersFit, shared
<1>5. RouteFits'
  <2>1. CASE route' = NoConnect BY <2>1 DEF RouteFits
  <2>2. CASE route' = route /\ route # NoConnect /\ (route # a \/ tun = a)
    <3>1. UNCHANGED <<pc, tun, cancelled>> /\ (route \in unremoved => route \in unremoved')
      BY <1>1, <2>2 DEF shared
    <3>2. Left(route) => route # a BY <2>2, NoConnectIsNone DEF Left
    <3> QED BY <1>1, <2>2, <3>1, <3>2 DEF RouteFits, Installed, Left
  <2> QED BY <1>1, <2>1, <2>2
<1>6. ConnectedHasTunnel' BY <1>1 DEF ConnectedHasTunnel, Status, shared
<1> QED BY <1>2, <1>3, <1>4, <1>5, <1>6

(* The end of the process gives everything back.                           *)
LEMMA ExitKeepsInv ==
    ASSUME ClientInv, Exit
    PROVE  ClientInv'
<1>1. /\ state' = "idle" /\ sockets' = {} /\ tun' = NoConnect /\ route' = NoConnect /\ readers' = {}
      /\ \A a \in Connects : pc'[a] = "done"
  BY DEF Exit
<1>2. ClientTypeOK'
  <2>1. orders' \in 0..MaxOrders
    <3>1. orders' = 0 BY DEF Exit
    <3> QED BY <3>1, ClientAssumption DEF ClientInv, ClientTypeOK
  <2>2. pc' \in [Connects -> PCs] BY DEF Exit, PCs
  <2>3. running' \in BOOLEAN BY DEF Exit
  <2> QED BY <2>1, <2>2, <2>3 DEF Exit, ClientTypeOK
<1>3. (SocketsFit /\ TunFits)' BY <1>1, NoConnectIsNone DEF SocketsFit, TunFits, HasSocket, HasTun
<1>4. (ReadersFit /\ RouteFits /\ ConnectedHasTunnel)'
  BY <1>1 DEF ReadersFit, RouteFits, ConnectedHasTunnel, Status
<1> QED BY <1>2, <1>3, <1>4 DEF ClientInv

(* Every step keeps the invariant.                                         *)
LEMMA NextInv == ClientInv /\ [ClientNext]_clientVars => ClientInv'
<1> SUFFICES ASSUME ClientInv, [ClientNext]_clientVars PROVE ClientInv'
  OBVIOUS
<1>1. ASSUME NEW a \in Connects, Loop(a) \/ BackoffCancelled(a) PROVE ClientInv'
  <2>1. LoopSteps(a) BY <1>1 DEF LoopSteps
  <2> QED BY <2>1, LoopKeepsType, LoopKeepsLinks, LoopKeepsReaders, LoopKeepsRoute, LoopKeepsConnected
          DEF ClientInv
<1>2. CASE UNCHANGED clientVars
  BY <1>2 DEF clientVars, control, shared, world, links, ClientInv, ClientTypeOK, SocketsFit, TunFits, ReadersFit, RouteFits,
              Installed, Left, ConnectedHasTunnel, Status
<1> QED BY <1>1, <1>2, CommandsKeepInv, ReaderKeepsInv, ExitKeepsInv DEF ClientNext

(* The inductive invariant holds throughout.                               *)
THEOREM ClientInvariant == ClientSpec => []ClientInv
BY InitInv, NextInv, PTL DEF ClientSpec
-----------------------------------------------------------------------------
(* Variables keep their types, whatever loops run beside each other.       *)
THEOREM ClientTypes == ClientSpec => []ClientTypeOK
<1>1. ClientInv => ClientTypeOK BY DEF ClientInv
<1> QED BY <1>1, ClientInvariant, PTL

(* "connected" is shown only with the address of a loop that moves packets *)
(* through an open device and an open socket, for any number of connects   *)
(* (main.go: connect, doConnect, runDataLoop).                             *)
THEOREM ConnectedTunnel == ClientSpec => []ConnectedHasTunnel
<1>1. ClientInv => ConnectedHasTunnel BY DEF ClientInv
<1> QED BY <1>1, ClientInvariant, PTL

(* The default route leads into the device of its own loop, or a command   *)
(* failed to remove it and a last read keeps its interface while no loop   *)
(* has a device, for any number of connects (main.go: doConnect).          *)
THEOREM RouteIntoTun == ClientSpec => []RouteHasTun
<1>1. ClientInv => RouteHasTun
  <2> SUFFICES ASSUME ClientInv, route # NoConnect PROVE RouteHasTun
    BY DEF RouteHasTun
  <2>1. CASE Installed(route)
    BY <2>1 DEF ClientInv, ClientTypeOK, TunFits, Installed, HasTun, MayRoute, RouteHasTun
  <2>2. CASE Left(route)
    BY <2>2 DEF Left, RouteHasTun
  <2> QED BY <2>1, <2>2 DEF ClientInv, RouteFits
<1> QED BY <1>1, ClientInvariant, PTL

(* A loop that is over has closed its socket and its device, and a read it *)
(* left behind is its last, with no device open (main.go: doConnect).      *)
THEOREM LoopsGiveBack == ClientSpec => []NothingLeaks
<1>1. ClientInv => NothingLeaks
  BY DEF ClientInv, SocketsFit, TunFits, ReadersFit, NothingLeaks, HasSocket, HasTun
<1> QED BY <1>1, ClientInvariant, PTL

(* UsesDevice, for any number of connects: every step of the client is one *)
(* of the device or leaves it alone (main.go: doConnect, runDataLoop).     *)
THEOREM ClientUsesDevice == ClientSpec => UsesDevice
<1>1. ClientInit => TheDevice!DeviceInit
  BY DEF ClientInit, TheDevice!DeviceInit
<1>2. ClientInv /\ [ClientNext]_clientVars => [TheDevice!DeviceNext]_(TheDevice!deviceVars)
  <2> SUFFICES ASSUME ClientInv, [ClientNext]_clientVars
               PROVE  TheDevice!DeviceNext \/ UNCHANGED <<tun, readers>>
    BY DEF TheDevice!deviceVars
  <2>0. \A a \in Connects : a # NoConnect
    BY NoConnectIsNone
  <2>1. ASSUME NEW a \in Connects, Loop(a) PROVE TheDevice!DeviceNext \/ UNCHANGED <<tun, readers>>
    <3>1. CASE OpenTun(a)
      BY <2>0, <3>1 DEF OpenTun, TheDevice!DeviceNext, TheDevice!Obtain
    <3>2. CASE Announce(a)
      <4>1. tun = a
        BY <3>2 DEF Announce, ClientInv, TunFits, HasTun
      <4> QED BY <2>0, <3>2, <4>1 DEF Announce, TheDevice!DeviceNext, TheDevice!ReadBegins
    <3>3. CASE CloseTun(a)
      <4>1. tun = a
        BY <3>3 DEF CloseTun, ClientInv, TunFits, HasTun
      <4> QED BY <2>0, <3>3, <4>1 DEF CloseTun, TheDevice!DeviceNext, TheDevice!Release
    <3> QED BY <2>1, <3>1, <3>2, <3>3
            DEF Loop, Connect, Publish, Dial, ClientHandshake, AddRoute, DataLoopEnds, RemoveRoute, Close, CloseFailed,
                Reconnecting, BackoffOver, links
  <2>2. ASSUME NEW a \in Connects, ReaderEnds(a) PROVE TheDevice!DeviceNext
    BY <2>2 DEF ReaderEnds, TheDevice!DeviceNext, TheDevice!ReadEnds
  <2>3. CASE Exit
    BY <2>3 DEF Exit, TheDevice!DeviceNext, TheDevice!Abandoned
  <2> QED BY <2>1, <2>2, <2>3
          DEF ClientNext, clientVars, links, CommandDisconnect, Disconnect, CommandConnect, CancelTaken, BackoffCancelled, ServerForgets
<1> QED BY <1>1, <1>2, ClientInvariant, PTL DEF ClientSpec, UsesDevice, TheDevice!DeviceSpec
-----------------------------------------------------------------------------
Phases == {"new", "opening", "open", "closed", "failed"}
Handed == {"fd", "adapter", "session"}
Items  == Handed \cup {"interface", "control", "name", "up", "addr", "mtu", "dll"}

TunTypeOK == /\ goos \in Systems
             /\ phase \in [Handles -> Phases]
             /\ step \in [Handles -> Nat]
             /\ has \in [Handles -> SUBSET Items]
             /\ busy \subseteq Handles

(* What the openTUN of each system has when it comes to its n-th step.     *)
LinuxAt(H, n)   == /\ n \in 1..5
                   /\ H \cap {"adapter", "session"} = {} /\ ("fd" \in H <=> n > 1)
                   /\ "interface" \in H <=> n > 2
                   /\ n > 3 => "up" \in H
DarwinAt(H, n)  == /\ n \in 1..7
                   /\ H \cap {"adapter", "session"} = {} /\ ("fd" \in H <=> n > 1)
                   /\ n > 3 => "interface" \in H
                   /\ n > 5 => "up" \in H
WindowsAt(H, n) == /\ n \in 1..5
                   /\ H \cap {"fd", "session"} = {} /\ ("adapter" \in H <=> n > 2)
                   /\ n > 3 => "addr" \in H

OpeningAt(H, n) == /\ goos = "linux"   => LinuxAt(H, n)
                   /\ goos = "darwin"  => DarwinAt(H, n)
                   /\ goos = "windows" => WindowsAt(H, n)

Complete(H) == IF goos = "windows" THEN {"adapter", "session", "addr"} \subseteq H
               ELSE {"fd", "interface", "up"} \subseteq H

HandleFits(h) == /\ phase[h] = "new"     => step[h] = 1 /\ has[h] = {}
                 /\ phase[h] = "opening" => OpeningAt(has[h], step[h])
                 /\ phase[h] = "open"    => Complete(has[h])
                 /\ phase[h] = "failed"  => has[h] \cap Handed = {}
                 /\ h \in busy => phase[h] \in {"open", "closed"} /\ (goos # "windows" => {"fd", "interface"} \subseteq has[h])

TunInv == TunTypeOK /\ \A h \in Handles : HandleFits(h)

Is(s, what, fatal, closes) == s.gets = what /\ s.fatal = fatal /\ s.closes = closes

(* The table of openTUN's steps, read row by row (tun_linux.go). *)
LEMMA LinuxSteps ==
    /\ Len(OpenLinux) = 5
    /\ Is(OpenLinux[1], "fd", TRUE, {})
    /\ Is(OpenLinux[2], "interface", TRUE, {"fd"})
    /\ Is(OpenLinux[3], "up", TRUE, {"fd"})
    /\ Is(OpenLinux[4], "addr", TRUE, {"fd"})
    /\ Is(OpenLinux[5], "mtu", TRUE, {"fd"})
BY DEF OpenLinux, Must, Is

(* Linux: a step that succeeds leads to the next or ends with everything,  *)
(* one that fails gives the descriptor back (tun_linux.go: openTUN).       *)
LEMMA LinuxStep ==
    ASSUME NEW H, NEW n, LinuxAt(H, n)
    PROVE  LET s == OpenLinux[n] IN
           /\ s.gets \in Items
           /\ n # Len(OpenLinux) => LinuxAt(H \cup {s.gets}, n + 1)
           /\ n = Len(OpenLinux) => {"fd", "interface", "up"} \subseteq H \cup {s.gets}
           /\ s.fatal => (H \ s.closes) \cap Handed = {}
           /\ ~s.fatal => LinuxAt(H, n + 1)
<1>0. n = 1 \/ n = 2 \/ n = 3 \/ n = 4 \/ n = 5
  BY DEF LinuxAt
<1>1. CASE n = 1 BY <1>1, LinuxSteps DEF LinuxAt, Handed, Items, Is
<1>2. CASE n = 2 BY <1>2, LinuxSteps DEF LinuxAt, Handed, Items, Is
<1>3. CASE n = 3 BY <1>3, LinuxSteps DEF LinuxAt, Handed, Items, Is
<1>4. CASE n = 4 BY <1>4, LinuxSteps DEF LinuxAt, Handed, Items, Is
<1>5. CASE n = 5 BY <1>5, LinuxSteps DEF LinuxAt, Handed, Items, Is
<1> QED BY <1>0, <1>1, <1>2, <1>3, <1>4, <1>5

(* The table of openTUN's steps, read row by row (tun_darwin.go). *)
LEMMA DarwinSteps ==
    /\ Len(OpenDarwin) = 7
    /\ Is(OpenDarwin[1], "fd", TRUE, {})
    /\ Is(OpenDarwin[2], "control", TRUE, {"fd"})
    /\ Is(OpenDarwin[3], "interface", TRUE, {"fd"})
    /\ Is(OpenDarwin[4], "name", TRUE, {"fd"})
    /\ Is(OpenDarwin[5], "up", TRUE, {"fd"})
    /\ Is(OpenDarwin[6], "addr", FALSE, {})
    /\ Is(OpenDarwin[7], "mtu", TRUE, {"fd"})
BY DEF OpenDarwin, Must, May, Is

(* macOS: the same, and the address is the one step whose failure is       *)
(* passed over (tun_darwin.go: openTUN).                                   *)
LEMMA DarwinStep ==
    ASSUME NEW H, NEW n, DarwinAt(H, n)
    PROVE  LET s == OpenDarwin[n] IN
           /\ s.gets \in Items
           /\ n # Len(OpenDarwin) => DarwinAt(H \cup {s.gets}, n + 1)
           /\ n = Len(OpenDarwin) => {"fd", "interface", "up"} \subseteq H \cup {s.gets}
           /\ s.fatal => (H \ s.closes) \cap Handed = {}
           /\ ~s.fatal => DarwinAt(H, n + 1)
<1>0. n = 1 \/ n = 2 \/ n = 3 \/ n = 4 \/ n = 5 \/ n = 6 \/ n = 7
  BY DEF DarwinAt
<1>1. CASE n = 1 BY <1>1, DarwinSteps DEF DarwinAt, Handed, Items, Is
<1>2. CASE n = 2 BY <1>2, DarwinSteps DEF DarwinAt, Handed, Items, Is
<1>3. CASE n = 3 BY <1>3, DarwinSteps DEF DarwinAt, Handed, Items, Is
<1>4. CASE n = 4 BY <1>4, DarwinSteps DEF DarwinAt, Handed, Items, Is
<1>5. CASE n = 5 BY <1>5, DarwinSteps DEF DarwinAt, Handed, Items, Is
<1>6. CASE n = 6 BY <1>6, DarwinSteps DEF DarwinAt, Handed, Items, Is
<1>7. CASE n = 7 BY <1>7, DarwinSteps DEF DarwinAt, Handed, Items, Is
<1> QED BY <1>0, <1>1, <1>2, <1>3, <1>4, <1>5, <1>6, <1>7

(* The table of openTUN's steps, read row by row (tun_windows.go). *)
LEMMA WindowsSteps ==
    /\ Len(OpenWindows) = 5
    /\ Is(OpenWindows[1], "dll", TRUE, {})
    /\ Is(OpenWindows[2], "adapter", TRUE, {})
    /\ Is(OpenWindows[3], "addr", TRUE, {"adapter"})
    /\ Is(OpenWindows[4], "mtu", FALSE, {})
    /\ Is(OpenWindows[5], "session", TRUE, {"adapter"})
BY DEF OpenWindows, Must, May, Is

(* Windows: the adapter is there from its step on, and the MTU is the one  *)
(* step whose failure is passed over (tun_windows.go: openTUN).            *)
LEMMA WindowsStep ==
    ASSUME NEW H, NEW n, WindowsAt(H, n)
    PROVE  LET s == OpenWindows[n] IN
           /\ s.gets \in Items
           /\ n # Len(OpenWindows) => WindowsAt(H \cup {s.gets}, n + 1)
           /\ n = Len(OpenWindows) => {"adapter", "session", "addr"} \subseteq H \cup {s.gets}
           /\ s.fatal => (H \ s.closes) \cap Handed = {}
           /\ ~s.fatal => WindowsAt(H, n + 1)
<1>0. n = 1 \/ n = 2 \/ n = 3 \/ n = 4 \/ n = 5
  BY DEF WindowsAt
<1>1. CASE n = 1 BY <1>1, WindowsSteps DEF WindowsAt, Handed, Items, Is
<1>2. CASE n = 2 BY <1>2, WindowsSteps DEF WindowsAt, Handed, Items, Is
<1>3. CASE n = 3 BY <1>3, WindowsSteps DEF WindowsAt, Handed, Items, Is
<1>4. CASE n = 4 BY <1>4, WindowsSteps DEF WindowsAt, Handed, Items, Is
<1>5. CASE n = 5 BY <1>5, WindowsSteps DEF WindowsAt, Handed, Items, Is
<1> QED BY <1>0, <1>1, <1>2, <1>3, <1>4, <1>5

(* On every system a step of openTUN leads to the next one, to a complete  *)
(* device, or to a failure that keeps nothing.                             *)
LEMMA StepOfOpen ==
    ASSUME goos \in Systems, NEW H, NEW n, OpeningAt(H, n)
    PROVE  LET s == OpenTUN[n] IN
           /\ n \in Nat /\ s.gets \in Items
           /\ n # Len(OpenTUN) => OpeningAt(H \cup {s.gets}, n + 1)
           /\ n = Len(OpenTUN) => Complete(H \cup {s.gets})
           /\ s.fatal => (H \ s.closes) \cap Handed = {}
           /\ ~s.fatal => OpeningAt(H, n + 1)
<1>1. CASE goos = "linux"
  <2>0. OpenTUN = OpenLinux
    BY <1>1 DEF OpenTUN
  <2>1. /\ \A G, m : OpeningAt(G, m) <=> LinuxAt(G, m)
        /\ \A G : Complete(G) <=> {"fd", "interface", "up"} \subseteq G
    BY <1>1 DEF OpeningAt, Complete
  <2>2. n \in Nat /\ LinuxAt(H, n)
    BY <2>1 DEF LinuxAt
  <2>3. /\ OpenLinux[n].gets \in Items
        /\ n # Len(OpenLinux) => LinuxAt(H \cup {OpenLinux[n].gets}, n + 1)
        /\ n = Len(OpenLinux) => {"fd", "interface", "up"} \subseteq H \cup {OpenLinux[n].gets}
        /\ OpenLinux[n].fatal => (H \ OpenLinux[n].closes) \cap Handed = {}
        /\ ~OpenLinux[n].fatal => LinuxAt(H, n + 1)
    BY <2>2, LinuxStep, Zenon
  <2> QED BY <2>0, <2>1, <2>2, <2>3
<1>2. CASE goos = "darwin"
  <2>0. OpenTUN = OpenDarwin
    BY <1>2 DEF OpenTUN
  <2>1. /\ \A G, m : OpeningAt(G, m) <=> DarwinAt(G, m)
        /\ \A G : Complete(G) <=> {"fd", "interface", "up"} \subseteq G
    BY <1>2 DEF OpeningAt, Complete
  <2>2. n \in Nat /\ DarwinAt(H, n)
    BY <2>1 DEF DarwinAt
  <2>3. /\ OpenDarwin[n].gets \in Items
        /\ n # Len(OpenDarwin) => DarwinAt(H \cup {OpenDarwin[n].gets}, n + 1)
        /\ n = Len(OpenDarwin) => {"fd", "interface", "up"} \subseteq H \cup {OpenDarwin[n].gets}
        /\ OpenDarwin[n].fatal => (H \ OpenDarwin[n].closes) \cap Handed = {}
        /\ ~OpenDarwin[n].fatal => DarwinAt(H, n + 1)
    BY <2>2, DarwinStep, Zenon
  <2> QED BY <2>0, <2>1, <2>2, <2>3
<1>3. CASE goos = "windows"
  <2>0. OpenTUN = OpenWindows
    BY <1>3 DEF OpenTUN
  <2>1. /\ \A G, m : OpeningAt(G, m) <=> WindowsAt(G, m)
        /\ \A G : Complete(G) <=> {"adapter", "session", "addr"} \subseteq G
    BY <1>3 DEF OpeningAt, Complete
  <2>2. n \in Nat /\ WindowsAt(H, n)
    BY <2>1 DEF WindowsAt
  <2>3. /\ OpenWindows[n].gets \in Items
        /\ n # Len(OpenWindows) => WindowsAt(H \cup {OpenWindows[n].gets}, n + 1)
        /\ n = Len(OpenWindows) => {"adapter", "session", "addr"} \subseteq H \cup {OpenWindows[n].gets}
        /\ OpenWindows[n].fatal => (H \ OpenWindows[n].closes) \cap Handed = {}
        /\ ~OpenWindows[n].fatal => WindowsAt(H, n + 1)
    BY <2>2, WindowsStep, Zenon
  <2> QED BY <2>0, <2>1, <2>2, <2>3
<1> QED BY <1>1, <1>2, <1>3 DEF Systems

(* A handle is as it was when a step leaves its state alone.               *)
LEMMA HandleKept ==
    ASSUME NEW u \in Handles, HandleFits(u), UNCHANGED goos,
           phase'[u] = phase[u], step'[u] = step[u], has'[u] = has[u], u \in busy' => u \in busy
    PROVE  HandleFits(u)'
BY DEF HandleFits, OpeningAt, Complete

(* A step of openTUN, whether it succeeds or fails, keeps the invariant.   *)
LEMMA OpenKeeps ==
    ASSUME TunInv, NEW h \in Handles, StepDone(h) \/ StepFails(h)
    PROVE  TunInv'
<1> DEFINE s == OpenTUN[step[h]]
<1>1. /\ TunTypeOK /\ HandleFits(h) /\ phase[h] = "opening" /\ UNCHANGED <<goos, busy>>
      /\ OpeningAt(has[h], step[h]) /\ h \notin busy
  BY DEF TunInv, HandleFits, StepDone, StepFails
<1>2. /\ step[h] \in Nat /\ s.gets \in Items
      /\ step[h] # Len(OpenTUN) => OpeningAt(has[h] \cup {s.gets}, step[h] + 1)
      /\ step[h] = Len(OpenTUN) => Complete(has[h] \cup {s.gets})
      /\ s.fatal => (has[h] \ s.closes) \cap Handed = {}
      /\ ~s.fatal => OpeningAt(has[h], step[h] + 1)
  BY <1>1, StepOfOpen DEF TunTypeOK
<1>3. CASE StepDone(h)
  <2>1. /\ has' = [has EXCEPT ![h] = @ \cup {s.gets}]
        /\ IF step[h] = Len(OpenTUN)
           THEN phase' = [phase EXCEPT ![h] = "open"] /\ step' = step
           ELSE step' = [step EXCEPT ![h] = @ + 1] /\ phase' = phase
    BY <1>3 DEF StepDone
  <2> HIDE DEF s
  <2>2. TunTypeOK'
    BY <2>1, <1>1, <1>2 DEF TunTypeOK, Phases
  <2>3. has'[h] = has[h] \cup {s.gets}
    BY <2>1, <1>1 DEF TunTypeOK
  <2>4. CASE step[h] = Len(OpenTUN)
    <3>1. phase'[h] = "open" /\ h \notin busy'
      BY <2>1, <2>4, <1>1 DEF TunTypeOK
    <3>2. Complete(has[h])'
      BY <2>3, <2>4, <1>1, <1>2 DEF Complete
    <3>3. HandleFits(h)'
      BY <3>1, <3>2 DEF HandleFits
    <3>4. ASSUME NEW u \in Handles, u # h PROVE HandleFits(u)'
      BY <3>4, <2>1, <2>4, <1>1, HandleKept DEF TunInv, TunTypeOK
    <3> QED BY <2>2, <3>3, <3>4 DEF TunInv
  <2>5. CASE step[h] # Len(OpenTUN)
    <3>1. phase'[h] = "opening" /\ h \notin busy' /\ step'[h] = step[h] + 1
      BY <2>1, <2>5, <1>1 DEF TunTypeOK
    <3>2. OpeningAt(has[h], step[h])'
      BY <3>1, <2>3, <2>5, <1>1, <1>2 DEF OpeningAt
    <3>3. HandleFits(h)'
      BY <3>1, <3>2 DEF HandleFits
    <3>4. ASSUME NEW u \in Handles, u # h PROVE HandleFits(u)'
      BY <3>4, <2>1, <2>5, <1>1, HandleKept DEF TunInv, TunTypeOK
    <3> QED BY <2>2, <3>3, <3>4 DEF TunInv
  <2> QED BY <2>4, <2>5
<1>4. CASE StepFails(h)
  <2>1. IF s.fatal
        THEN /\ phase' = [phase EXCEPT ![h] = "failed"]
             /\ has' = [has EXCEPT ![h] = @ \ s.closes] /\ step' = step
        ELSE step' = [step EXCEPT ![h] = @ + 1] /\ phase' = phase /\ has' = has
    BY <1>4 DEF StepFails
  <2> HIDE DEF s
  <2>2. TunTypeOK'
    BY <2>1, <1>1, <1>2 DEF TunTypeOK, Phases
  <2>3. CASE s.fatal
    <3>1. phase'[h] = "failed" /\ h \notin busy' /\ has'[h] = has[h] \ s.closes
      BY <2>1, <2>3, <1>1 DEF TunTypeOK
    <3>2. HandleFits(h)'
      BY <3>1, <2>3, <1>2 DEF HandleFits
    <3>3. ASSUME NEW u \in Handles, u # h PROVE HandleFits(u)'
      BY <3>3, <2>1, <2>3, <1>1, HandleKept DEF TunInv, TunTypeOK
    <3> QED BY <2>2, <3>2, <3>3 DEF TunInv
  <2>4. CASE ~s.fatal
    <3>1. phase'[h] = "opening" /\ h \notin busy' /\ step'[h] = step[h] + 1 /\ has'[h] = has[h]
      BY <2>1, <2>4, <1>1 DEF TunTypeOK
    <3>2. OpeningAt(has[h], step[h])'
      BY <3>1, <2>4, <1>1, <1>2 DEF OpeningAt
    <3>3. HandleFits(h)'
      BY <3>1, <3>2 DEF HandleFits
    <3>4. ASSUME NEW u \in Handles, u # h PROVE HandleFits(u)'
      BY <3>4, <2>1, <2>4, <1>1, HandleKept DEF TunInv, TunTypeOK
    <3> QED BY <2>2, <3>3, <3>4 DEF TunInv
  <2> QED BY <2>3, <2>4
<1> QED BY <1>3, <1>4

(* Whatever its handles do, an open device has everything, a failed one    *)
(* nothing, and a read has its descriptor.                                 *)
THEOREM TunInvariant == TunSpec => []TunInv
<1>1. TunInit => TunInv
  <2> SUFFICES ASSUME TunInit PROVE TunInv
    OBVIOUS
  <2>1. TunTypeOK
    BY DEF TunInit, TunTypeOK, Phases, Items
  <2>2. ASSUME NEW h \in Handles PROVE HandleFits(h)
    BY DEF TunInit, HandleFits
  <2> QED BY <2>1, <2>2 DEF TunInv
<1>2. TunInv /\ [TunNext]_tunVars => TunInv'
  <2> SUFFICES ASSUME TunInv, [TunNext]_tunVars PROVE TunInv'
    OBVIOUS
  <2>1. CASE UNCHANGED tunVars
    <3>1. TunTypeOK'
      BY <2>1 DEF TunInv, TunTypeOK, tunVars, device
    <3> QED BY <2>1, <3>1, HandleKept DEF TunInv, tunVars, device
  <2>2. ASSUME NEW h \in Handles, OpenBegins(h) PROVE TunInv'
    <3>1. /\ phase[h] = "new" /\ phase' = [phase EXCEPT ![h] = "opening"]
          /\ UNCHANGED <<goos, step, has, busy>> /\ HandleFits(h) /\ TunTypeOK
      BY <2>2 DEF OpenBegins, TunInv
    <3>2. TunTypeOK' /\ phase'[h] = "opening"
      BY <3>1 DEF TunTypeOK, Phases
    <3>3. has[h] = {} /\ step[h] = 1 /\ h \notin busy
      BY <3>1 DEF HandleFits
    <3>4. LinuxAt({}, 1) /\ DarwinAt({}, 1) /\ WindowsAt({}, 1)
      BY DEF LinuxAt, DarwinAt, WindowsAt
    <3>5. HandleFits(h)'
      BY <3>1, <3>2, <3>3, <3>4 DEF HandleFits, OpeningAt
    <3>6. ASSUME NEW u \in Handles, u # h PROVE HandleFits(u)'
      BY <3>6, <3>1, HandleKept DEF TunInv, TunTypeOK
    <3> QED BY <3>2, <3>5, <3>6 DEF TunInv
  <2>3. ASSUME NEW h \in Handles, StepDone(h) \/ StepFails(h) PROVE TunInv'
    BY <2>3, OpenKeeps
  <2>4. ASSUME NEW h \in Handles, ReadPacketBegins(h) PROVE TunInv'
    <3>1. /\ phase[h] = "open" /\ busy' = busy \cup {h} /\ UNCHANGED device
          /\ HandleFits(h) /\ TunTypeOK
      BY <2>4 DEF ReadPacketBegins, TunInv
    <3>2. TunTypeOK'
      BY <3>1 DEF TunTypeOK, device
    <3>3. HandleFits(h)'
      BY <3>1 DEF HandleFits, Complete, device
    <3>4. ASSUME NEW u \in Handles, u # h PROVE HandleFits(u)'
      BY <3>4, <3>1, HandleKept DEF TunInv, device
    <3> QED BY <3>2, <3>3, <3>4 DEF TunInv
  <2>5. ASSUME NEW h \in Handles, ReadPacketReturns(h) PROVE TunInv'
    <3>1. /\ h \in busy /\ busy' = busy \ {h} /\ UNCHANGED <<goos, phase, step>>
          /\ has' = IF phase[h] = "closed" THEN [has EXCEPT ![h] = @ \ {"fd"}] ELSE has
          /\ HandleFits(h) /\ TunTypeOK
      BY <2>5 DEF ReadPacketReturns, TunInv
    <3>2. TunTypeOK'
      BY <3>1 DEF TunTypeOK
    <3>3. HandleFits(h)'
      BY <3>1 DEF HandleFits, Complete
    <3>4. ASSUME NEW u \in Handles, u # h PROVE HandleFits(u)'
      BY <3>4, <3>1, HandleKept DEF TunInv, TunTypeOK
    <3> QED BY <3>2, <3>3, <3>4 DEF TunInv
  <2>6. ASSUME NEW h \in Handles, CloseDevice(h) PROVE TunInv'
    <3>1. /\ phase[h] = "open" /\ phase' = [phase EXCEPT ![h] = "closed"]
          /\ has' = [has EXCEPT ![h] = @ \ GivenUp(h)] /\ UNCHANGED <<goos, step, busy>>
          /\ HandleFits(h) /\ TunTypeOK
      BY <2>6 DEF CloseDevice, TunInv
    <3>2. TunTypeOK' /\ phase'[h] = "closed" /\ has'[h] = has[h] \ GivenUp(h)
      BY <3>1 DEF TunTypeOK, Phases
    <3>3. goos # "windows" /\ h \in busy => {"fd", "interface"} \cap GivenUp(h) = {}
      BY <3>1 DEF GivenUp, LinuxClose, DarwinClose, TunTypeOK, Systems
    <3>4. HandleFits(h)'
      BY <3>1, <3>2, <3>3 DEF HandleFits
    <3>5. ASSUME NEW u \in Handles, u # h PROVE HandleFits(u)'
      BY <3>5, <3>1, HandleKept DEF TunInv, TunTypeOK
    <3> QED BY <3>2, <3>4, <3>5 DEF TunInv
  <2>7. ASSUME NEW h \in Handles, WritePacket(h) \/ addRoute(h) \/ removeRoute(h) PROVE TunInv'
    <3>1. UNCHANGED <<device, busy>>
      BY <2>7 DEF WritePacket, addRoute, removeRoute
    <3>2. TunTypeOK'
      BY <3>1 DEF TunInv, TunTypeOK, device
    <3> QED BY <3>1, <3>2, HandleKept DEF TunInv, device
  <2> QED BY <2>1, <2>2, <2>3, <2>4, <2>5, <2>6, <2>7 DEF TunNext
<1> QED BY <1>1, <1>2, PTL DEF TunSpec

(* Whichever step of an open fails, nothing it took is kept, and a device  *)
(* that is handed out is complete (tun_linux.go, tun_darwin.go and         *)
(* tun_windows.go: openTUN).                                               *)
THEOREM OpenGivesBack == TunSpec => []OpenIsAllOrNothing
<1>1. TunInv => OpenIsAllOrNothing
  BY DEF TunInv, HandleFits, OpenIsAllOrNothing, Complete, Handed
<1> QED BY <1>1, TunInvariant, PTL

(* On Linux only one handle has a descriptor with the name ...             *)
HasName(h) == {"fd", "interface"} \subseteq has[h]
OneHasName == \A g, h \in Handles : HasName(g) /\ HasName(h) => g = h

NameInv == goos = "linux" => OneHasName

(* The system stays the same.                                              *)
LEMMA SystemStays == [TunNext]_tunVars => goos' = goos
BY DEF TunNext, tunVars, device, OpenBegins, StepDone, StepFails, ReadPacketBegins, ReadPacketReturns, WritePacket, CloseDevice,
       addRoute, removeRoute

(* ... because openTUN gets the name only when no other has it.            *)
LEMMA NameIsKept == TunInv /\ goos = "linux" /\ OneHasName /\ [TunNext]_tunVars => OneHasName' /\ goos' = "linux"
<1> SUFFICES ASSUME TunInv, goos = "linux", OneHasName, [TunNext]_tunVars PROVE OneHasName' /\ goos' = "linux"
  OBVIOUS
<1>0. TunTypeOK
  BY DEF TunInv
<1>1. ASSUME UNCHANGED goos, \A h \in Handles : has'[h] \subseteq has[h] PROVE OneHasName' /\ goos' = "linux"
  BY <1>1 DEF OneHasName, HasName
<1>2. ASSUME NEW h \in Handles, StepDone(h) PROVE OneHasName' /\ goos' = "linux"
  <2> DEFINE s == OpenTUN[step[h]]
  <2>1. /\ UNCHANGED goos /\ has' = [has EXCEPT ![h] = @ \cup {s.gets}]
        /\ ~(s.gets = "interface" /\ NameTaken(h)) /\ phase[h] = "opening"
    BY <1>2 DEF StepDone
  <2>2. LinuxAt(has[h], step[h]) /\ s = OpenLinux[step[h]]
    BY <2>1 DEF TunInv, HandleFits, OpeningAt, OpenTUN
  <2>3. step[h] = 1 => s.gets = "fd" /\ "interface" \notin has[h]
    BY <2>2, LinuxSteps DEF LinuxAt, Is
  <2>4. s.gets = "fd" => step[h] = 1
    BY <2>2, LinuxSteps DEF LinuxAt, Is
  <2> HIDE DEF s
  <2>5. /\ has'[h] = has[h] \cup {s.gets}
        /\ \A g \in Handles \ {h} : has'[g] = has[g]
    BY <1>0, <2>1 DEF TunTypeOK
  <2>6. ASSUME NEW g \in Handles \ {h}, HasName(g), ~HasName(h) PROVE ~HasName(h)'
    <3>1. CASE s.gets = "interface"
      BY <2>1, <2>6, <3>1 DEF NameTaken, HasName
    <3>2. CASE s.gets # "interface"
      BY <2>3, <2>4, <2>5, <2>6, <3>2 DEF HasName
    <3> QED BY <3>1, <3>2
  <2>7. \A g \in Handles \ {h} : HasName(g)' <=> HasName(g)
    BY <2>5 DEF HasName
  <2> QED BY <2>1, <2>6, <2>7 DEF OneHasName
<1>3. ASSUME NEW h \in Handles, StepFails(h) PROVE OneHasName' /\ goos' = "linux"
  <2>1. UNCHANGED goos /\ \A g \in Handles : has'[g] \subseteq has[g]
    BY <1>0, <1>3 DEF StepFails, TunTypeOK
  <2> QED BY <1>1, <2>1
<1>4. ASSUME NEW h \in Handles, ReadPacketReturns(h) \/ CloseDevice(h) PROVE OneHasName' /\ goos' = "linux"
  <2>1. UNCHANGED goos /\ \A g \in Handles : has'[g] \subseteq has[g]
    BY <1>0, <1>4 DEF ReadPacketReturns, CloseDevice, TunTypeOK
  <2> QED BY <1>1, <2>1
<1>5. ASSUME UNCHANGED <<goos, has>> PROVE OneHasName' /\ goos' = "linux"
  BY <1>1, <1>5
<1> QED BY <1>2, <1>3, <1>4, <1>5
        DEF TunNext, tunVars, device, OpenBegins, ReadPacketBegins, WritePacket, addRoute, removeRoute

(* A handle whose device is open, or in use by a read, has the name.       *)
LEMMA OpenHasName ==
    ASSUME TunInv, goos = "linux", NEW h \in Handles, phase[h] = "open" \/ h \in busy
    PROVE  HasName(h)
BY DEF TunInv, HandleFits, Complete, HasName

(* ImplementsDevice, for any number of handles (tun_linux.go: openTUN,     *)
(* Close): what DesktopClient relies on is what the driver does.           *)
THEOREM LinuxIsDevice == TunSpec => ImplementsDevice
<1>1. TunInit => LinuxDevice!DeviceInit /\ NameInv
  BY DEF TunInit, LinuxDevice!DeviceInit, NameInv, OneHasName, HasName
<1>2. TunInv /\ goos = "linux" /\ OneHasName /\ OneHasName' /\ TunInv' /\ [TunNext]_tunVars
          => [LinuxDevice!DeviceNext]_(LinuxDevice!deviceVars)
  <2> DEFINE opened == {h \in Handles : phase[h] = "open"}
  <2> SUFFICES ASSUME TunInv, goos = "linux", OneHasName, OneHasName', TunInv', goos' = "linux", [TunNext]_tunVars
               PROVE  LinuxDevice!DeviceNext \/ (opened' = opened /\ busy' = busy)
    BY NameIsKept DEF LinuxDevice!deviceVars
  <2>0. TunTypeOK
    BY DEF TunInv
  <2>1. ASSUME NEW h \in Handles, StepDone(h) PROVE LinuxDevice!DeviceNext \/ (opened' = opened /\ busy' = busy)
    <3>1. CASE phase' = phase
      BY <2>1, <3>1 DEF StepDone
    <3>2. CASE phase' # phase
      <4>1. /\ phase' = [phase EXCEPT ![h] = "open"] /\ busy' = busy /\ phase[h] = "opening"
            /\ \A g \in Handles \ {h} : has'[g] = has[g]
        BY <2>0, <2>1, <3>2 DEF StepDone, TunTypeOK
      <4>2. phase'[h] = "open" /\ opened' = opened \cup {h} /\ h \notin busy
        BY <2>0, <4>1 DEF TunTypeOK, TunInv, HandleFits
      <4>3. HasName(h)'
        BY <4>2 DEF TunInv, HandleFits, Complete, HasName
      <4>4. ASSUME NEW g \in Handles, phase[g] = "open" \/ g \in busy PROVE FALSE
        <5>1. HasName(g) /\ g # h
          BY <4>1, <4>2, <4>4, OpenHasName
        <5>2. HasName(g)'
          BY <4>1, <5>1 DEF HasName
        <5> QED BY <4>3, <5>1, <5>2 DEF OneHasName
      <4>5. opened = {} /\ busy = {}
        BY <2>0, <4>4 DEF TunTypeOK
      <4>6. LinuxDevice!Obtain(h)
        BY <4>1, <4>2, <4>5 DEF LinuxDevice!Obtain
      <4> QED BY <4>6 DEF LinuxDevice!DeviceNext
    <3> QED BY <3>1, <3>2
  <2>2. ASSUME NEW h \in Handles, StepFails(h) PROVE opened' = opened /\ busy' = busy
    BY <2>0, <2>2 DEF StepFails, TunTypeOK
  <2>3. ASSUME NEW h \in Handles, OpenBegins(h) PROVE opened' = opened /\ busy' = busy
    BY <2>0, <2>3 DEF OpenBegins, TunTypeOK
  <2>4. ASSUME NEW h \in Handles, ReadPacketBegins(h) PROVE LinuxDevice!DeviceNext
    BY <2>4 DEF ReadPacketBegins, device, LinuxDevice!DeviceNext, LinuxDevice!ReadBegins
  <2>5. ASSUME NEW h \in Handles, ReadPacketReturns(h) PROVE LinuxDevice!DeviceNext
    BY <2>5 DEF ReadPacketReturns, LinuxDevice!DeviceNext, LinuxDevice!ReadEnds
  <2>6. ASSUME NEW h \in Handles, CloseDevice(h) PROVE LinuxDevice!DeviceNext
    <3>1. opened' = opened \ {h} /\ busy' = busy
      BY <2>0, <2>6 DEF CloseDevice, TunTypeOK
    <3> QED BY <3>1 DEF LinuxDevice!DeviceNext, LinuxDevice!Release
  <2>7. CASE UNCHANGED <<phase, busy>>
    BY <2>7
  <2> QED BY <2>1, <2>2, <2>3, <2>4, <2>5, <2>6, <2>7
          DEF TunNext, tunVars, device, WritePacket, addRoute, removeRoute
<1>3. TunInv /\ NameInv /\ [TunNext]_tunVars => NameInv'
  BY SystemStays, NameIsKept DEF NameInv
<1>4. TunInv /\ TunInv' /\ NameInv /\ NameInv' /\ [TunNext]_tunVars
          => [goos = "linux" => LinuxDevice!DeviceNext]_(LinuxDevice!deviceVars)
  BY <1>2, SystemStays DEF NameInv
<1> QED BY <1>1, <1>3, <1>4, TunInvariant, PTL DEF TunSpec, ImplementsDevice
-----------------------------------------------------------------------------
(* What the read and write of each system do to the bytes of a packet.     *)

(* The smaller of two numbers.                                             *)
LEMMA MinOfTwo ==
    ASSUME NEW a \in Nat, NEW b \in Nat
    PROVE  Min({a, b}) = IF a <= b THEN a ELSE b
BY DEF Min

(* A cut keeps the first bytes, as many as asked for or as there are.      *)
LEMMA CutIsPrefix ==
    ASSUME NEW S, NEW s \in Seq(S), NEW n \in Nat
    PROVE  /\ Cut(s, n) \in Seq(S)
           /\ Len(Cut(s, n)) = IF n <= Len(s) THEN n ELSE Len(s)
           /\ \A i \in 1..Len(Cut(s, n)) : Cut(s, n)[i] = s[i]
<1> DEFINE m == Min({n, Len(s)})
<1>1. Len(s) \in Nat
  BY LenProperties
<1>2. m \in Nat /\ m <= Len(s) /\ m = IF n <= Len(s) THEN n ELSE Len(s)
  BY <1>1, MinOfTwo
<1> HIDE DEF m
<1>3. \A i \in 1..m : s[i] \in S
  BY <1>1, <1>2, ElementOfSeq
<1>4. /\ SubSeq(s, 1, m) \in Seq(S)
      /\ Len(SubSeq(s, 1, m)) = IF 1 <= m THEN m - 1 + 1 ELSE 0
      /\ \A i \in 1..(m - 1 + 1) : SubSeq(s, 1, m)[i] = s[1 + i - 1]
  BY <1>2, <1>3, SubSeqProperties
<1>5. Cut(s, n) = SubSeq(s, 1, m)
  BY DEF Cut, m
<1>6. Len(Cut(s, n)) = m
  BY <1>2, <1>4, <1>5
<1> QED BY <1>2, <1>4, <1>5, <1>6

(* A packet that fits is not cut.                                          *)
LEMMA CutOfAll ==
    ASSUME NEW S, NEW s \in Seq(S), NEW n \in Nat, Len(s) <= n
    PROVE  Cut(s, n) = s
<1>1. Len(s) \in Nat
  BY LenProperties
<1>2. Len(Cut(s, n)) = Len(s)
  BY <1>1, CutIsPrefix
<1> QED BY <1>1, <1>2, CutIsPrefix, SeqEqual

Octet == Nat \cup {"f"}

(* What follows the protocol family in a packet that carries it.           *)
LEMMA AfterFamily ==
    ASSUME NEW p \in Seq(Octet)
    PROVE  /\ Family \o p \in Seq(Octet)
           /\ Len(Family \o p) = 4 + Len(p)
           /\ \A i \in 1..Len(p) : (Family \o p)[4 + i] = p[i]
<1>1. Family \in Seq(Octet) /\ Len(Family) = 4 /\ Len(p) \in Nat
  BY LenProperties DEF Family, Octet
<1>2. /\ Family \o p \in Seq(Octet) /\ Len(Family \o p) = Len(Family) + Len(p)
      /\ \A j \in 1..(Len(Family) + Len(p)) :
            (Family \o p)[j] = IF j <= Len(Family) THEN Family[j] ELSE p[j - Len(Family)]
  BY <1>1, ConcatProperties
<1>3. ASSUME NEW i \in 1..Len(p) PROVE (Family \o p)[4 + i] = p[i]
  <2>1. 4 + i \in 1..(Len(Family) + Len(p)) /\ ~(4 + i <= Len(Family)) /\ 4 + i - Len(Family) = i
    BY <1>1
  <2> QED BY <1>2, <2>1
<1> QED BY <1>1, <1>2, <1>3

(* On macOS the buffer is four bytes longer and the family is dropped, so  *)
(* that the caller gets what fits its own (tun_darwin.go: ReadPacket).     *)
LEMMA DarwinReadCuts ==
    ASSUME NEW p \in Seq(Octet), NEW room \in Nat
    PROVE  DarwinRead(p, room) = Cut(p, room)
<1> DEFINE tmp == Cut(Family \o p, room + 4)
           rest == SubSeq(tmp, 5, Len(tmp))
<1>1. Len(p) \in Nat /\ Family \o p \in Seq(Octet) /\ Len(Family \o p) = 4 + Len(p)
  BY AfterFamily, LenProperties
<1>0. room + 4 \in Nat
  OBVIOUS
<1>2. /\ tmp \in Seq(Octet)
      /\ Len(tmp) = IF room + 4 <= 4 + Len(p) THEN room + 4 ELSE 4 + Len(p)
      /\ \A i \in 1..Len(tmp) : tmp[i] = (Family \o p)[i]
  BY <1>0, <1>1, CutIsPrefix
<1>3. /\ Cut(p, room) \in Seq(Octet)
      /\ Len(Cut(p, room)) = IF room <= Len(p) THEN room ELSE Len(p)
      /\ \A i \in 1..Len(Cut(p, room)) : Cut(p, room)[i] = p[i]
  BY CutIsPrefix
<1> HIDE DEF tmp
<1>4. Len(tmp) \in Nat /\ Len(tmp) >= 4 /\ Len(Cut(p, room)) = Len(tmp) - 4
  BY <1>1, <1>2, <1>3
<1>5. \A i \in 5..Len(tmp) : tmp[i] \in Octet
  BY <1>2, <1>4, ElementOfSeq
<1>6. /\ rest \in Seq(Octet)
      /\ Len(rest) = IF 5 <= Len(tmp) THEN Len(tmp) - 5 + 1 ELSE 0
      /\ \A i \in 1..(Len(tmp) - 5 + 1) : rest[i] = tmp[5 + i - 1]
  BY <1>4, <1>5, SubSeqProperties
<1> HIDE DEF rest
<1>7. Len(rest) = Len(tmp) - 4
  BY <1>4, <1>6
<1>8. ASSUME NEW i \in 1..Len(rest) PROVE rest[i] = Cut(p, room)[i]
  <2>1. i \in 1..Len(p) /\ i \in 1..Len(Cut(p, room)) /\ 4 + i \in 1..Len(tmp)
    BY <1>1, <1>2, <1>3, <1>4, <1>7
  <2>2. rest[i] = tmp[4 + i]
    BY <1>4, <1>6, <1>7
  <2>3. tmp[4 + i] = (Family \o p)[4 + i]
    BY <1>2, <2>1
  <2> QED BY <2>1, <2>2, <2>3, <1>3, AfterFamily
<1>9. rest = Cut(p, room)
  BY <1>3, <1>4, <1>6, <1>7, <1>8, SeqEqual
<1> QED BY <1>4, <1>9 DEF DarwinRead, tmp, rest

(* And written packets get the family, which is not counted                *)
(* (tun_darwin.go: WritePacket).                                           *)
LEMMA DarwinWriteAll ==
    ASSUME NEW p \in Seq(Octet)
    PROVE  DarwinWrite(p).done = p /\ (p # <<>> => DarwinWrite(p).n = Len(p))
<1> DEFINE f == Family \o p
           n == Len(f)
           rest == SubSeq(f, 5, n)
<1>1. /\ Len(p) \in Nat /\ f \in Seq(Octet) /\ n = 4 + Len(p)
      /\ \A i \in 1..Len(p) : f[4 + i] = p[i]
  BY AfterFamily, LenProperties
<1> HIDE DEF f
<1>2. \A i \in 5..n : f[i] \in Octet
  BY <1>1, ElementOfSeq
<1>3. n \in Int /\ 5 \in Int
  BY <1>1
<1> HIDE DEF n
<1>4. /\ rest \in Seq(Octet)
      /\ Len(rest) = IF 5 <= n THEN n - 5 + 1 ELSE 0
      /\ \A i \in 1..(n - 5 + 1) : rest[i] = f[5 + i - 1]
  BY <1>2, <1>3, SubSeqProperties
<1> HIDE DEF rest
<1>5. Len(rest) = Len(p)
  BY <1>1, <1>4
<1>6. ASSUME NEW i \in 1..Len(rest) PROVE rest[i] = p[i]
  <2>1. i \in 1..(n - 5 + 1) /\ 5 + i - 1 = 4 + i /\ i \in 1..Len(p)
    BY <1>1, <1>5
  <2> QED BY <1>1, <1>4, <2>1
<1>7. rest = p
  BY <1>4, <1>5, <1>6, SeqEqual
<1>8. DarwinWrite(p) = [done |-> rest, n |-> IF n > 4 THEN n - 4 ELSE n]
  BY DEF DarwinWrite, rest, n, f
<1>9. p # <<>> => Len(p) > 0
  BY <1>1, EmptySeq
<1> QED BY <1>1, <1>7, <1>8, <1>9

(* Every system reads the first bytes of a packet and writes all of it.    *)
LEMMA EachSystemFrames ==
    ASSUME NEW p \in Seq(Octet), NEW room \in Nat
    PROVE  /\ PacketRead(p, room) = Cut(p, room)
           /\ PacketWritten(p).done = p /\ (p # <<>> => PacketWritten(p).n = Len(p))
<1>1. LinuxRead(p, room) = Cut(p, room)
  BY DEF LinuxRead
<1>2. WindowsRead(p, room) = Cut(p, room)
  BY CutOfAll, LenProperties DEF WindowsRead
<1>3. PacketRead(p, room) = Cut(p, room)
  BY <1>1, <1>2, DarwinReadCuts DEF PacketRead
<1> QED BY <1>3, DarwinWriteAll DEF PacketWritten

(* A read returns the packet's first bytes, as many as fit, and a write    *)
(* hands over the whole packet, whatever the system wraps it in            *)
(* (tun_linux.go, tun_darwin.go, tun_windows.go: ReadPacket, WritePacket). *)
THEOREM PacketsCrossTheDevice == TunSpec => []FramingIsUndone
<1>1. TunInit => FramingIsUndone
  BY DEF TunInit, NoIO, FramingIsUndone
<1>2. FramingIsUndone /\ [TunNext]_tunVars => FramingIsUndone'
  <2> SUFFICES ASSUME FramingIsUndone, [TunNext]_tunVars PROVE FramingIsUndone'
    OBVIOUS
  <2>1. \A n \in 0..MaxPacket : n \in Nat /\ PacketOf(n) \in Seq(Octet) /\ Len(PacketOf(n)) = n
    BY TunAssumption DEF PacketOf, Octet
  <2>2. ASSUME NEW h \in Handles, ReadPacketReturns(h) PROVE FramingIsUndone'
    <3>1. CASE UNCHANGED last
      BY <3>1 DEF FramingIsUndone
    <3>2. CASE last' = NoIO
      BY <3>2 DEF FramingIsUndone, NoIO
    <3>3. ASSUME NEW n \in 0..MaxPacket, NEW room \in 0..MaxPacket,
                 last' = [asked |-> Cut(PacketOf(n), room), done |-> PacketRead(PacketOf(n), room),
                          n |-> Len(PacketRead(PacketOf(n), room))]
          PROVE  FramingIsUndone'
      <4>1. PacketRead(PacketOf(n), room) = Cut(PacketOf(n), room)
        BY <2>1, EachSystemFrames
      <4> QED BY <3>3, <4>1 DEF FramingIsUndone
    <3> QED BY <2>2, <3>1, <3>2, <3>3 DEF ReadPacketReturns
  <2>3. ASSUME NEW h \in Handles, WritePacket(h) PROVE FramingIsUndone'
    <3>1. PICK n \in 0..MaxPacket :
              last' = [asked |-> PacketOf(n), done |-> PacketWritten(PacketOf(n)).done,
                       n |-> PacketWritten(PacketOf(n)).n]
      BY <2>3 DEF WritePacket
    <3>2. /\ PacketWritten(PacketOf(n)).done = PacketOf(n)
          /\ PacketOf(n) # <<>> => PacketWritten(PacketOf(n)).n = Len(PacketOf(n))
      BY <2>1, EachSystemFrames
    <3> QED BY <3>1, <3>2 DEF FramingIsUndone
  <2>4. ASSUME UNCHANGED last PROVE FramingIsUndone'
    BY <2>4 DEF FramingIsUndone
  <2>5. ASSUME NEW h \in Handles, OpenBegins(h) \/ StepDone(h) \/ StepFails(h) PROVE UNCHANGED last
    BY <2>5 DEF OpenBegins, StepDone, StepFails
  <2>6. ASSUME NEW h \in Handles,
               ReadPacketBegins(h) \/ CloseDevice(h) \/ addRoute(h) \/ removeRoute(h)
        PROVE  UNCHANGED last
    BY <2>6 DEF ReadPacketBegins, CloseDevice, addRoute, removeRoute
  <2>7. CASE UNCHANGED tunVars
    BY <2>7, <2>4 DEF tunVars
  <2> QED BY <2>2, <2>3, <2>4, <2>5, <2>6, <2>7 DEF TunNext
<1> QED BY <1>1, <1>2, PTL DEF TunSpec
=============================================================================
