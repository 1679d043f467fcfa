---------------------------- MODULE DesktopClient ----------------------------
(***************************************************************************)
(* The desktop client's engine (client/desktop/main.go): the commands the  *)
(* UI writes, connect and disconnect each in a goroutine of its own, the   *)
(* connectLoop every accepted connect starts, the goroutine that reads the *)
(* device, and the end of the process.                                     *)
(*                                                                         *)
(* An attempt is one connect command with its context and its loop.        *)
(* c.state and c.cancel are shared under c.mu, which every step that       *)
(* touches them holds; c.conn and c.tun are written and never read, so the *)
(* model keeps the sockets and the TUN device themselves.  autoReconnect   *)
(* is TRUE from newClient on.  The device is that of Linux: its name is    *)
(* free again when no descriptor has it, and a read that Close does not    *)
(* wake keeps the descriptor (TunDevice).                                  *)
(***************************************************************************)
EXTENDS Naturals, FiniteSets

CONSTANTS MaxConnects,  \* bound: connect commands
          MaxOrders     \* bound: goroutines of each command that are not done yet

ASSUME ClientAssumption == MaxConnects \in Nat \ {0} /\ MaxOrders \in Nat

Connects  == 1..MaxConnects
NoConnect == 0

VARIABLES state,        \* c.state
          cancel,       \* the attempt whose context c.cancel cancels
          cancelled,    \* attempts whose context is cancelled
          virtualIP,    \* the attempt whose address c.virtualIP is
          orders,       \* disconnect goroutines that have not run yet
          cancelling,   \* contexts that one is about to cancel
          running,      \* the process is
          pc,           \* where each attempt is
          readers,      \* attempts whose goroutine reads from the device
          gone,         \* attempts whose session the server has lost
          unremoved,    \* attempts whose route a command failed to remove
          sockets,      \* attempts whose transport is open
          tun,          \* the attempt that has the "hometunnel" device open
          route         \* the attempt whose default route is installed

shared  == <<state, cancel, cancelled, virtualIP>>
world   == <<orders, cancelling, running, gone, unremoved>>
control == <<shared, world>>
links   == <<sockets, tun, route, readers>>
clientVars == <<control, pc, links>>

PCs == {"unused", "commanded", "accepted", "dial", "handshake", "opentun", "route", "announce",
        "data", "unroute", "closetun", "close", "fail", "retry", "backoff", "done"}

ClientTypeOK == /\ state \in {"idle", "connecting", "connected", "reconnecting"}
                /\ {cancel, virtualIP, tun, route} \subseteq Connects \cup {NoConnect}
                /\ {cancelled, cancelling, sockets, readers, gone, unremoved} \subseteq SUBSET Connects
                /\ orders \in 0..MaxOrders /\ running \in BOOLEAN
                /\ pc \in [Connects -> PCs]

ClientInit == /\ state = "idle" /\ cancel = NoConnect /\ cancelled = {} /\ virtualIP = NoConnect
              /\ orders = 0 /\ cancelling = {} /\ running = TRUE /\ gone = {} /\ unremoved = {}
              /\ pc = [a \in Connects |-> "unused"]
              /\ sockets = {} /\ tun = NoConnect /\ route = NoConnect /\ readers = {}

Goto(a, label) == pc' = [pc EXCEPT ![a] = label]
-----------------------------------------------------------------------------
(* main reads the commands in order, and starts a goroutine for each: the  *)
(* order in which they run is another matter.                              *)
CommandConnect(a) == /\ pc[a] = "unused" /\ \A b \in 1..(a - 1) : pc[b] # "unused"
                     /\ Cardinality({b \in Connects : pc[b] = "commanded"}) < MaxOrders
                     /\ Goto(a, "commanded")
                     /\ UNCHANGED <<control, links>>

CommandDisconnect == /\ orders + Cardinality(cancelling) < MaxOrders
                     /\ orders' = orders + 1
                     /\ UNCHANGED <<shared, cancelling, running, gone, unremoved, pc, links>>

(* What the status command shows.                                          *)
Status == [state |-> state, virtualIP |-> virtualIP]

(* A signal is one more disconnect and then os.Exit; so is the end of      *)
(* stdin, without the disconnect.  Deferred calls do not run: the system   *)
(* takes back what the process had.                                        *)
Exit == /\ running' = FALSE
        /\ state' = "idle" /\ cancel' = NoConnect /\ cancelled' = {} /\ virtualIP' = NoConnect
        /\ orders' = 0 /\ cancelling' = {} /\ gone' = {} /\ unremoved' = {}
        /\ pc' = [a \in Connects |-> "done"]
        /\ sockets' = {} /\ tun' = NoConnect /\ route' = NoConnect /\ readers' = {}
-----------------------------------------------------------------------------
(* connect: the state is tested and set in one critical section, the       *)
(* context is published in a second one.                                   *)
Connect(a) == /\ pc[a] = "commanded"
              /\ \/ /\ state \notin {"connected", "connecting"}
                    /\ state' = "connecting"
                    /\ Goto(a, "accepted")
                 \/ /\ state \in {"connected", "connecting"}
                    /\ Goto(a, "done")
                    /\ UNCHANGED state
              /\ UNCHANGED <<cancel, cancelled, virtualIP, world, links>>

Publish(a) == /\ pc[a] = "accepted"
              /\ cancel' = a
              /\ Goto(a, "dial")
              /\ UNCHANGED <<state, cancelled, virtualIP, world, links>>

(* disconnect: whatever cancel function is published is read under c.mu,   *)
(* and called after the unlock.                                            *)
Disconnect == /\ orders > 0
              /\ orders' = orders - 1
              /\ cancelling' = cancelling \cup ({cancel} \ {NoConnect})
              /\ UNCHANGED <<shared, running, gone, unremoved, pc, links>>

CancelTaken(a) == /\ a \in cancelling
                  /\ cancelling' = cancelling \ {a}
                  /\ cancelled' = cancelled \cup {a}
                  /\ UNCHANGED <<state, cancel, virtualIP, orders, running, gone, unremoved, pc, links>>
-----------------------------------------------------------------------------
(* doConnect.  An error that returns from it closes what was opened.       *)
Dial(a) == /\ pc[a] = "dial"
           /\ \/ Goto(a, "handshake") /\ sockets' = sockets \cup {a}
              \/ Goto(a, "retry") /\ UNCHANGED sockets
           /\ UNCHANGED <<control, tun, route, readers>>

(* An ACCEPT that is there when the context is cancelled may still win.    *)
ClientHandshake(a) == /\ pc[a] = "handshake"
                      /\ Goto(a, "opentun") \/ Goto(a, "fail")
                      /\ UNCHANGED <<control, links>>

OpenTun(a) == /\ pc[a] = "opentun"
              /\ \/ tun = NoConnect /\ readers = {} /\ tun' = a /\ Goto(a, "route")
                 \/ Goto(a, "fail") /\ UNCHANGED tun
              /\ UNCHANGED <<control, sockets, route, readers>>

(* A failure to add the route is logged and ignored.                       *)
AddRoute(a) == /\ pc[a] = "route"
               /\ route' \in {a, route}
               /\ Goto(a, "announce")
               /\ UNCHANGED <<control, sockets, tun, readers>>

(* A mutant: the address stays that of the connection before.              *)
AnnounceOldAddress(a) == /\ pc[a] = "announce"
                         /\ state' = "connected"
                         /\ virtualIP' = IF virtualIP = NoConnect THEN a ELSE virtualIP
                         /\ readers' = readers \cup {a}
                         /\ Goto(a, "data")
                         /\ UNCHANGED <<cancel, cancelled, world, sockets, tun, route>>

Announce(a) == /\ pc[a] = "announce"
               /\ state' = "connected"
               /\ virtualIP' = a
               /\ readers' = readers \cup {a}
               /\ Goto(a, "data")
               /\ UNCHANGED <<cancel, cancelled, world, sockets, tun, route>>

(* The goroutine looks at its context between two reads.  When the device  *)
(* is closed already, its interface goes with the descriptor of the last   *)
(* read, and every route into it.                                          *)
ReaderEnds(a) == /\ a \in readers \cap cancelled
                 /\ readers' = readers \ {a}
                 /\ route' = IF route = a /\ tun # a THEN NoConnect ELSE route
                 /\ unremoved' = unremoved \cap {route'}
                 /\ UNCHANGED <<shared, orders, cancelling, running, gone, pc, sockets, tun>>

(* The server evicts the session or restarts: nothing tells the client,    *)
(* and nothing that runDataLoop does finds out.                            *)
ServerForgets(a) == /\ pc[a] = "data"
                    /\ gone' = gone \cup {a}
                    /\ UNCHANGED <<shared, orders, cancelling, running, unremoved, pc, links>>

(* A mutant: the loop watches the shared c.ctx instead of its own.         *)
DataLoopWatchesShared(a) == /\ pc[a] = "data"
                            /\ cancel \in cancelled \cap {a}
                            /\ state' = "idle"
                            /\ Goto(a, "unroute")
                            /\ gone' = gone \ {a}
                            /\ UNCHANGED <<cancel, cancelled, virtualIP, orders, cancelling, running, unremoved, links>>

(* runDataLoop ends when the context is cancelled, and only then.          *)
DataLoopEnds(a) == /\ pc[a] = "data"
                   /\ a \in cancelled
                   /\ state' = "idle"
                   /\ Goto(a, "unroute")
                   /\ gone' = gone \ {a}
                   /\ UNCHANGED <<cancel, cancelled, virtualIP, orders, cancelling, running, unremoved, links>>

(* A mutant: the device is closed and the route left to it.                *)
RouteStays(a) == /\ pc[a] = "unroute"
                 /\ Goto(a, "closetun")
                 /\ UNCHANGED <<control, links>>

(* The deferred calls run in reverse order: the route goes first.  The     *)
(* command may fail, and its error is ignored.                             *)
RemoveRoute(a) == /\ pc[a] = "unroute"
                  /\ \/ route' = NoConnect /\ UNCHANGED unremoved
                     \/ unremoved' = {a} \cap {route} /\ UNCHANGED route
                  /\ Goto(a, "closetun")
                  /\ UNCHANGED <<shared, orders, cancelling, running, gone, sockets, tun, readers>>

(* The interface and every route into it are gone when the descriptor is,  *)
(* at once or with the read that keeps it, or before that when the command *)
(* that takes the link down succeeds.                                      *)
CloseTun(a) == /\ pc[a] = "closetun"
               /\ tun' = NoConnect
               /\ route' \in IF a \in readers THEN {NoConnect, route} ELSE {NoConnect}
               /\ unremoved' = unremoved \cap {route'}
               /\ Goto(a, "close")
               /\ UNCHANGED <<shared, orders, cancelling, running, gone, sockets, readers>>

Close(a) == /\ pc[a] = "close"
            /\ sockets' = sockets \ {a}
            /\ Goto(a, "done")
            /\ UNCHANGED <<control, tun, route, readers>>

(* A mutant: a failed connection keeps its socket.                         *)
FailedKeepsSocket(a) == /\ pc[a] = "fail"
                        /\ Goto(a, "retry")
                        /\ UNCHANGED <<control, links>>

CloseFailed(a) == /\ pc[a] = "fail"
                  /\ sockets' = sockets \ {a}
                  /\ Goto(a, "retry")
                  /\ UNCHANGED <<control, tun, route, readers>>
-----------------------------------------------------------------------------
(* connectLoop after an error.                                             *)
Reconnecting(a) == /\ pc[a] = "retry"
                   /\ state' = "reconnecting"
                   /\ Goto(a, "backoff")
                   /\ UNCHANGED <<cancel, cancelled, virtualIP, world, links>>

(* A cancelled loop leaves c.state as it is.                               *)
BackoffCancelled(a) == /\ pc[a] = "backoff"
                       /\ a \in cancelled
                       /\ Goto(a, "done")
                       /\ UNCHANGED <<control, links>>

BackoffOver(a) == /\ pc[a] = "backoff"
                  /\ Goto(a, "dial")
                  /\ UNCHANGED <<control, links>>
-----------------------------------------------------------------------------
Loop(a) == \/ Connect(a) \/ Publish(a) \/ Dial(a) \/ ClientHandshake(a) \/ OpenTun(a) \/ AddRoute(a)
           \/ Announce(a) \/ DataLoopEnds(a) \/ RemoveRoute(a) \/ CloseTun(a) \/ Close(a)
           \/ CloseFailed(a) \/ Reconnecting(a) \/ BackoffOver(a)

ClientNext == /\ running
              /\ \/ CommandDisconnect \/ Disconnect \/ Exit
                 \/ \E a \in Connects : \/ CommandConnect(a) \/ CancelTaken(a) \/ Loop(a)
                                        \/ BackoffCancelled(a) \/ ReaderEnds(a) \/ ServerForgets(a)

ClientSpec == ClientInit /\ [][ClientNext]_clientVars

(* Goroutines run.  When a context and a timer are both ready, select      *)
(* chooses at random, so a loop does not choose the timer for ever.        *)
ClientFairness == \A a \in Connects : /\ WF_clientVars(running /\ Loop(a))
                                      /\ SF_clientVars(running /\ BackoffCancelled(a))
ClientFairSpec == ClientSpec /\ ClientFairness
-----------------------------------------------------------------------------
(* The UI is told "connected" only while some loop moves packets through   *)
(* an open TUN device and an open transport, and the address it is shown   *)
(* is that of this device, with several loops at work.                     *)
ConnectedHasTunnel ==
    Status.state = "connected" =>
        \E a \in Connects : pc[a] = "data" /\ tun = a /\ a \in sockets /\ Status.virtualIP = a

(* At any point of the tear-down of one loop and the set-up of another,    *)
(* the host's default route leads into the device of the loop that         *)
(* installed it.  It outlives that device only when the command that       *)
(* removes it failed, for as long as a read of the cancelled loop keeps    *)
(* the interface, and no other loop has a device in that time.             *)
RouteHasTun == route # NoConnect => \/ tun = route
                                    \/ tun = NoConnect /\ route \in unremoved \cap readers \cap cancelled

(* A loop that is over has closed its socket and its device.  A read of    *)
(* its goroutine may not have returned, and keeps the descriptor: then its *)
(* context is cancelled, so that the read is the last one, and no other    *)
(* loop has the device meanwhile.                                          *)
NothingLeaks == \A a \in Connects : pc[a] = "done" =>
                    /\ a \notin sockets /\ tun # a
                    /\ a \in readers => a \in cancelled /\ tun = NoConnect

(* What the loops do with the device is what the device on Linux lets      *)
(* them: it is opened when nobody has it, and read and closed by the loop  *)
(* that opened it.                                                         *)
TheDevice == INSTANCE Device WITH Users <- Connects, reading <- readers, open <- {tun} \ {NoConnect}

UsesDevice == TheDevice!DeviceSpec

(* A loop whose context is cancelled ends, wherever it was.                *)
CancelledEnds == \A a \in Connects : a \in cancelled ~> pc[a] = "done"

(* README.md:36: the client reconnects if the connection drops, and so a   *)
(* loop whose session is gone at the server does not stay in runDataLoop.  *)
DropIsNoticed == \A a \in Connects : a \in gone ~> pc[a] # "data"
=============================================================================
