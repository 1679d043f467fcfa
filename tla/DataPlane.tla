------------------------------ MODULE DataPlane ------------------------------
(***************************************************************************)
(* An established session carrying IP packets: the server's tunReadLoop    *)
(* and handleInbound (server/main.go) and the desktop client's runDataLoop *)
(* with its latency probe (client/desktop/main.go), over the two replay    *)
(* windows of core/encryption.                                             *)
(*                                                                         *)
(* A sealed packet carries its header in the clear and the header it was   *)
(* sealed with; it opens when the two agree.  The window is the abstract   *)
(* one that ReplayWindow implements.  The network delays, reorders, loses  *)
(* and, MaxDups times, repeats packets.                                    *)
(***************************************************************************)
EXTENDS Naturals, FiniteSets

CONSTANTS PlaneWindow,
          PlaneTolerance, \* protocol.ReplayTimestampTolerance, in ticks
          MaxSealed,    \* bound: packets sealed, by both ends together
          MaxTime,      \* bound: ticks
          MaxProbes,    \* bound: keepalives and latency probes
          MaxDups       \* bound: repetitions by the network

ASSUME DataPlaneAssumption ==
    /\ {PlaneWindow, PlaneTolerance, MaxTime, MaxProbes, MaxDups} \subseteq Nat
    /\ MaxSealed \in Nat \ {0}

VARIABLES clock,
          nextSeq,      \* Session.sendSeq of each end
          net,          \* packets in the network
          inbox,        \* the Recv() channel of each end
          seen,         \* sequence numbers each end's window has marked
          forwarded,    \* how often each number was written to an end's TUN
          waiting,      \* client goroutines that wait for c.mu to count bytes
          probing,      \* measureLatency runs, in the goroutine that holds c.mu
          probes, dups

traffic == <<nextSeq, net, inbox, seen, forwarded>>
planeVars == <<clock, traffic, waiting, probing, probes, dups>>

Ends    == {"client", "server"}
Peer(e) == IF e = "client" THEN "server" ELSE "client"
PlaneSeqs == 0..(MaxSealed - 1)

Header(seq, time) == [seq |-> seq, time |-> time]

PlaneInit == /\ clock = 0
             /\ nextSeq = [e \in Ends |-> 0]
             /\ net = {} /\ inbox = [e \in Ends |-> {}]
             /\ seen = [e \in Ends |-> {}]
             /\ forwarded = [e \in Ends |-> [s \in PlaneSeqs |-> 0]]
             /\ waiting = {} /\ probing = FALSE /\ probes = 0 /\ dups = 0
-----------------------------------------------------------------------------
(* The header is sealed with sequence number 0; the number that Seal       *)
(* returns goes into the header afterwards.  The client's goroutine then   *)
(* takes c.mu to count what it sent.                                       *)
SendData(e) ==
    LET seq == nextSeq[e]
    IN  /\ nextSeq["client"] + nextSeq["server"] < MaxSealed
        /\ e = "client" => "tx" \notin waiting
        /\ nextSeq' = [nextSeq EXCEPT ![e] = seq + 1]
        /\ net' = net \cup {[to |-> Peer(e), type |-> "DATA",
                             header |-> Header(seq, clock), sealed |-> Header(0, clock)]}
        /\ waiting' = IF e = "client" THEN waiting \cup {"tx"} ELSE waiting
        /\ UNCHANGED <<clock, inbox, seen, forwarded, probing, probes, dups>>

(* The network and readLoop.  A packet that is never delivered is lost.    *)
Deliver(p) == /\ inbox' = [inbox EXCEPT ![p.to] = @ \cup {p}]
              /\ \/ net' = net \ {p} /\ UNCHANGED dups
                 \/ dups < MaxDups /\ dups' = dups + 1 /\ UNCHANGED net
              /\ UNCHANGED <<clock, nextSeq, seen, forwarded, waiting, probing, probes>>

ClockTicks == /\ clock < MaxTime
              /\ clock' = clock + 1
              /\ UNCHANGED <<traffic, waiting, probing, probes, dups>>
-----------------------------------------------------------------------------
Authentic(p) == p.header = p.sealed
Fresh(e, s)  == s \notin seen[e] /\ \A t \in seen[e] : t < s + PlaneWindow
OnTime(p)    == clock <= p.header.time + PlaneTolerance

OpensAt(e, p) == Fresh(e, p.header.seq) /\ Authentic(p)

Taken(e, p) == inbox' = [inbox EXCEPT ![e] = @ \ {p}]

Forward(e, p) == /\ seen' = [seen EXCEPT ![e] = @ \cup {p.header.seq}]
                 /\ forwarded' = [forwarded EXCEPT ![e][p.header.seq] = @ + 1]

(* handleInbound: the timestamp is looked at before the packet is opened.  *)
ServerData(p) ==
    /\ p.type = "DATA"
    /\ Taken("server", p)
    /\ \/ OnTime(p) /\ OpensAt("server", p) /\ Forward("server", p)
       \/ ~ (OnTime(p) /\ OpensAt("server", p)) /\ UNCHANGED <<seen, forwarded>>
    /\ UNCHANGED <<clock, nextSeq, net, waiting, probing, probes, dups>>

ServerKeepalive(p) ==
    /\ p.type = "KEEPALIVE"
    /\ Taken("server", p)
    /\ net' = net \cup {[p EXCEPT !.to = "client", !.header = Header(0, clock),
                                  !.sealed = Header(0, clock)]}
    /\ UNCHANGED <<clock, nextSeq, seen, forwarded, waiting, probing, probes, dups>>

(* The receive goroutine has no timestamp guard, and takes c.mu to count   *)
(* what it forwarded.                                                      *)
ClientReceives(p) ==
    /\ "rx" \notin waiting
    /\ Taken("client", p)
    /\ \/ /\ p.type = "DATA" /\ OpensAt("client", p)
          /\ Forward("client", p)
          /\ waiting' = waiting \cup {"rx"}
       \/ /\ ~ (p.type = "DATA" /\ OpensAt("client", p))
          /\ UNCHANGED <<seen, forwarded, waiting>>
    /\ UNCHANGED <<clock, nextSeq, net, probing, probes, dups>>

Count(g) == /\ g \in waiting
            /\ ~probing
            /\ waiting' = waiting \ {g}
            /\ UNCHANGED <<clock, traffic, probing, probes, dups>>
-----------------------------------------------------------------------------
(* The statistics ticker takes c.mu and calls measureLatency, which waits  *)
(* for the next KEEPALIVE and drops whatever comes before it.              *)
(* The packet that measureLatency and the keepalive ticker send.           *)
Probe == [to |-> "server", type |-> "KEEPALIVE", header |-> Header(0, clock), sealed |-> Header(0, clock)]

ClientKeepalive ==
    /\ probes < MaxProbes
    /\ probes' = probes + 1
    /\ net' = net \cup {Probe}
    /\ UNCHANGED <<clock, nextSeq, inbox, seen, forwarded, waiting, probing, dups>>

ProbeStarts ==
    /\ ~probing /\ probes < MaxProbes
    /\ probing' = TRUE
    /\ probes' = probes + 1
    /\ net' = net \cup {Probe}
    /\ UNCHANGED <<clock, nextSeq, inbox, seen, forwarded, waiting, dups>>

ProbeReceives(p) ==
    /\ probing
    /\ Taken("client", p)
    /\ probing' = (p.type # "KEEPALIVE")
    /\ UNCHANGED <<clock, nextSeq, net, seen, forwarded, waiting, probes, dups>>

(* A mutant: the probe gives up only while packets arrive.                 *)
ProbeTimesOutOnPacket ==
    /\ probing /\ inbox["client"] # {}
    /\ probing' = FALSE
    /\ UNCHANGED <<clock, traffic, waiting, probes, dups>>

ProbeTimesOut == /\ probing
                 /\ probing' = FALSE
                 /\ UNCHANGED <<clock, traffic, waiting, probes, dups>>
-----------------------------------------------------------------------------
PlaneNext == \/ \E e \in Ends : SendData(e)
             \/ \E p \in net : Deliver(p)
             \/ ClockTicks
             \/ \E p \in inbox["server"] : ServerData(p) \/ ServerKeepalive(p)
             \/ \E p \in inbox["client"] : ClientReceives(p) \/ ProbeReceives(p)
             \/ \E g \in {"tx", "rx"} : Count(g)
             \/ ClientKeepalive \/ ProbeStarts \/ ProbeTimesOut

PlaneSpec == PlaneInit /\ [][PlaneNext]_planeVars

(* The probe's timer runs out; sync.Mutex lets a waiter in sooner or later *)
(* though the ticker takes the lock again and again.                       *)
PlaneFairness == WF_planeVars(ProbeTimesOut) /\ \A g \in {"tx", "rx"} : SF_planeVars(Count(g))
PlaneFairSpec == PlaneSpec /\ PlaneFairness
-----------------------------------------------------------------------------
(* The probe's hold of c.mu never stops the client's packet goroutines for *)
(* good: whoever waits to count gets on.                                   *)
CountersProceed == \A g \in {"tx", "rx"} : g \in waiting ~> g \notin waiting

(* What the devices see of a session is a tunnel: nothing is written to    *)
(* one that the other end did not read, and nothing twice, however the     *)
(* network delays, repeats and reorders.                                   *)
Promised == INSTANCE Tunnel WITH sent <- nextSeq, arrived <- forwarded,
                                 Numbers <- PlaneSeqs, Window <- PlaneWindow

ImplementsTunnel == Promised!TunnelSpec

(* Each end's window over the numbers its peer has drawn is the sliding    *)
(* window; a packet that is refused leaves no trace in it.                 *)
ServerWindow == INSTANCE SlidingWindow WITH
    WindowSize <- PlaneWindow, MaxSeq <- MaxSealed - 1, sealed <- nextSeq["client"],
    accepted <- seen["server"], verdict <- IF seen["server"] = {} THEN "none" ELSE "accepted"

ClientWindow == INSTANCE SlidingWindow WITH
    WindowSize <- PlaneWindow, MaxSeq <- MaxSealed - 1, sealed <- nextSeq["server"],
    accepted <- seen["client"], verdict <- IF seen["client"] = {} THEN "none" ELSE "accepted"

WindowsSlide == ServerWindow!Spec /\ ClientWindow!Spec

(* But of all packets only the first of each end gets through, whatever    *)
(* the network does: a header with another number is not the one that was  *)
(* sealed.                                                                 *)
OnlyFirstArrives == \A e \in Ends : \A s \in PlaneSeqs \ {0} : forwarded[e][s] = 0

(* server/main.go:187: DATA packets are decrypted and forwarded: one that  *)
(* is on time and new to the window is written to the TUN device when it   *)
(* leaves the channel.                                                     *)
DataIsForwarded ==
    [][\A p \in inbox["server"] :
        p.type = "DATA" /\ OnTime(p) /\ Fresh("server", p.header.seq) /\ p \notin inbox'["server"]
            => forwarded'["server"][p.header.seq] = forwarded["server"][p.header.seq] + 1]_planeVars
=============================================================================
