---------------------------- MODULE MobileEngine ----------------------------
(***************************************************************************)
(* The mobile engine (core/mobile/mobile.go): Connect and Disconnect, the  *)
(* connectLoop each Connect starts, its receive goroutine, and the         *)
(* packet calls of the VpnService or the packet tunnel provider.           *)
(*                                                                         *)
(* An attempt is one accepted Connect.  e.cancel is cleared by Disconnect, *)
(* so a new Connect may be accepted while the old loop still tears down.   *)
(* e.conn and e.result are set and cleared together, under e.mu.           *)
(***************************************************************************)
EXTENDS Naturals, Sequences

CONSTANTS Attempts, NoOne,
          Readers,      \* threads of the app that call ReadPacket
          Writers,      \* threads of the app that call WritePacket
          QueueCap,     \* bound: capacity of e.inbound (256 in the code)
          MaxPackets    \* bound: DATA packets the server sends per attempt

ASSUME EngineAssumption == QueueCap \in Nat \ {0} /\ MaxPackets \in Nat /\ NoOne \notin Attempts

VARIABLES listener,     \* SetListener was called
          cancel,       \* the attempt whose context e.cancel cancels
          session,      \* the attempt whose conn and result are in e
          taken,        \* attempts whose cancel function a Disconnect holds, not called yet
          cancelled,    \* attempts whose context is cancelled
          pc,           \* connectLoop and doConnect of each attempt
          recv,         \* the receive goroutine of each attempt
          inbound,      \* e.inbound: decrypted packets, by the attempt they came on
          sent,         \* DATA packets each attempt's goroutine took so far
          reading,      \* readers blocked in ReadPacket
          writing,      \* writer -> the attempt whose session it took in WritePacket
          shown         \* the state each attempt announced last

fields == <<listener, cancel, session, taken, cancelled>>
flow   == <<inbound, sent, reading, writing>>
vars   == <<fields, pc, recv, flow, shown>>

Init == /\ listener = FALSE /\ cancel = NoOne /\ session = NoOne
        /\ taken = {} /\ cancelled = {}
        /\ pc = [a \in Attempts |-> "unused"]
        /\ recv = [a \in Attempts |-> "unused"]
        /\ inbound = <<>> /\ sent = [a \in Attempts |-> 0]
        /\ reading = {} /\ writing = [w \in Writers |-> NoOne]
        /\ shown = [a \in Attempts |-> "none"]

(* What the getters return.                                                *)
IsConnected == session # NoOne /\ cancel # NoOne
VirtualIP   == session

At(a, label)   == pc[a] = label
Goto(a, label) == pc' = [pc EXCEPT ![a] = label]
Emit(a, state) == shown' = [shown EXCEPT ![a] = state]
-----------------------------------------------------------------------------
SetListener == /\ ~listener
               /\ listener' = TRUE
               /\ UNCHANGED <<cancel, session, taken, cancelled, pc, recv, flow, shown>>

(* Connect while e.cancel is set only reports an error.  The app sets the  *)
(* listener before.                                                        *)
Connect(a) == /\ At(a, "unused") /\ listener
              /\ cancel = NoOne
              /\ cancel' = a
              /\ Goto(a, "connecting")
              /\ UNCHANGED <<listener, session, taken, cancelled, recv, flow, shown>>

(* A mutant: the context is forgotten and not cancelled.                   *)
DisconnectForgets == /\ cancel # NoOne
                     /\ cancel' = NoOne
                     /\ UNCHANGED <<listener, session, taken, cancelled, pc, recv, flow, shown>>

(* Disconnect takes the cancel function out of e under e.mu, and calls it  *)
(* after it has unlocked: a Connect may come in between.                   *)
Disconnect == /\ cancel # NoOne
              /\ taken' = taken \cup {cancel}
              /\ cancel' = NoOne
              /\ UNCHANGED <<listener, session, cancelled, pc, recv, flow, shown>>

CancelTaken(a) == /\ a \in taken
                  /\ taken' = taken \ {a}
                  /\ cancelled' = cancelled \cup {a}
                  /\ UNCHANGED <<listener, cancel, session, pc, recv, flow, shown>>
-----------------------------------------------------------------------------
(* connectLoop and doConnect.                                              *)
Dial(a) == /\ At(a, "connecting")
           /\ Emit(a, "connecting")
           /\ Goto(a, "handshake") \/ Goto(a, "failed")
           /\ UNCHANGED <<fields, recv, flow>>

Handshake(a) == /\ At(a, "handshake")
                /\ \/ session' = a /\ Goto(a, "connected")
                   \/ Goto(a, "failed") /\ UNCHANGED session
                /\ UNCHANGED <<listener, cancel, taken, cancelled, recv, flow, shown>>

Announce(a) == /\ At(a, "connected")
               /\ Emit(a, "connected")
               /\ recv' = [recv EXCEPT ![a] = "running"]
               /\ Goto(a, "data")
               /\ UNCHANGED <<fields, flow>>

(* The data loop sees ctx.Done, sends DISCONNECT and waits for the receive *)
(* goroutine.                                                              *)
DataLoopEnds(a) == /\ At(a, "data")
                   /\ a \in cancelled
                   /\ Goto(a, "wait")
                   /\ UNCHANGED <<fields, recv, flow, shown>>

(* A mutant: it does not wait for the goroutine it started.                *)
NoWait(a) == /\ At(a, "wait")
             /\ Goto(a, "clear")
             /\ UNCHANGED <<fields, recv, flow, shown>>

RecvJoined(a) == /\ At(a, "wait")
                 /\ recv[a] = "ended"
                 /\ Goto(a, "clear")
                 /\ UNCHANGED <<fields, recv, flow, shown>>

Clear(a) == /\ At(a, "clear")
            /\ session' = NoOne
            /\ Goto(a, "ending")
            /\ UNCHANGED <<listener, cancel, taken, cancelled, recv, flow, shown>>

(* The receive goroutine ended first: doConnect returns an error.          *)
ServerClosed(a) == /\ At(a, "data")
                   /\ recv[a] = "ended"
                   /\ session' = NoOne
                   /\ Goto(a, "failed")
                   /\ UNCHANGED <<listener, cancel, taken, cancelled, recv, flow, shown>>

(* A mutant: an error of doConnect ends the loop.                          *)
FailedEnds(a) == /\ At(a, "failed")
                 /\ Goto(a, "ending")
                 /\ UNCHANGED <<fields, recv, flow, shown>>

(* An error of doConnect: over when the context is cancelled by now.       *)
Failed(a) == /\ At(a, "failed")
             /\ \/ a \in cancelled /\ Goto(a, "ending") /\ UNCHANGED shown
                \/ a \notin cancelled /\ Goto(a, "backoff") /\ Emit(a, "reconnecting")
             /\ UNCHANGED <<fields, recv, flow>>

BackoffCancelled(a) == /\ At(a, "backoff")
                       /\ a \in cancelled
                       /\ Goto(a, "ending")
                       /\ UNCHANGED <<fields, recv, flow, shown>>

BackoffOver(a) == /\ At(a, "backoff")
                  /\ Goto(a, "connecting")
                  /\ UNCHANGED <<fields, recv, flow, shown>>

Ending(a) == /\ At(a, "ending")
             /\ Emit(a, "disconnected")
             /\ Goto(a, "done")
             /\ UNCHANGED <<fields, recv, flow>>
-----------------------------------------------------------------------------
(* The receive goroutine: a full channel drops the packet.                 *)
Receive(a) == /\ recv[a] = "running"
              /\ sent[a] < MaxPackets
              /\ sent' = [sent EXCEPT ![a] = @ + 1]
              /\ inbound' = IF Len(inbound) < QueueCap THEN Append(inbound, a) ELSE inbound
              /\ UNCHANGED <<fields, pc, recv, reading, writing, shown>>

(* ctx.Done, or a DISCONNECT of the server.                                *)
ReceiveEnds(a) == /\ recv[a] = "running"
                  /\ recv' = [recv EXCEPT ![a] = "ended"]
                  /\ UNCHANGED <<fields, pc, flow, shown>>

(* ReadPacket blocks until there is a packet.                              *)
ReadPacket(r) == /\ r \notin reading
                 /\ reading' = reading \cup {r}
                 /\ UNCHANGED <<fields, pc, recv, inbound, sent, writing, shown>>

PacketRead(r) == /\ r \in reading
                 /\ inbound # <<>>
                 /\ inbound' = Tail(inbound)
                 /\ reading' = reading \ {r}
                 /\ UNCHANGED <<fields, pc, recv, sent, writing, shown>>

(* WritePacket takes the session under the lock, and seals and sends after *)
(* it: a loop may end in between.  Without a session it only says so.      *)
WriteStarts(w) == /\ writing[w] = NoOne /\ session # NoOne
                  /\ writing' = [writing EXCEPT ![w] = session]
                  /\ UNCHANGED <<fields, pc, recv, inbound, sent, reading, shown>>

WriteEnds(w) == /\ writing[w] # NoOne
                /\ writing' = [writing EXCEPT ![w] = NoOne]
                /\ UNCHANGED <<fields, pc, recv, inbound, sent, reading, shown>>
-----------------------------------------------------------------------------
Loop(a) == \/ Dial(a) \/ Handshake(a) \/ Announce(a) \/ DataLoopEnds(a) \/ RecvJoined(a) \/ Clear(a)
           \/ ServerClosed(a) \/ Failed(a) \/ BackoffOver(a) \/ Ending(a)

Next == \/ SetListener \/ Disconnect
        \/ \E a \in Attempts : \/ Connect(a) \/ CancelTaken(a) \/ Loop(a) \/ BackoffCancelled(a)
                               \/ Receive(a) \/ ReceiveEnds(a)
        \/ \E r \in Readers : ReadPacket(r) \/ PacketRead(r)
        \/ \E w \in Writers : WriteStarts(w) \/ WriteEnds(w)

Spec == Init /\ [][Next]_vars

(* Goroutines run; a cancelled context makes the receive goroutine end, by *)
(* the random choice of select even under continuous traffic.              *)
Fairness == /\ \A a \in Attempts : /\ WF_vars(CancelTaken(a))
                                   /\ WF_vars(Loop(a))
                                   /\ SF_vars(BackoffCancelled(a))
                                   /\ WF_vars(a \in cancelled /\ ReceiveEnds(a))
            /\ \A r \in Readers : WF_vars(PacketRead(r))
FairSpec == Spec /\ Fairness
-----------------------------------------------------------------------------
(* Every loop that has not been cancelled will be reached by somebody: by  *)
(* the next Disconnect, which finds its cancel function in e, or by one in *)
(* progress that has taken it.  So there is one loop besides those that a  *)
(* Disconnect is about to cancel, however Connect and Disconnect interleave *)
(* while older loops wind down.  IsConnected is TRUE only while e.cancel   *)
(* is that of a loop that has not been told to end.                        *)
Live == {a \in Attempts : pc[a] \notin {"unused", "done"} /\ a \notin cancelled}

LiveLoopIsReachable ==
    /\ \A a \in Live : cancel = a \/ a \in taken
    /\ IsConnected => cancel \in Live \ taken

(* Nothing outlives its loop: the address the app reads is that of a loop  *)
(* that has not cleared its session yet, and when a loop is over so is the *)
(* goroutine it started: no old connection still writes to e.inbound.      *)
NothingOutlives ==
    /\ VirtualIP # NoOne => pc[VirtualIP] \in {"connected", "data", "wait", "clear"}
    /\ \A a \in Attempts : pc[a] = "done" => recv[a] # "running"

(* The states an attempt announces are those the app may count on, in      *)
(* their order; "disconnected" comes after a Disconnect, and only then.    *)
Promise == INSTANCE EngineEvents WITH Engines <- Attempts, told <- taken \cup cancelled

ImplementsEvents == Promise!Spec
=============================================================================
