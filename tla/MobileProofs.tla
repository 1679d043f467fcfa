----------------------------- MODULE MobileProofs ----------------------------
(***************************************************************************)
(* Proofs about MobileEngine, for any number of Connects, readers and      *)
(* writers and any capacity of e.inbound: one inductive invariant says     *)
(* where a loop may be given the fields of the engine, and from it follow  *)
(* both invariants and the safety of the states that are announced.  And   *)
(* about the two apps over any engine that announces its states so, for    *)
(* any number of starts and of devices opened.                             *)
(***************************************************************************)
EXTENDS MobileEngine, AndroidService, IosTunnel, SequenceTheorems, TLAPS

PCs == {"unused", "connecting", "handshake", "connected", "data", "wait", "clear", "failed",
        "backoff", "ending", "done"}

EngineTypeOK == /\ {cancel, session} \subseteq Attempts \cup {NoOne}
                /\ taken \subseteq Attempts /\ cancelled \subseteq Attempts
                /\ pc \in [Attempts -> PCs]
                /\ recv \in [Attempts -> {"unused", "running", "ended"}]
                /\ shown \in [Attempts -> Promise!States \cup {"none"}]

(* The context in e.cancel is that of the one loop that no Disconnect has  *)
(* been called for.                                                        *)
CancelIsCurrent ==
    /\ cancel \notin taken \cup cancelled
    /\ cancel # NoOne => pc[cancel] # "unused"
    /\ \A a \in Attempts : pc[a] # "unused" /\ a \notin taken \cup cancelled => cancel = a

(* Loops that wind down were cancelled; those not started were not.        *)
OnlyCancelledEnd ==
    \A a \in Attempts : /\ pc[a] \in {"wait", "clear", "ending", "done"} => a \in cancelled
                        /\ pc[a] = "unused" => a \notin taken \cup cancelled

(* The session in e belongs to a loop that still clears it, and a receive  *)
(* goroutine to one that still waits for it.                               *)
SessionHasLoop ==
    /\ session # NoOne => pc[session] \in {"connected", "data", "wait", "clear"}
    /\ \A a \in Attempts : recv[a] = "running" => pc[a] \in {"data", "wait"}

(* The state a loop has announced last when it is at a label.              *)
ShownAt(label, state) ==
    \/ label = "unused"     /\ state = "none"
    \/ label = "connecting" /\ state \in {"none", "reconnecting"}
    \/ label \in {"handshake", "connected"} /\ state = "connecting"
    \/ label \in {"data", "wait", "clear"}  /\ state = "connected"
    \/ label = "failed"     /\ state \in {"connecting", "connected"}
    \/ label = "backoff"    /\ state = "reconnecting"
    \/ label = "ending"     /\ state \in {"connecting", "connected", "reconnecting"}
    \/ label = "done"       /\ state = "disconnected"

ShownFitsLoop == \A a \in Attempts : ShownAt(pc[a], shown[a])

EngineInv == EngineTypeOK /\ CancelIsCurrent /\ OnlyCancelledEnd /\ SessionHasLoop /\ ShownFitsLoop

(* The engine starts in the invariant.                                     *)
LEMMA InitInv == Init => EngineInv
BY EngineAssumption
   DEF Init, EngineInv, EngineTypeOK, CancelIsCurrent, OnlyCancelledEnd, SessionHasLoop, ShownFitsLoop,
       ShownAt, PCs, Promise!States

(* Steps that change neither fields nor loops keep the invariant.          *)
LEMMA QuietSteps ==
    ASSUME EngineInv, UNCHANGED <<cancel, session, taken, cancelled, pc, recv, shown>>
    PROVE  EngineInv'
BY DEF EngineInv, EngineTypeOK, CancelIsCurrent, OnlyCancelledEnd, SessionHasLoop, ShownFitsLoop

(* Connect and Disconnect keep it: a new context is published only when    *)
(* the one before is cancelled, or taken to be.                            *)
LEMMA HostCalls ==
    ASSUME EngineInv, Disconnect \/ \E a \in Attempts : Connect(a) \/ CancelTaken(a)
    PROVE  EngineInv'
<1> USE EngineAssumption
<1>1. CASE Disconnect
  BY <1>1 DEF EngineInv, EngineTypeOK, CancelIsCurrent, OnlyCancelledEnd, SessionHasLoop, ShownFitsLoop,
              Disconnect
<1>2. ASSUME NEW a \in Attempts, Connect(a) PROVE EngineInv'
  <2>1. EngineTypeOK' BY <1>2 DEF EngineInv, EngineTypeOK, Connect, Goto, PCs
  <2>2. CancelIsCurrent' /\ OnlyCancelledEnd'
    BY <1>2 DEF EngineInv, EngineTypeOK, CancelIsCurrent, OnlyCancelledEnd, Connect, At, Goto
  <2>3. SessionHasLoop'
    BY <1>2 DEF EngineInv, EngineTypeOK, SessionHasLoop, Connect, At, Goto
  <2>4. ShownFitsLoop'
    BY <1>2 DEF EngineInv, EngineTypeOK, ShownFitsLoop, ShownAt, Connect, At, Goto
  <2> QED BY <2>1, <2>2, <2>3, <2>4 DEF EngineInv
<1>3. ASSUME NEW a \in Attempts, CancelTaken(a) PROVE EngineInv'
  BY <1>3 DEF EngineInv, EngineTypeOK, CancelIsCurrent, OnlyCancelledEnd, SessionHasLoop, ShownFitsLoop,
              CancelTaken
<1> QED BY <1>1, <1>2, <1>3

(* What every step of a loop has in common.                                *)
LoopSteps(a) == Loop(a) \/ BackoffCancelled(a)

(* A loop moves on, announces and keeps the session as the invariant says. *)
LEMMA LoopKeepsInv ==
    ASSUME EngineInv, NEW a \in Attempts, LoopSteps(a)
    PROVE  EngineInv'
<1> USE EngineAssumption DEF LoopSteps, Loop, fields, flow, At, Goto, Emit
<1>1. EngineTypeOK'
  BY DEF EngineInv, EngineTypeOK, PCs, Promise!States, Dial, Handshake, Announce, DataLoopEnds, RecvJoined,
         Clear, ServerClosed, Failed, BackoffCancelled, BackoffOver, Ending
<1>2. cancel' = cancel /\ taken' = taken /\ cancelled' = cancelled
  BY DEF Dial, Handshake, Announce, DataLoopEnds, RecvJoined, Clear, ServerClosed, Failed, BackoffCancelled,
         BackoffOver, Ending
<1>3. /\ pc[a] # "unused" /\ pc'[a] # "unused"
      /\ \A b \in Attempts \ {a} : pc'[b] = pc[b]
  BY DEF EngineInv, EngineTypeOK, Dial, Handshake, Announce, DataLoopEnds, RecvJoined, Clear, ServerClosed,
         Failed, BackoffCancelled, BackoffOver, Ending
<1>4. CancelIsCurrent'
  BY <1>2, <1>3 DEF EngineInv, EngineTypeOK, CancelIsCurrent
<1>5. OnlyCancelledEnd'
  <2>1. pc'[a] \in {"wait", "clear", "ending", "done"} => a \in cancelled
    BY DEF EngineInv, EngineTypeOK, OnlyCancelledEnd, Dial, Handshake, Announce, DataLoopEnds, RecvJoined,
           Clear, ServerClosed, Failed, BackoffCancelled, BackoffOver, Ending
  <2> QED BY <1>2, <1>3, <2>1 DEF EngineInv, OnlyCancelledEnd
<1>6. SessionHasLoop'
  BY DEF EngineInv, EngineTypeOK, SessionHasLoop, Dial, Handshake, Announce, DataLoopEnds, RecvJoined, Clear,
         ServerClosed, Failed, BackoffCancelled, BackoffOver, Ending
<1>7. ShownFitsLoop'
  <2>1. \A b \in Attempts \ {a} : shown'[b] = shown[b]
    BY DEF EngineInv, EngineTypeOK, Dial, Handshake, Announce, DataLoopEnds, RecvJoined, Clear, ServerClosed,
           Failed, BackoffCancelled, BackoffOver, Ending
  <2>2. ShownAt(pc'[a], shown'[a])
    BY DEF EngineInv, EngineTypeOK, ShownFitsLoop, ShownAt, Dial, Handshake, Announce, DataLoopEnds,
           RecvJoined, Clear, ServerClosed, Failed, BackoffCancelled, BackoffOver, Ending
  <2> QED BY <1>3, <2>1, <2>2 DEF EngineInv, ShownFitsLoop
<1> QED BY <1>1, <1>4, <1>5, <1>6, <1>7 DEF EngineInv

(* The receive goroutine only ends by itself.                              *)
LEMMA ReceiveEndsKeepsInv ==
    ASSUME EngineInv, NEW a \in Attempts, ReceiveEnds(a)
    PROVE  EngineInv'
<1>1. EngineTypeOK' BY DEF EngineInv, EngineTypeOK, ReceiveEnds, fields
<1>2. SessionHasLoop' BY DEF EngineInv, EngineTypeOK, SessionHasLoop, ReceiveEnds, fields
<1>3. (CancelIsCurrent /\ OnlyCancelledEnd /\ ShownFitsLoop)'
  BY DEF EngineInv, CancelIsCurrent, OnlyCancelledEnd, ShownFitsLoop, ReceiveEnds, fields
<1> QED BY <1>1, <1>2, <1>3 DEF EngineInv

(* Every step keeps the invariant.                                         *)
LEMMA NextInv == EngineInv /\ [Next]_vars => EngineInv'
<1> SUFFICES ASSUME EngineInv, [Next]_vars PROVE EngineInv'
  OBVIOUS
<1>1. CASE Disconnect \/ \E a \in Attempts : Connect(a) \/ CancelTaken(a) BY <1>1, HostCalls
<1>2. ASSUME NEW a \in Attempts, Loop(a) \/ BackoffCancelled(a) PROVE EngineInv'
  BY <1>2, LoopKeepsInv DEF LoopSteps
<1>3. ASSUME NEW a \in Attempts, ReceiveEnds(a) PROVE EngineInv' BY <1>3, ReceiveEndsKeepsInv
<1>4. CASE \/ SetListener \/ UNCHANGED vars
           \/ \E a \in Attempts : Receive(a)
           \/ \E r \in Readers : ReadPacket(r) \/ PacketRead(r)
           \/ \E w \in Writers : WriteStarts(w) \/ WriteEnds(w)
  <2>1. UNCHANGED <<cancel, session, taken, cancelled, pc, recv, shown>>
    BY <1>4 DEF SetListener, Receive, ReadPacket, PacketRead, WriteStarts, WriteEnds, vars, fields, flow
  <2> QED BY <2>1, QuietSteps
<1> QED BY <1>1, <1>2, <1>3, <1>4 DEF Next

(* The inductive invariant holds throughout.                               *)
THEOREM EngineInvariant == Spec => []EngineInv
BY InitInv, NextInv, PTL DEF Spec
-----------------------------------------------------------------------------
(* Every loop that is not cancelled is reached by the next Disconnect or   *)
(* by one in progress, however many Connects came between its two steps    *)
(* and while older loops were winding down, and IsConnected is TRUE only   *)
(* while one is left to the next (mobile.go: Connect, Disconnect,          *)
(* IsConnected).                                                           *)
THEOREM LiveLoopReachable == Spec => []LiveLoopIsReachable
<1>1. EngineInv => LiveLoopIsReachable
  <2> SUFFICES ASSUME EngineInv PROVE LiveLoopIsReachable
    OBVIOUS
  <2>1. \A a \in Live : cancel = a \/ a \in taken BY DEF EngineInv, CancelIsCurrent, Live
  <2>2. IsConnected => cancel \in Live \ taken
    BY DEF EngineInv, EngineTypeOK, CancelIsCurrent, OnlyCancelledEnd, IsConnected, Live
  <2> QED BY <2>1, <2>2 DEF LiveLoopIsReachable
<1> QED BY <1>1, EngineInvariant, PTL

(* The session the app reads has a loop that will clear it, and no receive *)
(* goroutine outlives its loop (mobile.go: doConnect).                     *)
THEOREM NothingOutlivesItsLoop == Spec => []NothingOutlives
<1>1. EngineInv => NothingOutlives
  BY DEF EngineInv, SessionHasLoop, NothingOutlives, VirtualIP
<1> QED BY <1>1, EngineInvariant, PTL

(* Every step of the engine announces a state the app may expect, or       *)
(* none: the safety part of ImplementsEvents, for any number of Connects.  *)
THEOREM EventsRefined == Spec => Promise!Init /\ [][Promise!Next]_(Promise!events)
<1>1. Init => Promise!Init BY DEF Init, Promise!Init
<1>2. EngineInv /\ [Next]_vars => [Promise!Next]_(Promise!events)
  <2> SUFFICES ASSUME EngineInv, [Next]_vars PROVE [Promise!Next]_(Promise!events)
    OBVIOUS
  <2>1. CASE Disconnect
    <3>1. cancel \in Attempts BY <2>1 DEF EngineInv, EngineTypeOK, Disconnect
    <3>2. Promise!Tell(cancel) BY <2>1 DEF Disconnect, Promise!Tell
    <3> QED BY <3>1, <3>2 DEF Promise!Next
  <2>2. ASSUME NEW a \in Attempts, Dial(a) PROVE Promise!Next
    <3>1. Promise!Announce(a, "connecting")
      BY <2>2 DEF EngineInv, ShownFitsLoop, ShownAt, Dial, At, Emit, fields, Promise!Announce
    <3> QED BY <3>1 DEF Promise!Next, Promise!States
  <2>3. ASSUME NEW a \in Attempts, Announce(a) PROVE Promise!Next
    <3>1. Promise!Announce(a, "connected")
      BY <2>3 DEF EngineInv, ShownFitsLoop, ShownAt, Announce, At, Emit, fields, Promise!Announce
    <3> QED BY <3>1 DEF Promise!Next, Promise!States
  <2>4. ASSUME NEW a \in Attempts, Failed(a) PROVE [Promise!Next]_(Promise!events)
    <3>1. UNCHANGED Promise!events \/ Promise!Announce(a, "reconnecting")
      BY <2>4 DEF EngineInv, ShownFitsLoop, ShownAt, Failed, At, Emit, fields, Promise!Announce, Promise!events
    <3> QED BY <3>1 DEF Promise!Next, Promise!States
  <2>5. ASSUME NEW a \in Attempts, Ending(a) PROVE Promise!Next
    <3>1. Promise!Announce(a, "disconnected")
      BY <2>5 DEF EngineInv, OnlyCancelledEnd, ShownFitsLoop, ShownAt, Ending, At, Emit, fields, Promise!Announce
    <3> QED BY <3>1 DEF Promise!Next, Promise!States
  <2>6. CASE UNCHANGED <<taken \cup cancelled, shown>>
    BY <2>6 DEF Promise!events
  <2>7. ASSUME NEW a \in Attempts,
               \/ Connect(a) \/ CancelTaken(a) \/ Handshake(a) \/ DataLoopEnds(a) \/ RecvJoined(a) \/ Clear(a) \/ ServerClosed(a)
               \/ BackoffOver(a) \/ BackoffCancelled(a) \/ Receive(a) \/ ReceiveEnds(a)
        PROVE  UNCHANGED <<taken \cup cancelled, shown>>
    BY <2>7 DEF Connect, CancelTaken, Handshake, DataLoopEnds, RecvJoined, Clear, ServerClosed, BackoffOver,
                BackoffCancelled, Receive, ReceiveEnds, fields, flow
  <2>8. CASE \/ SetListener \/ UNCHANGED vars
             \/ \E r \in Readers : ReadPacket(r) \/ PacketRead(r)
             \/ \E w \in Writers : WriteStarts(w) \/ WriteEnds(w)
    <3>1. UNCHANGED <<taken \cup cancelled, shown>>
      BY <2>8 DEF SetListener, ReadPacket, PacketRead, WriteStarts, WriteEnds, vars, fields, flow
    <3> QED BY <3>1, <2>6
  <2> QED BY <2>1, <2>2, <2>3, <2>4, <2>5, <2>6, <2>7, <2>8 DEF Next, Loop
<1> QED BY <1>1, <1>2, EngineInvariant, PTL DEF Spec
-----------------------------------------------------------------------------
(* What the main thread of the Android service may have left to do.  A     *)
(* start connects after it has disconnected.                               *)
Todos == {<<>>, <<"disconnect", "close", "connect">>, <<"close", "connect">>, <<"connect">>,
          <<"disconnect", "close", "stopSelf">>, <<"close", "stopSelf">>, <<"stopSelf">>,
          <<"disconnect", "close", "cancel">>, <<"close", "cancel">>, <<"cancel">>}

ServiceTodo == /\ todo \in Todos
               /\ todo \in {<<"close", "connect">>, <<"connect">>} => engine = 0

EngineKept == /\ engines \in Nat /\ engine \in 0..engines
              /\ \A e \in 1..engines : e \in engineTold \/ e = engine

(* Unless calls of openTun met a stop or each other, there is one device.  *)
OneDevice == ~crossed => /\ established \subseteq devices
                         /\ devices \subseteq {tunFd} \cup established
                         /\ \A m, n \in devices : m = n

ServiceInv == ServiceTodo /\ EngineKept /\ OneDevice

(* Tuples of up to three, taken apart and put together.                   *)
LEMMA Tuples ==
    ASSUME NEW a, NEW b, NEW c
    PROVE  /\ Head(<<a>>) = a /\ Tail(<<a>>) = <<>>
           /\ Head(<<a, b>>) = a /\ Tail(<<a, b>>) = <<b>>
           /\ Head(<<a, b, c>>) = a /\ Tail(<<a, b, c>>) = <<b, c>>
OBVIOUS

(* The next call of a list, and what is left of it.                        *)
LEMMA TodosEnd ==
    ASSUME todo \in Todos, todo # <<>>
    PROVE  /\ Tail(todo) \in Todos
           /\ Tail(todo) \in {<<"close", "connect">>, <<"connect">>} =>
                  Head(todo) = "disconnect" \/ todo = <<"close", "connect">>
           /\ Head(todo) = "connect" => todo = <<"connect">>
<1>1. CASE \E x \in {"connect", "stopSelf", "cancel"} : todo = <<x>>
  <2>1. PICK x \in {"connect", "stopSelf", "cancel"} : todo = <<x>>
    BY <1>1
  <2>2. Tail(todo) = <<>> /\ Head(todo) = x
    BY <2>1, Tuples
  <2> QED BY <2>1, <2>2 DEF Todos
<1>2. CASE \E x \in {"connect", "stopSelf", "cancel"} : todo = <<"close", x>>
  <2>1. PICK x \in {"connect", "stopSelf", "cancel"} : todo = <<"close", x>>
    BY <1>2
  <2>2. Tail(todo) = <<x>> /\ Head(todo) = "close"
    BY <2>1, Tuples
  <2> QED BY <2>1, <2>2 DEF Todos
<1>3. CASE \E x \in {"connect", "stopSelf", "cancel"} : todo = <<"disconnect", "close", x>>
  <2>1. PICK x \in {"connect", "stopSelf", "cancel"} : todo = <<"disconnect", "close", x>>
    BY <1>3
  <2>2. Tail(todo) = <<"close", x>> /\ Head(todo) = "disconnect"
    BY <2>1, Tuples
  <2> QED BY <2>1, <2>2 DEF Todos
<1> QED BY <1>1, <1>2, <1>3 DEF Todos

(* A third element behind a pair.                                          *)
LEMMA PairThen == \A a, b, c : <<a, b>> \o <<c>> = <<a, b, c>>
<1> SUFFICES ASSUME NEW a, NEW b, NEW c PROVE <<a, b>> \o <<c>> = <<a, b, c>>
  OBVIOUS
<1> DEFINE S == {a, b, c}
           t == <<a, b>> \o <<c>>
<1>1. <<a, b>> \in Seq(S) /\ Len(<<a, b>>) = 2 /\ <<a, b>>[1] = a /\ <<a, b>>[2] = b
  OBVIOUS
<1>2. <<c>> \in Seq(S) /\ Len(<<c>>) = 1 /\ <<c>>[1] = c
  OBVIOUS
<1>3. t \in Seq(S) /\ Len(t) = 3
  BY <1>1, <1>2, ConcatProperties
<1>4. \A i \in 1..3 : t[i] = IF i <= 2 THEN <<a, b>>[i] ELSE <<c>>[i - 2]
  BY <1>1, <1>2, ConcatProperties
<1> HIDE DEF S, t
<1>5. t[1] = a /\ t[2] = b /\ t[3] = c
  BY <1>1, <1>2, <1>4
<1>6. t = <<a, b, c>>
  BY <1>3, <1>5
<1> QED BY <1>6 DEF t

(* The calls of the system, as lists.                                      *)
LEMMA TodosBegin == {startTunnel, onDisconnect, onDestroy} \subseteq
                       {<<"disconnect", "close", "connect">>, <<"disconnect", "close", "stopSelf">>,
                        <<"disconnect", "close", "cancel">>}
<1>1. \A x : <<"disconnect", "close">> \o <<x>> = <<"disconnect", "close", x>>
  BY PairThen
<1> QED BY <1>1 DEF startTunnel, stopTunnel, onDisconnect, onDestroy

(* The service starts within its invariant.                                *)
LEMMA ServiceStarts == ServiceInit => ServiceInv
BY DEF ServiceInit, ServiceInv, ServiceTodo, EngineKept, OneDevice, Todos

(* The main thread.                                                        *)
LEMMA MainThreadKeeps ==
    ASSUME ServiceInv, Called \/ Disconnects \/ Closes \/ Connects \/ Ends
    PROVE  ServiceInv'
<1> USE DEF ServiceInv
<1>1. CASE Called
  <2>1. todo' \in {startTunnel, onDisconnect, onDestroy}
        /\ UNCHANGED <<engineTold, engines, engine, tunFd, devices, established, crossed>>
    BY <1>1 DEF Called, announced, device
  <2>2. ServiceTodo'
    BY <2>1, TodosBegin DEF ServiceTodo, Todos
  <2> QED BY <2>1, <2>2 DEF EngineKept, OneDevice
<1>2. CASE Disconnects
  <2>1. /\ Does("disconnect") /\ engine' = 0 /\ engines' = engines
        /\ UNCHANGED <<tunFd, devices, established, crossed>>
        /\ engine # 0 => engineTold' = engineTold \cup {engine}
        /\ engine = 0 => engineTold' = engineTold
    BY <1>2 DEF Disconnects, device, announced, Events!Tell
  <2>2. ServiceTodo'
    BY <2>1, TodosEnd DEF Does, ServiceTodo
  <2>3. EngineKept'
    BY <2>1 DEF EngineKept
  <2> QED BY <2>1, <2>2, <2>3 DEF OneDevice
<1>3. CASE Closes
  <2>1. Does("close") /\ CloseTun /\ UNCHANGED <<engineTold, engines, engine>>
    BY <1>3 DEF Closes, announced
  <2>2. ServiceTodo'
    BY <2>1, TodosEnd DEF Does, ServiceTodo
  <2> QED BY <2>1, <2>2 DEF EngineKept, OneDevice, CloseTun
<1>4. CASE Connects
  <2>1. /\ Does("connect") /\ engines' = engines + 1 /\ engine' = engines + 1
        /\ UNCHANGED <<engineTold, tunFd, devices, established, crossed>>
    BY <1>4 DEF Connects, announced, device
  <2>2. engine = 0
    BY <2>1, TodosEnd DEF Does, ServiceTodo
  <2>3. ServiceTodo'
    BY <2>1, TodosEnd DEF Does, ServiceTodo
  <2>4. EngineKept'
    BY <2>1, <2>2 DEF EngineKept
  <2> QED BY <2>1, <2>3, <2>4 DEF OneDevice
<1>5. CASE Ends
  <2>1. /\ Does("stopSelf") \/ Does("cancel")
        /\ UNCHANGED <<engineTold, engines, engine, tunFd, devices, established, crossed>>
    BY <1>5 DEF Ends, announced
  <2>2. ServiceTodo'
    BY <2>1, TodosEnd DEF Does, ServiceTodo
  <2> QED BY <2>1, <2>2 DEF EngineKept, OneDevice
<1> QED BY <1>1, <1>2, <1>3, <1>4, <1>5

(* The engines' threads and the coroutines.                                *)
LEMMA OthersKeep ==
    ASSUME ServiceInv,
           \/ \E e \in 1..MaxStarts : handleGoEvent(e)
           \/ \E n \in 1..MaxOpens : Establish(n) \/ Publish(n)
           \/ UNCHANGED serviceVars
    PROVE  ServiceInv'
<1> USE DEF ServiceInv
<1>1. ASSUME NEW e \in 1..MaxStarts, handleGoEvent(e) PROVE ServiceInv'
  <2>1. UNCHANGED <<engineTold, engines, engine, todo>>
    BY <1>1 DEF handleGoEvent, Events!Announce
  <2>2. CloseTun \/ UNCHANGED <<tunFd, devices, established, crossed>>
    BY <1>1 DEF handleGoEvent, device
  <2> QED BY <2>1, <2>2 DEF ServiceTodo, EngineKept, OneDevice, CloseTun
<1>2. ASSUME NEW n \in 1..MaxOpens, Establish(n) PROVE ServiceInv'
  <2>1. UNCHANGED <<engineTold, engines, engine, todo, tunFd>>
    BY <1>2 DEF Establish, announced
  <2>2. CASE /\ devices' = devices \cup {n} /\ established' = established \cup {n}
             /\ crossed' = (crossed \/ devices # {} \/ todo # <<>> \/ over)
    <3>1. ~crossed' => ~crossed /\ devices = {}
      BY <2>2, Zenon
    <3> QED BY <2>1, <2>2, <3>1 DEF ServiceTodo, EngineKept, OneDevice
  <2>3. CASE UNCHANGED <<devices, established, crossed>>
    BY <2>1, <2>3 DEF ServiceTodo, EngineKept, OneDevice
  <2> QED BY <1>2, <2>2, <2>3 DEF Establish
<1>3. ASSUME NEW n \in 1..MaxOpens, Publish(n) PROVE ServiceInv'
  BY <1>3 DEF Publish, announced, ServiceTodo, EngineKept, OneDevice
<1>4. CASE UNCHANGED serviceVars
  BY <1>4 DEF serviceVars, announced, device, ServiceTodo, EngineKept, OneDevice
<1> QED BY <1>1, <1>2, <1>3, <1>4

(* NothingOutOfReach: the service can disconnect every engine it has       *)
(* started, and close its device unless an openTun met a stop or another   *)
(* device (HomeTunnelVpnService.kt).                                       *)
THEOREM ServiceReaches == ServiceSpec => []NothingOutOfReach
<1>1. ServiceInv /\ [ServiceNext]_serviceVars => ServiceInv'
  BY MainThreadKeeps, OthersKeep DEF ServiceNext
<1>2. ServiceInv => NothingOutOfReach
  BY DEF ServiceInv, EngineKept, OneDevice, NothingOutOfReach
<1> QED BY <1>1, <1>2, ServiceStarts, PTL DEF ServiceSpec
-----------------------------------------------------------------------------
(* A provider asks for settings once, while it keeps the completion        *)
(* handler.                                                                *)
TunnelInv ==
    /\ answers \in {<<>>, <<"ok">>, <<"error">>}
    /\ asked \in {0, 1} /\ forwarding \in {0, 1} /\ applied \in {0, 1}
    /\ startCompletion => answers = <<>>
    /\ provider = "idle" => ~startCompletion /\ answers = <<>> /\ waitingForConnect
    /\ provider = "refused" => asked = 0 /\ forwarding = 0 /\ ~startCompletion
    /\ waitingForConnect => /\ asked = 0 /\ applied = 0 /\ forwarding = 0
                            /\ provider \in {"started", "stopped"} => startCompletion
    /\ asked = 1 => startCompletion /\ applied = 0 /\ forwarding = 0
    /\ forwarding = 1 => answers = <<"ok">> /\ applied = 1

(* CompletionOnce: whatever order a stop, a reconnection and the answer to *)
(* the settings come in, the system's handler is called at most once       *)
(* (PacketTunnelProvider.swift).                                           *)
THEOREM HandlerCalledOnce == TunnelSpec => []CompletionOnce
<1>1. TunnelInit => TunnelInv
  BY DEF TunnelInit, TunnelInv
<1>2. TunnelInv /\ [TunnelNext]_tunnelVars => TunnelInv'
  <2> SUFFICES ASSUME TunnelInv, [TunnelNext]_tunnelVars PROVE TunnelInv'
    OBVIOUS
  <2>1. CASE Start
    BY <2>1 DEF Start, TunnelInv, reported
  <2>2. CASE Stop
    BY <2>2 DEF Stop, TunnelInv
  <2>3. CASE onEvent
    <3>1. /\ provider \in {"started", "stopped"}
          /\ UNCHANGED <<provider, startCompletion, answers, applied, forwarding>>
          /\ \/ asked' = asked /\ waitingForConnect' = waitingForConnect
             \/ asked' = (IF waitingForConnect THEN asked + 1 ELSE asked) /\ ~waitingForConnect'
      BY <2>3 DEF onEvent, didConnect
    <3> QED BY <3>1 DEF TunnelInv
  <2>4. CASE SettingsAnswered
    <3>1. asked = 1 /\ startCompletion /\ answers = <<>> /\ applied = 0 /\ forwarding = 0
      BY <2>4 DEF SettingsAnswered, TunnelInv
    <3>2. /\ asked' = 0 /\ ~startCompletion'
          /\ UNCHANGED <<provider, waitingForConnect>>
          /\ \/ answers' = <<"error">> /\ applied' = 0 /\ forwarding' = 0
             \/ answers' = <<"ok">> /\ applied' = 1 /\ forwarding' \in {0, 1}
      BY <2>4, <3>1 DEF SettingsAnswered, Complete
    <3> QED BY <3>1, <3>2 DEF TunnelInv
  <2>5. CASE UNCHANGED tunnelVars
    BY <2>5 DEF tunnelVars, TunnelInv
  <2> QED BY <2>1, <2>2, <2>3, <2>4, <2>5 DEF TunnelNext
<1>3. TunnelInv => CompletionOnce
  BY DEF TunnelInv, CompletionOnce
<1> QED BY <1>1, <1>2, <1>3, PTL DEF TunnelSpec
=============================================================================
