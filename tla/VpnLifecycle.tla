---------------------------- MODULE VpnLifecycle ----------------------------
(***************************************************************************)
(* startVPN and stopVPN (server/main.go), called by main at start-up and   *)
(* at a signal, and by the API handlers for /api/server/start and /stop.   *)
(*                                                                         *)
(* All calls share the variables tun, udpConn and err of main, without a   *)
(* lock; only Running is read and written under one.  The n-th call opens  *)
(* TUN device n and socket n.  The operating system has one TUN device     *)
(* named "hometunnel" and one listener on the port at a time; as on Linux, *)
(* a read that has not returned keeps the device when it is closed.        *)
(***************************************************************************)
EXTENDS Naturals, FiniteSets

CONSTANTS Workers,      \* API handler goroutines
          Main,         \* the goroutine of main
          Concurrency,  \* bound: calls of startVPN and stopVPN in progress at once
          MaxCalls,     \* bound: calls of startVPN and stopVPN in all
          Nil

ASSUME LifecycleAssumption == /\ Main \notin Workers
                              /\ Concurrency \in Nat \ {0}
                              /\ MaxCalls \in Nat \ {0}
                              /\ Nil \notin Nat

VARIABLES running,      \* state.Running
          ctxDone,      \* vpnCtx is cancelled: it is made once, before the first start
          tun, udpConn, \* what the shared variables point to
          err,          \* the shared err is not nil
          tuns, socks,  \* devices and sockets that are open
          nat,          \* how often the NAT rules are installed
          loops,        \* dispatch loops that run: who started them, on which conn and tun
          readers,      \* tunReadLoops that run, each of one of those
          reading,      \* those that are in a ReadPacket
          pc, call,     \* where each goroutine is, and the number of its call
          calls,        \* calls made so far
          overlapped,   \* a startVPN has been in progress beside another call
          alive,        \* the process runs
          panicked      \* a nil pointer was dereferenced

shared == <<running, ctxDone, tun, udpConn, err>>
os     == <<tuns, socks, nat>>
spawned == <<loops, readers, reading>>
made   == <<calls, overlapped>>
vpnVars == <<shared, os, spawned, pc, call, made, alive, panicked>>

Threads == Workers \cup {Main}

VpnInit == /\ running = FALSE /\ ctxDone = FALSE /\ err = FALSE
           /\ tun = Nil /\ udpConn = Nil
           /\ tuns = {} /\ socks = {} /\ nat = 0
           /\ loops = {} /\ readers = {} /\ reading = {}
           /\ pc = [t \in Threads |-> "idle"] /\ call = [t \in Threads |-> 0]
           /\ calls = 0 /\ overlapped = FALSE
           /\ alive = TRUE /\ panicked = FALSE

Busy == {t \in Threads : pc[t] # "idle"}
At(t, label)   == alive /\ pc[t] = label
Goto(t, label) == pc' = [pc EXCEPT ![t] = label]

(* A call returns.  main ends the process when its own start fails.        *)
Return(t, failed) == /\ Goto(t, "idle")
                     /\ alive' = ~ (failed /\ t = Main)
                     /\ UNCHANGED panicked

(* net/http recovers a panic in a handler; in main it ends the process.    *)
Panics(t) == /\ Goto(t, "idle")
             /\ panicked' = TRUE
             /\ alive' = (t # Main)

Stopping == {"cancel", "closeConn", "useConn", "teardown", "closeTun", "stopped"}

Begin(t, label) == /\ At(t, "idle")
                   /\ Cardinality(Busy) < Concurrency
                   /\ calls < MaxCalls
                   /\ calls' = calls + 1
                   /\ overlapped' = (overlapped \/ \E u \in Busy : ~({label, pc[u]} \subseteq Stopping))
                   /\ call' = [call EXCEPT ![t] = calls + 1]
                   /\ Goto(t, label)
                   /\ UNCHANGED <<shared, os, spawned, alive, panicked>>

(* main starts the VPN by itself once, whatever Running says; the API      *)
(* listens before that.                                                    *)
MainStarts == call[Main] = 0 /\ Begin(Main, "open")

(* A mutant: the handler does not ask whether the VPN runs.                *)
HandleStartUnchecked(w) == Begin(w, "open")

(* handleServerStart looks at Running, unlocks, and only then calls        *)
(* startVPN.                                                               *)
HandleStart(w) == ~running /\ Begin(w, "open")
-----------------------------------------------------------------------------
(* A read that has not returned keeps the descriptor of its device.        *)
Kept == {l.tun : l \in reading}

(* A mutant: the name is asked for as one of several queues, and given     *)
(* to everybody.                                                           *)
OpenTunShared(t) ==
    /\ At(t, "open")
    /\ tun' = call[t]
    /\ tuns' = tuns \cup {call[t]}
    /\ Goto(t, "nat")
    /\ UNCHANGED <<running, ctxDone, udpConn, err, socks, nat, spawned, call, made, alive, panicked>>

(* tun, tunErr = tunnel.Open(..): a failure leaves tun nil.                *)
OpenTun(t) ==
    /\ At(t, "open")
    /\ \/ /\ tuns = {} /\ Kept = {}
          /\ tun' = call[t]
          /\ tuns' = tuns \cup {call[t]}
          /\ Goto(t, "nat")
          /\ UNCHANGED <<alive, panicked>>
       \/ /\ tun' = Nil
          /\ Return(t, TRUE)
          /\ UNCHANGED tuns
    /\ UNCHANGED <<running, ctxDone, udpConn, err, socks, nat, spawned, call, made>>

(* The commands that install the rules may fail: nobody looks, and the     *)
(* start goes on.                                                          *)
SetupNAT(t) ==
    /\ At(t, "nat")
    /\ \/ /\ tun = Nil
          /\ Panics(t)
          /\ UNCHANGED nat
       \/ /\ tun # Nil
          /\ nat' \in {nat, nat + 1}
          /\ Goto(t, "listen")
          /\ UNCHANGED <<alive, panicked>>
    /\ UNCHANGED <<shared, tuns, socks, spawned, call, made>>

ListenUDP(t) ==
    /\ At(t, "listen")
    /\ \/ /\ socks = {}
          /\ udpConn' = call[t]
          /\ err' = FALSE
          /\ socks' = socks \cup {call[t]}
       \/ /\ udpConn' = Nil
          /\ err' = TRUE
          /\ UNCHANGED socks
    /\ Goto(t, "check")
    /\ UNCHANGED <<running, ctxDone, tun, tuns, nat, spawned, call, made, alive, panicked>>

CheckListen(t) ==
    /\ At(t, "check")
    /\ \/ /\ err /\ tun = Nil
          /\ Panics(t)
          /\ UNCHANGED tuns
       \/ /\ err /\ tun # Nil
          /\ tuns' = tuns \ {tun}
          /\ Return(t, TRUE)
       \/ /\ ~err
          /\ Goto(t, "spawn")
          /\ UNCHANGED <<tuns, alive, panicked>>
    /\ UNCHANGED <<shared, socks, nat, spawned, call, made>>

(* go dispatchLoop(vpnCtx, udpConn, tun, ..), which starts tunReadLoop     *)
(* too: in a goroutine of its own a nil pointer ends the process.          *)
Spawn(t) ==
    /\ At(t, "spawn")
    /\ \/ /\ udpConn # Nil /\ tun # Nil
          /\ LET new == [by |-> call[t], conn |-> udpConn, tun |-> tun]
             IN  loops' = loops \cup {new} /\ readers' = readers \cup {new}
          /\ UNCHANGED <<alive, panicked>>
       \/ /\ udpConn = Nil \/ tun = Nil
          /\ alive' = FALSE /\ panicked' = TRUE
          /\ UNCHANGED <<loops, readers>>
    /\ Goto(t, "announce")
    /\ UNCHANGED <<shared, os, reading, call, made>>

Announce(t) ==
    /\ At(t, "announce")
    /\ running' = TRUE
    /\ Return(t, FALSE)
    /\ UNCHANGED <<ctxDone, tun, udpConn, err, os, spawned, call, made>>

goroutines == <<shared, os, pc, call, made, alive, panicked>>

(* The select of dispatchLoop has vpnCtx beside the packets.  The channel  *)
(* of a closed conn stays open and empty.                                  *)
LoopEnds(l) ==
    /\ alive /\ ctxDone
    /\ loops' = loops \ {l}
    /\ UNCHANGED <<readers, reading, goroutines>>

(* tunReadLoop looks at vpnCtx before each read, and blocks in the read    *)
(* for as long as the device has no packet, also when it is closed.  A     *)
(* read of a device that is closed already fails at once.                  *)
ReadBegins(l) ==
    /\ alive /\ ~ctxDone
    /\ l \notin reading /\ l.tun \in tuns
    /\ reading' = reading \cup {l}
    /\ UNCHANGED <<loops, readers, goroutines>>

ReadReturns(l) ==
    /\ alive /\ l \in reading
    /\ reading' = reading \ {l}
    /\ UNCHANGED <<loops, readers, goroutines>>

ReaderEnds(l) ==
    /\ alive /\ ctxDone /\ l \notin reading
    /\ readers' = readers \ {l}
    /\ UNCHANGED <<loops, reading, goroutines>>
-----------------------------------------------------------------------------
(* handleServerStop asks for no state: a second stop is carried out.  main *)
(* stops at a signal, which it waits for after its start.                  *)
HandleStop(t) == /\ t = Main => call[Main] # 0
                 /\ Begin(t, "cancel")

Cancel(t) ==
    /\ At(t, "cancel")
    /\ ctxDone' = TRUE
    /\ Goto(t, "closeConn")
    /\ UNCHANGED <<running, tun, udpConn, err, os, spawned, call, made, alive, panicked>>

(* udpConn and tun are read once to be compared with nil and again to be   *)
(* used; another call may write them in between.                           *)
TestConn(t) ==
    /\ At(t, "closeConn")
    /\ Goto(t, IF udpConn = Nil THEN "teardown" ELSE "useConn")
    /\ UNCHANGED <<shared, os, spawned, call, made, alive, panicked>>

CloseConn(t) ==
    /\ At(t, "useConn")
    /\ \/ /\ udpConn = Nil
          /\ Panics(t)
          /\ UNCHANGED socks
       \/ /\ udpConn # Nil
          /\ socks' = socks \ {udpConn}
          /\ Goto(t, "teardown")
          /\ UNCHANGED <<alive, panicked>>
    /\ UNCHANGED <<shared, tuns, nat, spawned, call, made>>

(* teardownNAT: a command that removes a rule may fail, because there is   *)
(* none or otherwise, and is ignored.                                      *)
TeardownNAT(t) ==
    /\ At(t, "teardown")
    /\ \/ /\ tun = Nil
          /\ Goto(t, "stopped")
          /\ UNCHANGED nat
       \/ /\ tun # Nil
          /\ nat' \in {nat} \cup {n \in {nat - 1} : nat > 0}
          /\ Goto(t, "closeTun")
    /\ UNCHANGED <<shared, tuns, socks, spawned, call, made, alive, panicked>>

CloseTun(t) ==
    /\ At(t, "closeTun")
    /\ \/ /\ tun = Nil
          /\ Panics(t)
          /\ UNCHANGED tuns
       \/ /\ tun # Nil
          /\ tuns' = tuns \ {tun}
          /\ Goto(t, "stopped")
          /\ UNCHANGED <<alive, panicked>>
    /\ UNCHANGED <<shared, socks, nat, spawned, call, made>>

(* main exits after its stop, which only a signal starts.                  *)
Stopped(t) ==
    /\ At(t, "stopped")
    /\ running' = FALSE
    /\ Goto(t, "idle")
    /\ alive' = (t # Main)
    /\ UNCHANGED <<ctxDone, tun, udpConn, err, os, spawned, call, made, panicked>>
-----------------------------------------------------------------------------
Step(t) == \/ OpenTun(t) \/ SetupNAT(t) \/ ListenUDP(t) \/ CheckListen(t)
           \/ Spawn(t) \/ Announce(t)
           \/ Cancel(t) \/ TestConn(t) \/ CloseConn(t) \/ TeardownNAT(t) \/ CloseTun(t) \/ Stopped(t)

VpnNext == \/ MainStarts
           \/ \E w \in Workers : HandleStart(w)
           \/ \E t \in Threads : HandleStop(t) \/ Step(t)
           \/ \E l \in loops : LoopEnds(l)
           \/ \E l \in readers : ReadBegins(l) \/ ReadReturns(l) \/ ReaderEnds(l)

VpnSpec == VpnInit /\ [][VpnNext]_vpnVars
-----------------------------------------------------------------------------
(* What GET /api/status says, but for the address, the port and the        *)
(* uptime.                                                                 *)
handleStatus == [running |-> running]

Quiet == alive /\ Busy = {}

(* Between calls, the status says what is open, after whatever failed:     *)
(* nothing when it is FALSE, but for a read of a closed device that has    *)
(* not returned; when it is TRUE a device and a socket, which are those    *)
(* the shared variables point to.  And none of these calls has             *)
(* dereferenced a nil tun or udpConn on its way.  Stops may have           *)
(* overlapped one another; of a start beside another call nothing is said. *)
RunningMatchesResources ==
    /\ Quiet /\ ~overlapped =>
          IF handleStatus.running THEN tuns = {tun} /\ socks = {udpConn}
          ELSE tuns = {} /\ socks = {}
    /\ ~overlapped => ~panicked

(* Whatever calls overlap, the server takes the TUN device as Device       *)
(* promises it, and not from under a tunReadLoop of an earlier start whose *)
(* read is still in it: a start then fails.  The end of the process gives  *)
(* everything back.                                                        *)
ServerDevice == INSTANCE Device WITH Users <- 1..MaxCalls,
                                     open    <- IF alive THEN tuns ELSE {},
                                     reading <- IF alive THEN Kept ELSE {}

ServerUsesDevice == ServerDevice!DeviceSpec
=============================================================================
