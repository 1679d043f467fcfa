------------------------------ MODULE Keepalive ------------------------------
(***************************************************************************)
(* The clocks that keep an idle session alive: the client's keepalive      *)
(* ticker (client/desktop/main.go, core/mobile/mobile.go), the server's    *)
(* LastSeen, and the sweep that evicts silent sessions (manager.go).       *)
(*                                                                         *)
(* Time passes in ticks and everything else takes none.  The desktop       *)
(* client's latency probe and DATA packets only make the session less      *)
(* silent; this is the mobile client with no traffic.                      *)
(***************************************************************************)
EXTENDS Naturals

CONSTANTS KeepaliveEvery,   \* the ticker of the client, 25 s
          IdleTimeout,      \* client_manager.DefaultIdleTimeout, 2 min
          SweepEvery,       \* the ticker of sweepLoop, 30 s
          MaxLost,          \* bound: keepalives lost in a row
          MaxDelay          \* bound: how long a packet is under way

ASSUME KeepaliveAssumption ==
    /\ KeepaliveEvery \in Nat \ {0} /\ IdleTimeout \in Nat
    /\ SweepEvery \in Nat \ {0} /\ MaxLost \in Nat
    /\ MaxDelay \in Nat /\ MaxDelay < KeepaliveEvery

VARIABLES age,          \* ticks since LastSeen
          sinceFired,   \* ticks since the client's ticker fired
          lost,         \* keepalives lost since one was last sent safely
          underway,     \* the last one sent safely has not arrived yet
          sinceSwept,   \* ticks since the last sweep
          gone,         \* the client has stopped without a DISCONNECT
          evicted       \* the session was removed

vars == <<age, sinceFired, lost, underway, sinceSwept, gone, evicted>>

TypeOK == /\ age \in Nat
          /\ sinceFired \in 0..KeepaliveEvery
          /\ lost \in 0..MaxLost
          /\ underway \in BOOLEAN
          /\ sinceSwept \in 0..SweepEvery
          /\ gone \in BOOLEAN /\ evicted \in BOOLEAN

(* mgr.Add sets LastSeen when it sends ACCEPT, which starts the client's   *)
(* ticker after at most MaxDelay.                                          *)
Init == /\ age \in 0..MaxDelay
        /\ sinceFired = 0 /\ lost = 0 /\ underway = FALSE
        /\ sinceSwept \in 0..SweepEvery
        /\ gone = FALSE /\ evicted = FALSE

(* Ticks since the last keepalive that was sent and not lost.              *)
SinceSent == lost * KeepaliveEvery + sinceFired

(* Time does not pass over a ticker that is due or a packet that is.       *)
Tick == /\ ~evicted
        /\ sinceSwept < SweepEvery
        /\ gone \/ sinceFired < KeepaliveEvery
        /\ underway => sinceFired < MaxDelay
        /\ age' = age + 1
        /\ sinceFired' = IF gone THEN sinceFired ELSE sinceFired + 1
        /\ sinceSwept' = sinceSwept + 1
        /\ UNCHANGED <<lost, underway, gone, evicted>>

SendKeepalive == /\ ~gone /\ ~evicted
                 /\ sinceFired = KeepaliveEvery
                 /\ sinceFired' = 0
                 /\ \/ lost < MaxLost /\ lost' = lost + 1 /\ UNCHANGED underway
                    \/ lost' = 0 /\ underway' = TRUE
                 /\ UNCHANGED <<age, sinceSwept, gone, evicted>>

(* A mutant: the echo is sent and LastSeen left alone.                     *)
ReceiveWithoutTouch == /\ underway /\ ~evicted
                       /\ underway' = FALSE
                       /\ UNCHANGED <<age, sinceFired, lost, sinceSwept, gone, evicted>>

(* handleInbound finds the session and touches it.                         *)
ReceiveKeepalive == /\ underway /\ ~evicted
                    /\ age' = 0
                    /\ underway' = FALSE
                    /\ UNCHANGED <<sinceFired, lost, sinceSwept, gone, evicted>>

ClientDies == /\ ~gone
              /\ gone' = TRUE
              /\ underway' = FALSE
              /\ UNCHANGED <<age, sinceFired, lost, sinceSwept, evicted>>

(* A mutant: a session must be found silent for twice the timeout.         *)
SweepLate == /\ sinceSwept = SweepEvery
              /\ sinceSwept' = 0
              /\ evicted' = (evicted \/ age > 2 * IdleTimeout)
              /\ UNCHANGED <<age, sinceFired, lost, underway, gone>>

(* sweepIdle, when its ticker fires.                                       *)
Sweep == /\ sinceSwept = SweepEvery
         /\ sinceSwept' = 0
         /\ evicted' = (evicted \/ age > IdleTimeout)
         /\ UNCHANGED <<age, sinceFired, lost, underway, gone>>

Next == Tick \/ SendKeepalive \/ ReceiveKeepalive \/ ClientDies \/ Sweep
Spec == Init /\ [][Next]_vars
-----------------------------------------------------------------------------
(* An idle client that loses at most MaxLost keepalives in a row is never  *)
(* evicted, with a sweep at the worst moment and the latest arrival.       *)
SurvivesLosses == ~gone => ~evicted

(* A client that has died is evicted at the first sweep after the idle     *)
(* timeout: no session stays silent for longer than the two together.      *)
SilenceIsBounded == ~evicted => age <= IdleTimeout + SweepEvery
-----------------------------------------------------------------------------
(* The inductive invariant: how old LastSeen can be, by what was lost.     *)
Slack == (MaxLost + 1) * KeepaliveEvery

AgeBound == ~gone =>
    /\ underway  => lost = 0 /\ sinceFired <= MaxDelay /\ age <= Slack + MaxDelay + sinceFired
    /\ ~underway => age <= SinceSent + MaxDelay

SweepBound == ~evicted => age <= IdleTimeout + sinceSwept

Inv == TypeOK /\ AgeBound /\ SweepBound /\ SurvivesLosses
=============================================================================
