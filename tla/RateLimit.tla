----------------------------- MODULE RateLimit ------------------------------
(***************************************************************************)
(* The failure counter and the block list of client_manager, with their    *)
(* clocks, and the handshakes of server/main.go that feed them: a HELLO of *)
(* a blocked source is dropped, but a handshake that began before the      *)
(* block may still fail during it.  (Server.tla has the same operations    *)
(* without clocks, among everything else the server does.)                 *)
(***************************************************************************)
EXTENDS Integers, Sequences, FiniteSetsExt

CONSTANTS Sources,      \* source addresses
          MaxAuthFails, \* failures that block a source
          Window,       \* failRecord.window
          BlockTimeout, \* how long a block lasts
          MaxPending,   \* bound: handshakes of a source at a time
          MaxFailures,  \* bound: failures of a source
          Horizon       \* bound: end of time

ASSUME RateAssumption == /\ {MaxAuthFails, Window, BlockTimeout} \subseteq Nat \ {0}
                         /\ {MaxPending, MaxFailures, Horizon} \subseteq Nat

VARIABLES now,
          failures,     \* source -> its failRecord: count and lastAt
          blocked,      \* source -> when its block ends, or Never
          pending,      \* source -> handshakes that are running
          history,      \* source -> the times of its failures since its last block
          imposed       \* source -> when its last block was imposed, or Never

rateVars == <<now, failures, blocked, pending, history, imposed>>

Never == 0 - BlockTimeout    \* the zero time, before everything

RateInit == /\ now = 0
            /\ failures = [s \in Sources |-> [count |-> 0, lastAt |-> Never]]
            /\ blocked  = [s \in Sources |-> Never]
            /\ pending  = [s \in Sources |-> 0]
            /\ history  = [s \in Sources |-> <<>>]
            /\ imposed  = [s \in Sources |-> Never]
-----------------------------------------------------------------------------
(* A mutant: the block ends a tick early.                                  *)
IsBlockedShort(s) == now + 1 < blocked[s]

IsBlocked(s) == now < blocked[s]

(* handleInbound: a HELLO of a blocked source is dropped; any other starts *)
(* a handshake, and an entry that is over is deleted.                      *)
Hello(s) == /\ pending[s] < MaxPending
            /\ ~IsBlocked(s)
            /\ blocked' = [blocked EXCEPT ![s] = Never]
            /\ pending' = [pending EXCEPT ![s] = @ + 1]
            /\ UNCHANGED <<now, failures, history, imposed>>

(* A mutant: the count starts again a tick early.                          *)
CountRestartsEarly(s) == IF now - failures[s].lastAt >= Window THEN 1 ELSE failures[s].count + 1

(* The count starts again when the last failure, not the first, is older   *)
(* than the window.                                                        *)
Count(s) == IF now - failures[s].lastAt > Window THEN 1 ELSE failures[s].count + 1

RecordFailure(s) ==
    /\ pending[s] > 0 /\ Len(history[s]) < MaxFailures
    /\ pending' = [pending EXCEPT ![s] = @ - 1]
    /\ IF Count(s) >= MaxAuthFails
       THEN /\ blocked'  = [blocked EXCEPT ![s] = now + BlockTimeout]
            /\ failures' = [failures EXCEPT ![s] = [count |-> 0, lastAt |-> Never]]
            /\ history'  = [history EXCEPT ![s] = <<>>]
            /\ imposed'  = [imposed EXCEPT ![s] = now]
       ELSE /\ failures' = [failures EXCEPT ![s] = [count |-> Count(s), lastAt |-> now]]
            /\ history'  = [history EXCEPT ![s] = Append(@, now)]
            /\ UNCHANGED <<blocked, imposed>>
    /\ UNCHANGED now

(* A handshake that succeeds leaves the counter as it is.                  *)
Succeeds(s) == /\ pending[s] > 0
               /\ pending' = [pending EXCEPT ![s] = @ - 1]
               /\ UNCHANGED <<now, failures, blocked, history, imposed>>

RateTick == now < Horizon /\ now' = now + 1 /\ UNCHANGED <<failures, blocked, pending, history, imposed>>

RateNext == \/ \E s \in Sources : Hello(s) \/ RecordFailure(s) \/ Succeeds(s)
            \/ RateTick

RateSpec == RateInit /\ [][RateNext]_rateVars
-----------------------------------------------------------------------------
(* A guesser has fewer than MaxAuthFails failures in any Window before it  *)
(* is blocked, however its handshakes, its blocks and time interleave; a   *)
(* handshake that began before the last block counts towards the next.     *)
GuessesAreLimited ==
    \A s \in Sources : LET h == history[s] IN
        \A i \in MaxAuthFails..Len(h) : h[i] - h[i - MaxAuthFails + 1] > Window

(* README.md's "5 attempts / 60 s -> 10-minute IP block": only that many    *)
(* failures within one Window block a source.  They need not be, because   *)
(* each failure starts the window anew.                                    *)
BlockNeedsBurst ==
    [][\A s \in Sources : imposed'[s] # imposed[s] =>
          LET h == Append(history[s], now) IN
              Len(h) >= MaxAuthFails /\ now - h[Len(h) - MaxAuthFails + 1] <= Window]_rateVars

(* No handshake begins within BlockTimeout of the block of its source,     *)
(* however many handshakes of the source were under way when it came.      *)
BlockLasts ==
    [][\A s \in Sources : pending'[s] > pending[s] => now >= imposed[s] + BlockTimeout]_rateVars

(* What the clocks leave of it is the limiter of the manager that has no   *)
(* callers but these: a record older than the window counts for nothing,   *)
(* and a block that is over is none.                                       *)
Unexpired == [s \in Sources |-> IF now - failures[s].lastAt > Window THEN 0 ELSE failures[s].count]

Clockless == INSTANCE ClientManager
                WITH Callers <- {}, Addrs <- {}, Hosts <- Sources, PoolSize <- 0, NoOne <- "none",
                     failures <- Unexpired, blocked <- {s \in Sources : IsBlocked(s)},
                     sessions <- {}, byIP <- [ip \in {0} |-> "none"], byAddr <- [a \in {} |-> "none"],
                     object <- [c \in {} |-> "none"], stale <- {},
                     allocated <- {}, assigned <- [c \in {} |-> 0]

ImplementsLimiter == Clockless!ManagerSpec
=============================================================================
