----------------------------- MODULE ClockProofs -----------------------------
(***************************************************************************)
(* What the server's clocks guarantee, for every timing.  Keepalive: an    *)
(* idle session outlives MaxLost lost keepalives, and a dead one is        *)
(* evicted in time.  RateLimit: a guesser is blocked, a block lasts, and   *)
(* without its clocks the limiter is the manager's.                        *)
(***************************************************************************)
EXTENDS Keepalive, RateLimit, TLAPS

(* The timeout leaves room for the losses, for the delay of the ACCEPT     *)
(* that starts the client's ticker and for that of the next keepalive.     *)
Roomy == Slack + 2 * MaxDelay <= IdleTimeout

(* The products of the bounds are natural numbers, and one more loss adds  *)
(* one period.                                                             *)
LEMMA Products ==
    /\ Slack \in Nat
    /\ \A n \in 0..MaxLost : /\ n * KeepaliveEvery \in Nat
                             /\ n * KeepaliveEvery + KeepaliveEvery <= Slack
                             /\ (n + 1) * KeepaliveEvery = n * KeepaliveEvery + KeepaliveEvery
<1> USE KeepaliveAssumption DEF KeepaliveAssumption
<1>1. Slack \in Nat
  BY DEF Slack
<1>2. ASSUME NEW n \in 0..MaxLost
      PROVE  /\ n * KeepaliveEvery \in Nat
             /\ n * KeepaliveEvery + KeepaliveEvery <= Slack
             /\ (n + 1) * KeepaliveEvery = n * KeepaliveEvery + KeepaliveEvery
  <2>1. n * KeepaliveEvery \in Nat
    OBVIOUS
  <2>2. (n + 1) * KeepaliveEvery = n * KeepaliveEvery + KeepaliveEvery
    OBVIOUS
  <2>3. (n + 1) * KeepaliveEvery <= (MaxLost + 1) * KeepaliveEvery
    OBVIOUS
  <2>4. QED
    BY <2>1, <2>2, <2>3 DEF Slack
<1>3. QED
  BY <1>1, <1>2

(* The bounds on the age of LastSeen are inductive.                        *)
THEOREM InvariantHolds == ASSUME Roomy PROVE Spec => []Inv
<1> USE KeepaliveAssumption DEF KeepaliveAssumption
<1>1. Init => Inv
  <2> SUFFICES ASSUME Init PROVE Inv
    OBVIOUS
  <2>1. TypeOK
    <3>1. underway \in BOOLEAN /\ gone \in BOOLEAN /\ evicted \in BOOLEAN
      BY Zenon DEF Init
    <3>2. QED
      BY <3>1 DEF Init, TypeOK
  <2>2. AgeBound
    BY 0 * KeepaliveEvery = 0 DEF Init, AgeBound, SinceSent
  <2>3. SweepBound
    BY Products, Roomy DEF Init, SweepBound, Roomy
  <2>4. SurvivesLosses
    BY DEF Init, SurvivesLosses
  <2>5. QED
    BY <2>1, <2>2, <2>3, <2>4 DEF Inv
<1>2. Inv /\ [Next]_vars => Inv'
  <2> SUFFICES ASSUME Inv, [Next]_vars PROVE Inv'
    OBVIOUS
  <2>0. TypeOK /\ AgeBound /\ SweepBound /\ SurvivesLosses
    BY DEF Inv
  <2>t. /\ age \in Nat /\ sinceFired \in 0..KeepaliveEvery /\ lost \in 0..MaxLost
        /\ underway \in BOOLEAN /\ sinceSwept \in 0..SweepEvery
        /\ gone \in BOOLEAN /\ evicted \in BOOLEAN
    BY <2>0 DEF TypeOK
  <2> DEFINE late == lost * KeepaliveEvery
  <2>p. /\ Slack \in Nat /\ late \in Nat /\ late + KeepaliveEvery <= Slack
        /\ (lost + 1) * KeepaliveEvery = late + KeepaliveEvery
        /\ 0 * KeepaliveEvery = 0
    BY <2>t, Products
  <2>a. ~gone => /\ underway  => lost = 0 /\ sinceFired <= MaxDelay
                                 /\ age <= Slack + MaxDelay + sinceFired
                 /\ ~underway => age <= late + sinceFired + MaxDelay
    BY <2>0 DEF AgeBound, SinceSent
  <2>r. Slack + 2 * MaxDelay <= IdleTimeout
    BY DEF Roomy
  <2> HIDE DEF late
  <2>1. CASE Tick
    <3>1. TypeOK'
      BY <2>1, <2>t DEF Tick, TypeOK
    <3>2. AgeBound'
      <4>1. ~gone' => /\ underway' => lost' = 0 /\ sinceFired' <= MaxDelay
                                      /\ age' <= Slack + MaxDelay + sinceFired'
                      /\ ~underway' => age' <= late + sinceFired' + MaxDelay
        BY <2>1, <2>t, <2>p, <2>a DEF Tick
      <4>2. lost' * KeepaliveEvery = late
        BY <2>1 DEF Tick, late
      <4>3. QED
        BY <4>1, <4>2 DEF AgeBound, SinceSent, Slack
    <3>3. SweepBound' /\ SurvivesLosses'
      BY <2>1, <2>0, <2>t DEF Tick, SweepBound, SurvivesLosses
    <3>4. QED
      BY <3>1, <3>2, <3>3 DEF Inv
  <2>2. CASE SendKeepalive
    <3>1. TypeOK'
      <4>1. underway' \in BOOLEAN
        BY <2>2, <2>t, Zenon DEF SendKeepalive
      <4>2. QED
        BY <4>1, <2>2, <2>t DEF SendKeepalive, TypeOK
    <3>2. ~underway
      BY <2>2, <2>t, <2>a DEF SendKeepalive
    <3>3. age <= late + KeepaliveEvery + MaxDelay
      BY <2>2, <2>t, <2>a, <3>2 DEF SendKeepalive
    <3>4. AgeBound'
      <4>1. CASE lost' = lost + 1 /\ underway' = underway
        <5>1. SinceSent' = late + KeepaliveEvery
          BY <2>2, <4>1, <2>t, <2>p DEF SendKeepalive, SinceSent
        <5>2. QED
          BY <5>1, <2>2, <4>1, <3>2, <3>3, <2>t DEF SendKeepalive, AgeBound
      <4>2. CASE lost' = 0 /\ underway' = TRUE
        <5>1. age <= Slack + MaxDelay
          BY <3>3, <2>p, <2>t
        <5>2. QED
          BY <5>1, <2>2, <4>2, <2>t, <2>p DEF SendKeepalive, AgeBound, Slack
      <4>3. QED
        BY <2>2, <4>1, <4>2 DEF SendKeepalive
    <3>5. SweepBound' /\ SurvivesLosses'
      BY <2>2, <2>0 DEF SendKeepalive, SweepBound, SurvivesLosses
    <3>6. QED
      BY <3>1, <3>4, <3>5 DEF Inv
  <2>3. CASE ReceiveKeepalive
    <3>1. TypeOK'
      BY <2>3, <2>t DEF ReceiveKeepalive, TypeOK
    <3>2. AgeBound'
      <4>1. SinceSent' = late + sinceFired
        BY <2>3 DEF ReceiveKeepalive, SinceSent, late
      <4>2. 0 <= SinceSent' + MaxDelay
        BY <4>1, <2>t, <2>p
      <4>3. ~underway' /\ age' = 0
        BY <2>3 DEF ReceiveKeepalive
      <4>4. QED
        BY <4>2, <4>3, Zenon DEF AgeBound
    <3>3. SweepBound' /\ SurvivesLosses'
      BY <2>3, <2>0, <2>t DEF ReceiveKeepalive, SweepBound, SurvivesLosses
    <3>4. QED
      BY <3>1, <3>2, <3>3 DEF Inv
  <2>4. CASE ClientDies
    BY <2>4, <2>0, <2>t DEF ClientDies, Inv, TypeOK, AgeBound, SweepBound, SurvivesLosses
  <2>5. CASE Sweep
    <3>1. TypeOK'
      <4>1. evicted' \in BOOLEAN
        BY <2>5, <2>t, Zenon DEF Sweep
      <4>2. QED
        BY <4>1, <2>5, <2>t DEF Sweep, TypeOK
    <3>2. AgeBound'
      BY <2>5, <2>0 DEF Sweep, AgeBound, SinceSent, Slack
    <3>3. SweepBound'
      <4>1. evicted' <=> evicted \/ age > IdleTimeout
        BY <2>5, Zenon DEF Sweep
      <4>2. ~evicted' => age <= IdleTimeout
        BY <4>1, <2>t
      <4>3. sinceSwept' = 0 /\ age' = age
        BY <2>5 DEF Sweep
      <4>4. QED
        BY <4>2, <4>3, <2>t DEF SweepBound
    <3>4. ~gone => age <= IdleTimeout
      BY <2>t, <2>a, <2>p, <2>r
    <3>5. SurvivesLosses'
      BY <2>5, <2>0, <2>t, <3>4 DEF Sweep, SurvivesLosses
    <3>6. QED
      BY <3>1, <3>2, <3>3, <3>5 DEF Inv
  <2>6. CASE UNCHANGED vars
    BY <2>6, <2>0 DEF vars, Inv, TypeOK, AgeBound, SinceSent, Slack, SweepBound, SurvivesLosses
  <2>7. QED
    BY <2>1, <2>2, <2>3, <2>4, <2>5, <2>6 DEF Next
<1>3. QED
  BY <1>1, <1>2, PTL DEF Spec

(* SurvivesLosses: for every timing that leaves the timeout roomy, losing  *)
(* up to MaxLost keepalives in a row never costs a client its session.     *)
THEOREM IdleSessionSurvives == ASSUME Roomy PROVE Spec => []SurvivesLosses
<1>1. Inv => SurvivesLosses
  BY DEF Inv
<1>2. QED
  BY <1>1, InvariantHolds, PTL

(* SilenceIsBounded: a session that is not evicted was heard from within   *)
(* the idle timeout and one period of the sweep.                           *)
THEOREM SilentSessionIsEvicted == ASSUME Roomy PROVE Spec => []SilenceIsBounded
<1>1. Inv => SilenceIsBounded
  BY KeepaliveAssumption DEF KeepaliveAssumption, Inv, TypeOK, SweepBound, SilenceIsBounded
<1>2. QED
  BY <1>1, InvariantHolds, PTL
-----------------------------------------------------------------------------
RateTypeOK == /\ now \in Nat
              /\ failures \in [Sources -> [count : Nat, lastAt : Int]]
              /\ blocked \in [Sources -> Int] /\ imposed \in [Sources -> Int]
              /\ pending \in [Sources -> Nat]
              /\ history \in [Sources -> Seq(Nat)]

(* The record of a source has the time of its last failure, and counts     *)
(* every failure that is no more than the window older.                    *)
CountFits == \A s \in Sources : LET h == history[s] IN
    /\ failures[s].count < MaxAuthFails
    /\ \A i \in 1..Len(h) : /\ h[i] <= failures[s].lastAt
                            /\ failures[s].lastAt - h[i] <= Window => Len(h) - i + 1 <= failures[s].count
    /\ failures[s].lastAt <= now

(* A block is in force, or its time is over.                               *)
BlockFits == \A s \in Sources : \/ blocked[s] = imposed[s] + BlockTimeout
                               \/ now >= imposed[s] + BlockTimeout

RateInv == RateTypeOK /\ CountFits /\ GuessesAreLimited /\ BlockFits

(* The limiter starts within its invariant.                                *)
LEMMA RateStarts == RateInit => RateInv
<1> USE RateAssumption DEF RateAssumption
<1> SUFFICES ASSUME RateInit PROVE RateInv
  OBVIOUS
<1>1. Never \in Int /\ Never + BlockTimeout = 0
  BY DEF Never
<1>2. RateTypeOK
  BY <1>1 DEF RateInit, RateTypeOK
<1>3. CountFits
  BY DEF RateInit, CountFits, Never
<1>5. GuessesAreLimited
  BY DEF RateInit, GuessesAreLimited
<1>4. BlockFits
  BY <1>1 DEF RateInit, BlockFits
<1> QED BY <1>2, <1>3, <1>4, <1>5 DEF RateInv

(* A failure counts those of the window before it, or is the first, and    *)
(* blocks at the limit (manager.go: RecordFailure).                        *)
LEMMA CountKept ==
    ASSUME RateInv, NEW s \in Sources, RecordFailure(s)
    PROVE  RateInv'
<1>0. MaxAuthFails \in Nat /\ MaxAuthFails > 0 /\ Window \in Nat /\ BlockTimeout \in Nat
  BY RateAssumption DEF RateAssumption
<1> USE <1>0
<1>1. RateTypeOK /\ CountFits /\ GuessesAreLimited /\ BlockFits
  BY DEF RateInv
<1>2. now' = now /\ now \in Nat /\ Never \in Int /\ pending' \in [Sources -> Nat]
  <2>1. now' = now /\ pending[s] > 0 /\ pending' = [pending EXCEPT ![s] = @ - 1]
    BY Zenon DEF RecordFailure
  <2>2. now \in Nat /\ pending \in [Sources -> Nat] /\ pending[s] - 1 \in Nat
    BY <1>1, <2>1 DEF RateTypeOK
  <2> QED BY <2>1, <2>2 DEF Never
<1>3. /\ history[s] \in Seq(Nat) /\ failures[s].count \in Nat /\ failures[s].lastAt \in Int
      /\ Count(s) \in Nat \ {0}
  BY <1>1 DEF RateTypeOK, Count
<1>4. CASE Count(s) >= MaxAuthFails
  <2>1. /\ blocked' = [blocked EXCEPT ![s] = now + BlockTimeout]
        /\ failures' = [failures EXCEPT ![s] = [count |-> 0, lastAt |-> Never]]
        /\ history' = [history EXCEPT ![s] = <<>>]
        /\ imposed' = [imposed EXCEPT ![s] = now]
    BY <1>4 DEF RecordFailure
  <2>2. RateTypeOK'
    <3>1. failures' \in [Sources -> [count : Nat, lastAt : Int]]
      <4>1. [count |-> 0, lastAt |-> Never] \in [count : Nat, lastAt : Int]
        BY <1>2
      <4> QED BY <4>1, <1>1, <2>1 DEF RateTypeOK
    <3>2. blocked' \in [Sources -> Int] /\ imposed' \in [Sources -> Int]
      <4>1. now \in Int /\ now + BlockTimeout \in Int
        BY <1>2
      <4> QED BY <4>1, <1>1, <2>1 DEF RateTypeOK
    <3>3. history' \in [Sources -> Seq(Nat)]
      BY <1>1, <2>1 DEF RateTypeOK
    <3> QED BY <3>1, <3>2, <3>3, <1>2 DEF RateTypeOK
  <2>3. \A r \in Sources : IF r = s THEN history'[r] = <<>> /\ failures'[r] = [count |-> 0, lastAt |-> Never]
                                     ELSE history'[r] = history[r] /\ failures'[r] = failures[r]
    BY <1>1, <2>1 DEF RateTypeOK
  <2>4. CountFits'
    <3> SUFFICES ASSUME NEW r \in Sources
                 PROVE  /\ failures'[r].count < MaxAuthFails
                        /\ \A i \in 1..Len(history'[r]) :
                              /\ history'[r][i] <= failures'[r].lastAt
                              /\ failures'[r].lastAt - history'[r][i] <= Window
                                    => Len(history'[r]) - i + 1 <= failures'[r].count
                        /\ failures'[r].lastAt <= now'
      BY DEF CountFits
    <3>1. CASE r = s
      <4>1. history'[r] = <<>> /\ failures'[r] = [count |-> 0, lastAt |-> Never] /\ Never <= now
        BY <1>2, <2>3, <3>1 DEF Never
      <4> QED BY <1>2, <4>1
    <3>2. CASE r # s
      <4>1. history'[r] = history[r] /\ failures'[r] = failures[r]
        BY <2>3, <3>2
      <4> QED BY <1>1, <1>2, <4>1 DEF CountFits
    <3> QED BY <3>1, <3>2
  <2>5. GuessesAreLimited'
    BY <1>1, <2>3 DEF GuessesAreLimited
  <2>6. BlockFits'
    BY <1>1, <1>2, <2>1 DEF BlockFits, RateTypeOK
  <2> QED BY <2>2, <2>4, <2>5, <2>6 DEF RateInv
<1>5. CASE ~ (Count(s) >= MaxAuthFails)
  <2> DEFINE g == Append(history[s], now)
  <2>1. /\ failures' = [failures EXCEPT ![s] = [count |-> Count(s), lastAt |-> now]]
        /\ history' = [history EXCEPT ![s] = g]
        /\ blocked' = blocked /\ imposed' = imposed
    BY <1>5 DEF RecordFailure
  <2>2. g \in Seq(Nat) /\ Len(g) = Len(history[s]) + 1 /\ g[Len(g)] = now /\ Len(history[s]) \in Nat
    BY <1>2, <1>3
  <2>3. \A i \in 1..Len(history[s]) : g[i] = history[s][i] /\ g[i] \in Nat
    BY <1>2, <1>3
  <2> HIDE DEF g
  <2>4. RateTypeOK'
    <3>1. failures' \in [Sources -> [count : Nat, lastAt : Int]]
      <4>1. [count |-> Count(s), lastAt |-> now] \in [count : Nat, lastAt : Int]
        BY <1>2, <1>3
      <4> QED BY <4>1, <1>1, <2>1 DEF RateTypeOK
    <3>2. history' \in [Sources -> Seq(Nat)]
      BY <1>1, <2>1, <2>2 DEF RateTypeOK
    <3> QED BY <3>1, <3>2, <1>1, <1>2, <2>1 DEF RateTypeOK
  <2>5. \A r \in Sources : IF r = s THEN history'[r] = g /\ failures'[r] = [count |-> Count(s), lastAt |-> now]
                                     ELSE history'[r] = history[r] /\ failures'[r] = failures[r]
    BY <1>1, <2>1 DEF RateTypeOK
  <2>6. \A i \in 1..Len(g) : g[i] <= now /\ (now - g[i] <= Window => Len(g) - i + 1 <= Count(s))
    <3> SUFFICES ASSUME NEW i \in 1..Len(g)
                 PROVE  g[i] <= now /\ (now - g[i] <= Window => Len(g) - i + 1 <= Count(s))
      OBVIOUS
    <3>1. CASE i = Len(g)
      BY <1>2, <1>3, <2>2, <3>1
    <3>2. CASE i # Len(g)
      <4>1. i \in 1..Len(history[s])
        BY <2>2, <3>2
      <4>2. /\ g[i] <= failures[s].lastAt /\ failures[s].lastAt <= now /\ g[i] \in Nat
            /\ failures[s].lastAt - g[i] <= Window => Len(history[s]) - i + 1 <= failures[s].count
        BY <1>1, <2>3, <4>1 DEF CountFits
      <4>3. now - g[i] <= Window => Count(s) = failures[s].count + 1
        BY <1>2, <1>3, <4>2 DEF Count
      <4>4. now - g[i] <= Window => Len(history[s]) - i + 1 <= failures[s].count
        BY <1>2, <1>3, <4>2
      <4>5. g[i] <= now
        BY <1>2, <1>3, <4>2
      <4>6. Len(g) - i + 1 = (Len(history[s]) - i + 1) + 1 /\ Len(history[s]) - i + 1 \in Int
        BY <2>2, <4>1
      <4> QED BY <1>3, <4>3, <4>4, <4>5, <4>6
    <3> QED BY <3>1, <3>2
  <2>7. CountFits'
    <3> SUFFICES ASSUME NEW r \in Sources
                 PROVE  /\ failures'[r].count < MaxAuthFails
                        /\ \A i \in 1..Len(history'[r]) :
                              /\ history'[r][i] <= failures'[r].lastAt
                              /\ failures'[r].lastAt - history'[r][i] <= Window
                                    => Len(history'[r]) - i + 1 <= failures'[r].count
                        /\ failures'[r].lastAt <= now'
      BY DEF CountFits
    <3>1. CASE r = s
      <4>1. history'[r] = g /\ failures'[r] = [count |-> Count(s), lastAt |-> now]
        BY <2>5, <3>1
      <4> QED BY <1>2, <1>3, <1>5, <2>6, <4>1
    <3>2. CASE r # s
      <4>1. history'[r] = history[r] /\ failures'[r] = failures[r]
        BY <2>5, <3>2
      <4> QED BY <1>1, <1>2, <4>1 DEF CountFits
    <3> QED BY <3>1, <3>2
  <2>8. \A i \in MaxAuthFails..Len(g) : g[i] - g[i - MaxAuthFails + 1] > Window
    <3> SUFFICES ASSUME NEW i \in MaxAuthFails..Len(g) PROVE g[i] - g[i - MaxAuthFails + 1] > Window
      OBVIOUS
    <3>1. i \in 1..Len(g) /\ i - MaxAuthFails + 1 \in 1..Len(g)
      BY <2>2
    <3>2. CASE i = Len(g)
      <4>1. Len(g) - (i - MaxAuthFails + 1) + 1 = MaxAuthFails
        BY <2>2, <3>2
      <4>2. ~(now - g[i - MaxAuthFails + 1] <= Window)
        BY <1>3, <1>5, <2>6, <3>1, <4>1
      <4>3. g[i - MaxAuthFails + 1] \in Nat /\ g[i] = now
        BY <2>2, <3>1, <3>2
      <4> HIDE <1>0
      <4> QED BY <1>0, <1>2, <4>2, <4>3
    <3>3. CASE i # Len(g)
      <4>1. i \in MaxAuthFails..Len(history[s]) /\ i \in 1..Len(history[s])
            /\ i - MaxAuthFails + 1 \in 1..Len(history[s])
        BY <2>2, <3>3
      <4>2. history[s][i] - history[s][i - MaxAuthFails + 1] > Window
        BY <1>1, <4>1 DEF GuessesAreLimited
      <4> QED BY <2>3, <4>1, <4>2
    <3> QED BY <3>2, <3>3
  <2>9. GuessesAreLimited'
    BY <1>1, <2>5, <2>8 DEF GuessesAreLimited
  <2>10. BlockFits'
    BY <1>1, <1>2, <2>1 DEF BlockFits
  <2> QED BY <2>4, <2>7, <2>9, <2>10 DEF RateInv
<1> QED BY <1>4, <1>5

(* A step that records no failure keeps the invariant; a block may only    *)
(* end when its time is over (manager.go: IsBlocked).                      *)
LEMMA QuietKept ==
    ASSUME RateInv, UNCHANGED <<failures, history, imposed>>,
           now' \in Nat, now' >= now, pending' \in [Sources -> Nat],
           \/ blocked' = blocked
           \/ \E s \in Sources : ~IsBlocked(s) /\ blocked' = [blocked EXCEPT ![s] = Never]
    PROVE  RateInv'
<1> USE RateAssumption DEF RateAssumption
<1>1. RateTypeOK /\ CountFits /\ GuessesAreLimited /\ BlockFits /\ Never \in Int
  BY DEF RateInv, Never
<1>2. RateTypeOK'
  BY <1>1 DEF RateTypeOK
<1>3. CountFits'
  BY <1>1 DEF RateTypeOK, CountFits
<1>5. GuessesAreLimited'
  BY <1>1 DEF GuessesAreLimited
<1>4. BlockFits'
  BY <1>1 DEF BlockFits, RateTypeOK, IsBlocked
<1> QED BY <1>2, <1>3, <1>4, <1>5 DEF RateInv

(* The limiter's counter, its blocks and the history of failures agree in  *)
(* every state.                                                            *)
THEOREM RateCorrect == RateSpec => []RateInv
<1>1. RateInv /\ [RateNext]_rateVars => RateInv'
  <2> SUFFICES ASSUME RateInv, [RateNext]_rateVars PROVE RateInv'
    OBVIOUS
  <2>1. RateTypeOK
    BY DEF RateInv
  <2>2. ASSUME NEW s \in Sources, Hello(s) PROVE RateInv'
    <3>1. /\ ~IsBlocked(s) /\ blocked' = [blocked EXCEPT ![s] = Never]
          /\ pending' = [pending EXCEPT ![s] = @ + 1]
          /\ UNCHANGED <<now, failures, history, imposed>>
      BY <2>2 DEF Hello
    <3>2. pending' \in [Sources -> Nat] /\ now' \in Nat /\ now' >= now
      BY <2>1, <3>1 DEF RateTypeOK
    <3> QED BY <3>1, <3>2, QuietKept
  <2>3. ASSUME NEW s \in Sources, RecordFailure(s) PROVE RateInv'
    BY <2>3, CountKept
  <2>4. ASSUME NEW s \in Sources, Succeeds(s) PROVE RateInv'
    BY <2>1, <2>4, QuietKept DEF Succeeds, RateTypeOK
  <2>5. CASE RateTick
    BY <2>1, <2>5, QuietKept DEF RateTick, RateTypeOK
  <2>6. CASE UNCHANGED rateVars
    BY <2>1, <2>6, QuietKept DEF rateVars, RateTypeOK
  <2> QED BY <2>2, <2>3, <2>4, <2>5, <2>6 DEF RateNext
<1> QED BY <1>1, RateStarts, PTL DEF RateSpec

(* GuessesAreLimited: a source never has MaxAuthFails failures within one   *)
(* window unblocked, whatever handshakes and blocks came before or run     *)
(* beside it (manager.go: RecordFailure).                                  *)
THEOREM GuessersAreBlocked == RateSpec => []GuessesAreLimited
<1>1. RateInv => GuessesAreLimited
  BY DEF RateInv
<1> QED BY <1>1, RateCorrect, PTL

(* BlockLasts: no handshake of a source begins within BlockTimeout of its  *)
(* last block.                                                             *)
THEOREM BlockHolds == RateSpec => BlockLasts
<1>1. RateInv /\ [RateNext]_rateVars
        => [\A s \in Sources : pending'[s] > pending[s] => now >= imposed[s] + BlockTimeout]_rateVars
  <2> SUFFICES ASSUME RateInv, RateNext, NEW s \in Sources, pending'[s] > pending[s]
               PROVE  now >= imposed[s] + BlockTimeout
    OBVIOUS
  <2>1. pending \in [Sources -> Nat] /\ RateTypeOK /\ BlockFits
    BY DEF RateInv, RateTypeOK
  <2>2. Hello(s)
    BY <2>1 DEF RateNext, Hello, RecordFailure, Succeeds, RateTick
  <2> QED BY <2>1, <2>2, RateAssumption DEF RateAssumption, RateTypeOK, Hello, IsBlocked, BlockFits
<1> QED BY <1>1, RateCorrect, PTL DEF RateSpec, BlockLasts

(* The limiter begins as the manager's does.                               *)
LEMMA ClocklessStarts == RateInit => Clockless!ManagerInit
<1> USE RateAssumption DEF RateAssumption
<1> SUFFICES ASSUME RateInit PROVE Clockless!ManagerInit
  OBVIOUS
<1>1. Never \in Int /\ Never < 0
  BY DEF Never
<1>2. Unexpired = [s \in Sources |-> 0]
  BY DEF RateInit, Unexpired
<1>3. {s \in Sources : IsBlocked(s)} = {}
  BY <1>1 DEF RateInit, IsBlocked
<1>4. Clockless!IPs = {}
  BY DEF Clockless!IPs
<1> QED BY <1>2, <1>3, <1>4 DEF Clockless!ManagerInit, Clockless!ZeroIP, Clockless!IPs

(* A failure that is recorded is one of the manager's, which does not know *)
(* how old the record was (manager.go: RecordFailure).                     *)
LEMMA FailureIsManagers ==
    ASSUME RateInv, NEW s \in Sources, RecordFailure(s)
    PROVE  Clockless!RecordFailure(s)
<1> USE RateAssumption DEF RateAssumption
<1>1. RateTypeOK /\ now' = now
  BY DEF RateInv, RecordFailure
<1>2. Count(s) = Unexpired[s] + 1
  BY <1>1 DEF Count, Unexpired, RateTypeOK
<1>3. Never \in Int /\ now \in Nat
  BY <1>1 DEF Never, RateTypeOK
<1> DEFINE B == {r \in Sources : IsBlocked(r)}
<1>4. CASE Count(s) >= MaxAuthFails
  <2>1. /\ blocked' = [blocked EXCEPT ![s] = now + BlockTimeout]
        /\ failures' = [failures EXCEPT ![s] = [count |-> 0, lastAt |-> Never]]
    BY <1>4 DEF RecordFailure
  <2>2. ASSUME NEW r \in Sources PROVE IsBlocked(r)' <=> r = s \/ IsBlocked(r)
    <3>1. blocked'[r] = IF r = s THEN now + BlockTimeout ELSE blocked[r]
      BY <1>1, <2>1 DEF RateTypeOK
    <3>2. now < now + BlockTimeout
      BY <1>3
    <3> QED BY <1>1, <3>1, <3>2 DEF IsBlocked
  <2>3. B' = B \cup {s}
    BY <2>2
  <2>4. \A r \in Sources : failures'[r] = IF r = s THEN [count |-> 0, lastAt |-> Never] ELSE failures[r]
    BY <1>1, <2>1 DEF RateTypeOK
  <2>5. Unexpired' = [Unexpired EXCEPT ![s] = 0]
    <3>1. Unexpired' = [r \in Sources |-> IF now - failures'[r].lastAt > Window THEN 0 ELSE failures'[r].count]
      BY <1>1 DEF Unexpired
    <3>2. \A r \in Sources : (IF now - failures'[r].lastAt > Window THEN 0 ELSE failures'[r].count)
                                 = IF r = s THEN 0 ELSE Unexpired[r]
      BY <2>4 DEF Unexpired
    <3>3. Unexpired' = [r \in Sources |-> IF r = s THEN 0 ELSE Unexpired[r]]
      BY <3>1, <3>2
    <3> QED BY <3>3 DEF Unexpired
  <2> QED BY <1>2, <1>4, <2>3, <2>5 DEF Clockless!RecordFailure, Clockless!tableVars, Clockless!poolVars
<1>5. CASE ~(Count(s) >= MaxAuthFails)
  <2>1. /\ failures' = [failures EXCEPT ![s] = [count |-> Count(s), lastAt |-> now]]
        /\ blocked' = blocked
    BY <1>5 DEF RecordFailure
  <2>2. B' = B
    BY <1>1, <2>1 DEF IsBlocked
  <2>3. \A r \in Sources : failures'[r] = IF r = s THEN [count |-> Count(s), lastAt |-> now] ELSE failures[r]
    BY <1>1, <2>1 DEF RateTypeOK
  <2>4. Unexpired' = [Unexpired EXCEPT ![s] = @ + 1]
    <3>1. Unexpired' = [r \in Sources |-> IF now - failures'[r].lastAt > Window THEN 0 ELSE failures'[r].count]
      BY <1>1 DEF Unexpired
    <3>2. \A r \in Sources : (IF now - failures'[r].lastAt > Window THEN 0 ELSE failures'[r].count)
                                 = IF r = s THEN Unexpired[s] + 1 ELSE Unexpired[r]
      <4>1. ~(now - now > Window)
        BY <1>3
      <4> QED BY <1>2, <2>3, <4>1 DEF Unexpired
    <3>3. Unexpired' = [r \in Sources |-> IF r = s THEN Unexpired[s] + 1 ELSE Unexpired[r]]
      BY <3>1, <3>2
    <3> QED BY <3>3 DEF Unexpired
  <2> QED BY <1>2, <1>5, <2>2, <2>4 DEF Clockless!RecordFailure, Clockless!tableVars, Clockless!poolVars
<1> QED BY <1>4, <1>5

(* When time passes, some blocks are over and some counts are too old.     *)
LEMMA TickIsManagers ==
    ASSUME RateInv, RateTick
    PROVE  Clockless!TimePassed
<1>1. RateTypeOK /\ now' = now + 1 /\ failures' = failures /\ blocked' = blocked
  BY DEF RateInv, RateTick
<1> DEFINE B == {s \in Sources : IsBlocked(s)}
           F == {s \in Sources : Unexpired'[s] # Unexpired[s]}
<1>2. \A s \in Sources : IsBlocked(s)' => IsBlocked(s)
  BY <1>1 DEF IsBlocked, RateTypeOK
<1>3. B' = B \ (B \ B')
  BY <1>2
<1>4. ASSUME NEW s \in Sources PROVE Unexpired'[s] \in {0, Unexpired[s]}
  BY <1>1, RateAssumption DEF RateAssumption, Unexpired, RateTypeOK
<1>5. Unexpired' = [s \in Sources |-> IF s \in F THEN 0 ELSE Unexpired[s]]
  <2>1. Unexpired' = [s \in Sources |-> Unexpired'[s]]
    BY DEF Unexpired
  <2>2. \A s \in Sources : Unexpired'[s] = IF s \in F THEN 0 ELSE Unexpired[s]
    BY <1>4
  <2> HIDE DEF F
  <2>3. [s \in Sources |-> Unexpired'[s]] = [s \in Sources |-> IF s \in F THEN 0 ELSE Unexpired[s]]
    BY <2>2
  <2> QED BY <2>1, <2>3, Zenon
<1>6. Clockless!BlocksExpire(B \ B')
  BY <1>3 DEF Clockless!BlocksExpire
<1>7. Clockless!CountsExpire(F)
  BY <1>5 DEF Clockless!CountsExpire
<1> QED BY <1>6, <1>7 DEF Clockless!TimePassed, Clockless!tableVars, Clockless!poolVars

(* Neither a handshake that begins nor one that succeeds is anything to    *)
(* the limiter: the entry that a HELLO deletes was over.                   *)
LEMMA HandshakesAreSilent ==
    ASSUME RateInv, NEW s \in Sources, Hello(s) \/ Succeeds(s)
    PROVE  UNCHANGED Clockless!managerVars
<1> USE RateAssumption DEF RateAssumption
<1>1. RateTypeOK /\ now' = now /\ failures' = failures /\ Never \in Int /\ Never < 0
  BY DEF RateInv, Hello, Succeeds, Never
<1>2. \A r \in Sources : IsBlocked(r)' <=> IsBlocked(r)
  <2>1. CASE Hello(s)
    <3>1. ~IsBlocked(s) /\ blocked' = [blocked EXCEPT ![s] = Never]
      BY <2>1 DEF Hello
    <3>2. ASSUME NEW r \in Sources PROVE IsBlocked(r)' <=> IsBlocked(r)
      <4>1. blocked'[r] = IF r = s THEN Never ELSE blocked[r]
        BY <1>1, <3>1 DEF RateTypeOK
      <4>2. ~(now < Never)
        BY <1>1 DEF RateTypeOK
      <4> QED BY <1>1, <3>1, <4>1, <4>2 DEF IsBlocked
    <3> QED BY <3>2
  <2>2. CASE Succeeds(s)
    BY <1>1, <2>2 DEF Succeeds, IsBlocked
  <2> QED BY <2>1, <2>2
<1>3. {r \in Sources : IsBlocked(r)}' = {r \in Sources : IsBlocked(r)}
  BY <1>2
<1>4. Unexpired' = Unexpired
  BY <1>1 DEF Unexpired
<1> QED BY <1>3, <1>4 DEF Clockless!managerVars, Clockless!tableVars, Clockless!poolVars, Clockless!limitVars

(* ImplementsLimiter: whatever the clocks do to counters and blocks, it is *)
(* what the manager of the server's model may do without them.             *)
THEOREM LimiterRefined == RateSpec => ImplementsLimiter
<1>1. RateInv /\ [RateNext]_rateVars => [Clockless!ManagerNext]_(Clockless!managerVars)
  <2> SUFFICES ASSUME RateInv, [RateNext]_rateVars
               PROVE  [Clockless!ManagerNext]_(Clockless!managerVars)
    OBVIOUS
  <2>1. ASSUME NEW s \in Sources, Hello(s) \/ Succeeds(s) PROVE UNCHANGED Clockless!managerVars
    BY <2>1, HandshakesAreSilent
  <2>2. ASSUME NEW s \in Sources, RecordFailure(s) PROVE Clockless!ManagerNext
    BY <2>2, FailureIsManagers DEF Clockless!ManagerNext
  <2>3. CASE RateTick
    BY <2>3, TickIsManagers DEF Clockless!ManagerNext
  <2>4. CASE UNCHANGED rateVars
    BY <2>4 DEF rateVars, Unexpired, IsBlocked, Clockless!managerVars, Clockless!tableVars,
                Clockless!poolVars, Clockless!limitVars
  <2> QED BY <2>1, <2>2, <2>3, <2>4 DEF RateNext
<1> QED BY <1>1, ClocklessStarts, RateCorrect, PTL DEF RateSpec, ImplementsLimiter, Clockless!ManagerSpec
=============================================================================
