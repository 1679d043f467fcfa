------------------------- MODULE ClientManagerProofs -------------------------
(***************************************************************************)
(* For every number of callers and addresses and every size of the pool:   *)
(* no virtual IP has two holders and no index entry dangles, whatever the  *)
(* order of handshakes, removals and sweeps that act on a stale list.      *)
(***************************************************************************)
EXTENDS ClientManager, TLAPS

(* A session was added once, by a caller that had been promised an         *)
(* address, with that address or with 0.0.0.0.                             *)
TableSound == \A c \in Callers : /\ c \in sessions => Added(c)
                                 /\ Added(c) => assigned[c] # ZeroIP
                                 /\ object[c].vip \in {assigned[c], ZeroIP}

ManagerInv == ManagerTypeOK /\ UniqueIPs /\ IndexesLive /\ TableSound

(* 0.0.0.0 is not an address of the pool.                                  *)
LEMMA ZeroIsNoAddress == ZeroIP \notin IPs
BY ManagerAssumption DEF ManagerAssumption, ZeroIP, IPs

(* The manager starts within its invariant (manager.go: New).              *)
LEMMA InitKeeps == ManagerInit => ManagerInv
<1> SUFFICES ASSUME ManagerInit PROVE ManagerInv
  OBVIOUS
<1> USE ManagerAssumption DEF ManagerAssumption, ManagerInit
<1>1. ManagerTypeOK
  BY DEF ManagerTypeOK, NoSession, Session
<1>2. \A c \in Callers : ~Added(c) /\ ~Pending(c)
  BY DEF Added, Pending, NoSession
<1>3. UniqueIPs
  BY <1>2 DEF UniqueIPs, Holders
<1>4. IndexesLive
  BY DEF IndexesLive
<1>5. TableSound
  BY <1>2 DEF TableSound, NoSession
<1>6. QED
  BY <1>1, <1>3, <1>4, <1>5 DEF ManagerInv

(* The address was free, so no holder has it, and the caller, which had    *)
(* none, had no session.                                                   *)
LEMMA AssignIPKeeps ==
    ASSUME ManagerInv, NEW c \in Callers, assigned[c] = ZeroIP, AssignIP(c)
    PROVE  ManagerInv'
<1> USE ManagerAssumption DEF ManagerAssumption
<1>1. PICK ip \in IPs : /\ ip \notin allocated
                        /\ allocated' = allocated \cup {ip}
                        /\ assigned' = [assigned EXCEPT ![c] = ip]
                        /\ UNCHANGED <<tableVars, limitVars>>
  BY DEF AssignIP, FirstFree
<1> USE DEF ManagerInv
<1>2. UNCHANGED <<sessions, byIP, byAddr, object, stale, failures, blocked>>
  BY <1>1 DEF tableVars, limitVars
<1>3. ManagerTypeOK'
  BY <1>1, <1>2 DEF ManagerTypeOK
<1>4. /\ assigned'[c] = ip
      /\ \A d \in Callers \ {c} : assigned'[d] = assigned[d]
  BY <1>1 DEF ManagerTypeOK
<1>5. \A d \in Callers : Added(d)' <=> Added(d)
  BY <1>2 DEF Added
<1>6. TableSound'
  BY <1>2, <1>4, <1>5, ZeroIsNoAddress DEF TableSound
<1>7. \A d \in Callers \ {c} : d \in Holders' => d \in Holders
  BY <1>2, <1>4, <1>5 DEF Holders, Pending
<1>8. UniqueIPs'
  BY <1>1, <1>4, <1>7 DEF UniqueIPs, Holders
<1>9. IndexesLive'
  BY <1>2 DEF IndexesLive
<1>10. QED
  BY <1>3, <1>6, <1>8, <1>9

(* A caller adds once, so the object it fills was in no index.             *)
LEMMA AddKeeps ==
    ASSUME ManagerInv, NEW c \in Callers, Pending(c),
           NEW a \in Addrs, NEW vip \in {assigned[c], ZeroIP}, Add(c, a, vip)
    PROVE  ManagerInv'
<1> USE ManagerAssumption DEF ManagerAssumption, ManagerInv
<1>1. /\ object' = [object EXCEPT ![c] = [vip |-> vip, addr |-> a, silent |-> FALSE]]
      /\ sessions' = sessions \cup {c}
      /\ byIP' = [byIP EXCEPT ![vip] = c]
      /\ byAddr' = [byAddr EXCEPT ![a] = c]
      /\ UNCHANGED <<stale, allocated, assigned, failures, blocked>>
  BY DEF Add, poolVars, limitVars
<1>2. vip \in IPs \cup {ZeroIP}
  BY DEF ManagerTypeOK
<1>3. ManagerTypeOK'
  BY <1>1, <1>2 DEF ManagerTypeOK, Session
<1>4. /\ object'[c].vip = vip /\ object'[c].addr = a
      /\ \A d \in Callers \ {c} : object'[d] = object[d]
  BY <1>1 DEF ManagerTypeOK
<1>5. Added(c)' /\ ~Added(c) /\ \A d \in Callers \ {c} : Added(d)' <=> Added(d)
  BY <1>4 DEF Added, Pending
<1>6. TableSound'
  BY <1>1, <1>4, <1>5 DEF TableSound, Pending
<1>7. \A d \in Callers : d \in Holders' => d \in Holders
  BY <1>1, <1>5 DEF Holders, Pending
<1>8. UniqueIPs'
  BY <1>1, <1>7 DEF UniqueIPs, Holders
<1>9. c \notin sessions
  BY <1>5 DEF TableSound
<1>10. IndexesLive'
  <2>1. ASSUME NEW b \in Addrs, byAddr'[b] # NoOne
        PROVE  byAddr'[b] \in sessions' /\ object'[byAddr'[b]].addr = b
    <3>1. CASE b = a
      BY <1>1, <1>4, <3>1 DEF ManagerTypeOK
    <3>2. CASE b # a
      BY <1>1, <1>4, <1>9, <2>1, <3>2 DEF ManagerTypeOK, IndexesLive
    <3>3. QED
      BY <3>1, <3>2
  <2>2. ASSUME NEW ip \in IPs \cup {ZeroIP}, byIP'[ip] # NoOne
        PROVE  byIP'[ip] \in sessions' /\ object'[byIP'[ip]].vip = ip
    <3>1. CASE ip = vip
      BY <1>1, <1>4, <3>1 DEF ManagerTypeOK
    <3>2. CASE ip # vip
      BY <1>1, <1>4, <1>9, <2>2, <3>2 DEF ManagerTypeOK, IndexesLive
    <3>3. QED
      BY <3>1, <3>2
  <2>3. QED
    BY <2>1, <2>2 DEF IndexesLive
<1>11. QED
  BY <1>3, <1>6, <1>8, <1>10

(* Remove gives back the address of the session, which no other holder     *)
(* has, and clears the entries under its keys, which are all that can      *)
(* point to it.                                                            *)
LEMMA EvictKeeps ==
    ASSUME ManagerInv, NEW c \in Callers, Evict(c), stale' \in SUBSET Callers,
           UNCHANGED <<object, assigned, failures, blocked>>
    PROVE  ManagerInv'
<1> USE ManagerAssumption DEF ManagerAssumption, ManagerInv
<1>1. \A d \in Callers : Added(d)' <=> Added(d)
  BY DEF Added
<1>2. CASE c \notin sessions
  <2>1. UNCHANGED <<sessions, byIP, byAddr, allocated>>
    BY <1>2 DEF Evict
  <2>2. ManagerTypeOK'
    BY <2>1 DEF ManagerTypeOK
  <2>3. Holders' = Holders
    BY <1>1, <2>1 DEF Holders, Pending
  <2>4. UniqueIPs' /\ IndexesLive' /\ TableSound'
    BY <1>1, <2>1, <2>3 DEF UniqueIPs, IndexesLive, TableSound
  <2>5. QED
    BY <2>2, <2>4
<1>3. CASE c \in sessions
  <2> DEFINE vip  == object[c].vip
             addr == object[c].addr
  <2>1. /\ sessions' = sessions \ {c}
        /\ byIP' = [byIP EXCEPT ![vip] = NoOne]
        /\ byAddr' = [byAddr EXCEPT ![addr] = NoOne]
        /\ allocated' = allocated \ {vip}
    BY <1>3 DEF Evict, Release
  <2>2. /\ vip \in {assigned[c], ZeroIP} /\ vip \in IPs \cup {ZeroIP}
        /\ addr \in Addrs /\ assigned[c] \in IPs
    BY <1>3 DEF ManagerTypeOK, Session, TableSound, Added
  <2>3. ManagerTypeOK'
    BY <2>1, <2>2 DEF ManagerTypeOK
  <2>4. TableSound'
    BY <1>1, <2>1 DEF TableSound
  <2>5. \A d \in Callers : d \in Holders' => d \in Holders /\ d # c
    BY <1>1, <1>3, <2>1 DEF Holders, Pending, TableSound
  <2>6. c \in Holders
    BY <1>3 DEF Holders
  <2>7. \A d \in Callers : d \in Holders' => assigned[d] \in allocated'
    BY <2>1, <2>2, <2>5, <2>6, ZeroIsNoAddress DEF UniqueIPs, ManagerTypeOK
  <2>8. UniqueIPs'
    BY <2>5, <2>7 DEF UniqueIPs, Holders
  <2>9. \A b \in Addrs : byAddr'[b] # NoOne => b # addr /\ byAddr'[b] = byAddr[b]
    BY <2>1, <2>2 DEF ManagerTypeOK
  <2>10. \A ip \in IPs \cup {ZeroIP} : byIP'[ip] # NoOne => ip # vip /\ byIP'[ip] = byIP[ip]
    BY <2>1, <2>2 DEF ManagerTypeOK
  <2>11. IndexesLive'
    BY <2>1, <2>9, <2>10 DEF IndexesLive
  <2>12. QED
    BY <2>3, <2>4, <2>8, <2>11
<1>4. QED
  BY <1>2, <1>3

(* Whether a session is silent is no concern of the table.                 *)
LEMMA SilenceKeeps ==
    ASSUME ManagerInv, NEW c \in Callers, NEW b \in BOOLEAN,
           object' = [object EXCEPT ![c].silent = b],
           UNCHANGED <<sessions, byIP, byAddr, stale, poolVars, limitVars>>
    PROVE  ManagerInv'
<1> USE DEF ManagerInv
<1>1. \A d \in Callers : object'[d] \in Session /\ object'[d].vip = object[d].vip
                                                /\ object'[d].addr = object[d].addr
  BY DEF ManagerTypeOK, Session
<1>2. ManagerTypeOK'
  BY <1>1 DEF ManagerTypeOK, poolVars, limitVars
<1>3. \A d \in Callers : Added(d)' <=> Added(d)
  BY <1>1 DEF Added
<1>4. Holders' = Holders
  BY <1>3 DEF Holders, Pending, poolVars
<1>5. UniqueIPs' /\ TableSound'
  BY <1>1, <1>3, <1>4 DEF UniqueIPs, TableSound, poolVars, Holders
<1>6. IndexesLive'
  BY <1>1 DEF IndexesLive, ManagerTypeOK
<1>7. QED
  BY <1>2, <1>5, <1>6

(* The rate limiter and the sweep's list leave the table alone.            *)
LEMMA TableUntouched ==
    ASSUME ManagerInv, UNCHANGED <<sessions, byIP, byAddr, object, poolVars>>,
           stale' \in SUBSET Callers, blocked' \in SUBSET Hosts,
           failures' \in [Hosts -> 0..(MaxAuthFails - 1)]
    PROVE  ManagerInv'
<1> USE DEF ManagerInv
<1>1. ManagerTypeOK'
  BY DEF ManagerTypeOK, poolVars
<1>2. \A d \in Callers : Added(d)' <=> Added(d)
  BY DEF Added
<1>3. Holders' = Holders
  BY <1>2 DEF Holders, Pending, poolVars
<1>4. UniqueIPs' /\ IndexesLive' /\ TableSound'
  BY <1>2, <1>3 DEF UniqueIPs, IndexesLive, TableSound, poolVars
<1>5. QED
  BY <1>1, <1>4

(* RecordFailure keeps its types and touches neither table nor pool        *)
(* (manager.go: RecordFailure).                                            *)
LEMMA RecordFailureTypes ==
    ASSUME ManagerInv, NEW h \in Hosts, RecordFailure(h)
    PROVE  /\ blocked' \in SUBSET Hosts
           /\ failures' \in [Hosts -> 0..(MaxAuthFails - 1)]
           /\ UNCHANGED <<sessions, byIP, byAddr, object, stale, poolVars>>
<1> USE ManagerAssumption DEF ManagerAssumption, ManagerInv, ManagerTypeOK, RecordFailure, tableVars
<1>1. CASE failures[h] + 1 >= MaxAuthFails
  BY <1>1
<1>2. CASE ~ (failures[h] + 1 >= MaxAuthFails)
  BY <1>2
<1>3. QED
  BY <1>1, <1>2

(* Every operation of the manager keeps its invariant.                     *)
LEMMA ManagerStep == ManagerInv /\ [ManagerNext]_managerVars => ManagerInv'
<1> SUFFICES ASSUME ManagerInv, [ManagerNext]_managerVars PROVE ManagerInv'
  OBVIOUS
<1>0. ManagerTypeOK
  BY DEF ManagerInv
<1>1. CASE UNCHANGED managerVars
  BY <1>0, <1>1, TableUntouched DEF managerVars, tableVars, poolVars, limitVars, ManagerTypeOK
<1>2. ASSUME NEW c \in Callers, assigned[c] = ZeroIP, AssignIP(c) PROVE ManagerInv'
  BY <1>2, AssignIPKeeps
<1>3. ASSUME NEW c \in Callers, Pending(c), NEW a \in Addrs,
             NEW vip \in {assigned[c], ZeroIP}, Add(c, a, vip)
      PROVE  ManagerInv'
  BY <1>3, AddKeeps
<1>4. ASSUME NEW c \in Callers, Remove(c) PROVE ManagerInv'
  BY <1>0, <1>4, EvictKeeps DEF Remove, limitVars, ManagerTypeOK
<1>5. ASSUME NEW c \in Callers, Touch(c) PROVE ManagerInv'
  BY <1>5, SilenceKeeps DEF Touch
<1>6. ASSUME NEW c \in Callers, FallsSilent(c) PROVE ManagerInv'
  BY <1>6, SilenceKeeps DEF FallsSilent
<1>7. ASSUME NEW c \in Callers, SweepRemove(c) PROVE ManagerInv'
  BY <1>0, <1>7, EvictKeeps DEF SweepRemove, limitVars, ManagerTypeOK
<1>8. CASE SweepScan
  BY <1>0, <1>8, TableUntouched DEF SweepScan, Silent, limitVars, ManagerTypeOK
<1>9. ASSUME NEW h \in Hosts, RecordFailure(h) PROVE ManagerInv'
  BY <1>0, <1>9, RecordFailureTypes, TableUntouched DEF ManagerTypeOK
<1>10. CASE TimePassed
  <2>1. PICK F \in SUBSET Hosts : failures' = [h \in Hosts |-> IF h \in F THEN 0 ELSE failures[h]]
    BY <1>10 DEF TimePassed, CountsExpire
  <2>2. failures' \in [Hosts -> 0..(MaxAuthFails - 1)]
    BY <1>0, <2>1, ManagerAssumption DEF ManagerAssumption, ManagerTypeOK
  <2>3. blocked' \in SUBSET Hosts
    BY <1>0, <1>10 DEF TimePassed, BlocksExpire, ManagerTypeOK
  <2>4. QED
    BY <1>0, <1>10, <2>2, <2>3, TableUntouched DEF TimePassed, tableVars, ManagerTypeOK
<1>11. QED
  BY <1>1, <1>2, <1>3, <1>4, <1>5, <1>6, <1>7, <1>8, <1>9, <1>10 DEF ManagerNext

(* The manager by itself, used as its tests use it or as the server does:  *)
(* types, unique addresses, live indexes and sessions added only once.     *)
THEOREM ManagerCorrect == ManagerSpec => []ManagerInv
BY InitKeeps, ManagerStep, PTL DEF ManagerSpec
=============================================================================
