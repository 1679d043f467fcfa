---------------------------- MODULE ClientManager ----------------------------
(***************************************************************************)
(* server/client_manager: the session table with its three indexes, the    *)
(* pool of virtual IPs, the idle sweep and the authentication rate limit.  *)
(*                                                                         *)
(* A caller is a handshake goroutine of the server: it calls AssignIP once *)
(* and, if the handshake succeeds, Add once.  The random 32-bit session id *)
(* that AssignIP draws is represented by the caller that drew it, which    *)
(* takes ids of distinct handshakes to be distinct, as the code does.      *)
(***************************************************************************)
EXTENDS Integers, FiniteSets

CONSTANTS Callers,       \* handshake goroutines
          Addrs,         \* UDP addresses of peers
          Hosts,         \* source IPs, the keys of the rate limiter
          PoolSize,      \* host addresses in the subnet, without the server's
          MaxAuthFails,  \* Manager.MaxAuthFails
          NoOne          \* a map key that is absent

ASSUME ManagerAssumption == /\ PoolSize \in Nat
                            /\ MaxAuthFails \in Nat \ {0}
                            /\ NoOne \notin Callers \cup Addrs

VARIABLES sessions,   \* Manager.sessions: the callers whose session is live
          byIP,       \* Manager.byIP
          byAddr,     \* Manager.byAddr
          object,     \* the Session object each caller has added
          allocated,  \* IPPool.allocated
          assigned,   \* what AssignIP returned to each caller
          stale,      \* sweepIdle's list, built under the lock, used after it
          failures,   \* Manager.failures: the count per source IP
          blocked     \* Manager.blocked

tableVars   == <<sessions, byIP, byAddr, object, stale>>
poolVars    == <<allocated, assigned>>
limitVars   == <<failures, blocked>>
managerVars == <<tableVars, poolVars, limitVars>>

IPs    == 1..PoolSize
ZeroIP == 0                        \* net.IP{0, 0, 0, 0}: in no pool

NoSession == [vip |-> ZeroIP, addr |-> NoOne, silent |-> FALSE]
Session   == [vip : IPs \cup {ZeroIP}, addr : Addrs \cup {NoOne}, silent : BOOLEAN]

ManagerTypeOK == /\ sessions \in SUBSET Callers
                 /\ byIP \in [IPs \cup {ZeroIP} -> Callers \cup {NoOne}]
                 /\ byAddr \in [Addrs -> Callers \cup {NoOne}]
                 /\ object \in [Callers -> Session]
                 /\ allocated \in SUBSET IPs
                 /\ assigned \in [Callers -> IPs \cup {ZeroIP}]
                 /\ stale \in SUBSET Callers
                 /\ failures \in [Hosts -> 0..(MaxAuthFails - 1)]
                 /\ blocked \in SUBSET Hosts

Added(c)   == object[c].addr # NoOne
Pending(c) == assigned[c] # ZeroIP /\ ~Added(c)

ManagerInit == /\ sessions = {}
               /\ byIP = [ip \in IPs \cup {ZeroIP} |-> NoOne]
               /\ byAddr = [a \in Addrs |-> NoOne]
               /\ object = [c \in Callers |-> NoSession]
               /\ allocated = {}
               /\ assigned = [c \in Callers |-> ZeroIP]
               /\ stale = {}
               /\ failures = [h \in Hosts |-> 0]
               /\ blocked = {}
-----------------------------------------------------------------------------
(* A mutant: an address is not marked as allocated.                        *)
AssignIPUnmarked(c) == \E ip \in IPs : /\ ip \notin allocated
                                       /\ assigned' = [assigned EXCEPT ![c] = ip]
                                       /\ UNCHANGED <<allocated, tableVars, limitVars>>

(* IPPool.Allocate hands out the first free address of the subnet.         *)
FirstFree(ip) == ip \in IPs \ allocated /\ \A j \in IPs \ allocated : ip <= j

AssignIP(c) == \E ip \in IPs : /\ FirstFree(ip)
                               /\ allocated' = allocated \cup {ip}
                               /\ assigned' = [assigned EXCEPT ![c] = ip]
                               /\ UNCHANGED <<tableVars, limitVars>>

PoolExhausted == IPs \subseteq allocated

GetByAddr(addr)    == byAddr[addr]
GetByVirtualIP(ip) == byIP[ip]

Add(c, addr, vip) ==
    /\ object' = [object EXCEPT ![c] = [vip |-> vip, addr |-> addr, silent |-> FALSE]]
    /\ sessions' = sessions \cup {c}
    /\ byIP' = [byIP EXCEPT ![vip] = c]
    /\ byAddr' = [byAddr EXCEPT ![addr] = c]
    /\ UNCHANGED <<stale, poolVars, limitVars>>

Release(ip) == allocated' = allocated \ {ip}

(* A mutant of Evict: without the deletion from byAddr.                    *)
EvictKeepsAddr(c) == /\ sessions' = sessions \ {c}
                     /\ byIP' = [byIP EXCEPT ![object[c].vip] = NoOne]
                     /\ Release(object[c].vip)
                     /\ UNCHANGED byAddr

(* The map entries are deleted by key, whoever they point to by now.       *)
Evict(c) == IF c \in sessions
            THEN /\ sessions' = sessions \ {c}
                 /\ byIP' = [byIP EXCEPT ![object[c].vip] = NoOne]
                 /\ byAddr' = [byAddr EXCEPT ![object[c].addr] = NoOne]
                 /\ Release(object[c].vip)
            ELSE UNCHANGED <<sessions, byIP, byAddr, allocated>>

Remove(c) == /\ Evict(c)
             /\ UNCHANGED <<object, stale, assigned, limitVars>>

Touch(c) == /\ object' = [object EXCEPT ![c].silent = FALSE]
            /\ UNCHANGED <<sessions, byIP, byAddr, stale, poolVars, limitVars>>

(* IdleTimeout has passed since the session's LastSeen.                    *)
FallsSilent(c) == /\ c \in sessions
                  /\ ~object[c].silent
                  /\ object' = [object EXCEPT ![c].silent = TRUE]
                  /\ UNCHANGED <<sessions, byIP, byAddr, stale, poolVars, limitVars>>

Silent == {c \in sessions : object[c].silent}

(* sweepIdle lists the silent sessions under the read lock ...             *)
SweepScan == /\ stale = {}
             /\ Silent # {}
             /\ stale' = Silent
             /\ UNCHANGED <<sessions, byIP, byAddr, object, poolVars, limitVars>>

(* A mutant: the listed session is skipped instead of removed.             *)
SweepSkips(c) == /\ c \in stale
                 /\ stale' = stale \ {c}
                 /\ UNCHANGED <<sessions, byIP, byAddr, object, poolVars, limitVars>>

(* ... and then calls Remove for each without looking again.               *)
SweepRemove(c) == /\ c \in stale
                  /\ stale' = stale \ {c}
                  /\ Evict(c)
                  /\ UNCHANGED <<object, assigned, limitVars>>
-----------------------------------------------------------------------------
RecordFailure(h) ==
    /\ IF failures[h] + 1 >= MaxAuthFails
       THEN /\ blocked' = blocked \cup {h}
            /\ failures' = [failures EXCEPT ![h] = 0]
       ELSE /\ failures' = [failures EXCEPT ![h] = @ + 1]
            /\ UNCHANGED blocked
    /\ UNCHANGED <<tableVars, poolVars>>

IsBlocked(h) == h \in blocked

(* Time ends blocks and makes counts old, several at once; the code        *)
(* notices it when it next reads them, the model when it happens.          *)
BlocksExpire(B) == blocked' = blocked \ B
CountsExpire(F) == failures' = [h \in Hosts |-> IF h \in F THEN 0 ELSE failures[h]]

TimePassed == /\ \E B \in SUBSET blocked : BlocksExpire(B)
              /\ \E F \in SUBSET Hosts : CountsExpire(F)
              /\ UNCHANGED <<tableVars, poolVars>>
-----------------------------------------------------------------------------
(* The manager by itself: what its callers may do.  The tests add sessions *)
(* with the address that AssignIP returned, the server with 0.0.0.0.       *)
ManagerNext ==
    \/ \E c \in Callers :
          \/ assigned[c] = ZeroIP /\ AssignIP(c)
          \/ /\ Pending(c)
             /\ \E a \in Addrs, vip \in {assigned[c], ZeroIP} : Add(c, a, vip)
          \/ c \in sessions /\ Remove(c)
          \/ Added(c) /\ Touch(c)
          \/ FallsSilent(c)
          \/ SweepRemove(c)
    \/ SweepScan
    \/ \E h \in Hosts : RecordFailure(h)
    \/ TimePassed

ManagerSpec == ManagerInit /\ [][ManagerNext]_managerVars
-----------------------------------------------------------------------------
Holders == {c \in Callers : Pending(c) \/ c \in sessions}

(* No two peers that have been promised a virtual IP share it: an address  *)
(* stays out of the pool from AssignIP until its session is removed.       *)
UniqueIPs == /\ \A c \in Holders : assigned[c] \in allocated
             /\ \A c, d \in Holders : assigned[c] = assigned[d] => c = d

(* GetByAddr and GetByVirtualIP never return a session that Remove has     *)
(* taken out of the table, although Remove deletes the entries by key.     *)
IndexesLive ==
    /\ \A a \in Addrs : byAddr[a] # NoOne
           => byAddr[a] \in sessions /\ object[byAddr[a]].addr = a
    /\ \A ip \in IPs \cup {ZeroIP} : byIP[ip] # NoOne
           => byIP[ip] \in sessions /\ object[byIP[ip]].vip = ip
=============================================================================
