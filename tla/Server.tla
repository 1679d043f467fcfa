------------------------------- MODULE Server -------------------------------
(***************************************************************************)
(* The server's packet dispatch (server/main.go), the handshake goroutines *)
(* it starts (core/handshake) and the clients they talk to, over UDP.      *)
(*                                                                         *)
(* dispatchLoop and every waiting ServerHandshake receive from the same    *)
(* channel conn.Recv(): whoever takes a packet keeps it or drops it.       *)
(* The channel and the network behind it are one set, since UDP reorders.  *)
(* A client's connection attempt dials from a fresh port, so an address    *)
(* stands for one attempt, with its own key pair.  A handshake goroutine   *)
(* is one of Callers and stands for its challenge; the session key is      *)
(* determined by the two together.                                         *)
(***************************************************************************)
EXTENDS ClientManager

CONSTANTS HostOf,       \* source IP of each address
          Traffic,      \* what a connected client sends: DATA, KEEPALIVE
          Lossy,        \* the network may lose packets
          MaxDups       \* bound: packets the network delivers twice

ASSUME ServerAssumption == /\ HostOf \in [Addrs -> Hosts]
                           /\ Traffic \in SUBSET {"DATA", "KEEPALIVE"}
                           /\ Lossy \in BOOLEAN
                           /\ MaxDups \in Nat

VARIABLES toServer,     \* packets on their way to, or in, the server's Recv()
          toClient,     \* packets on their way to the clients
          hs,           \* handshake goroutines of the server
          cli,          \* connection attempts of the clients
          issued,       \* the addresses whose client holds an issued token
          revoked,      \* those whose token has been revoked
          dups          \* packets duplicated so far

tokens     == <<issued, revoked>>
serverVars == <<toServer, toClient, hs, cli, tokens, dups>>
vars       == <<managerVars, serverVars>>

Packet(type, a)        == [type |-> type, from |-> a, chal |-> NoOne]
AuthPacket(a, c)       == [type |-> "AUTH", from |-> a, chal |-> c]
Reply(type, a, c, ip)  == [type |-> type, to |-> a, chal |-> c, ip |-> ip]

ToServer == [type : {"HELLO", "AUTH", "DATA", "KEEPALIVE", "DISCONNECT"},
             from : Addrs, chal : Callers \cup {NoOne}]
ToClient == [type : {"CHALLENGE", "ACCEPT", "KEEPALIVE"},
             to : Addrs, chal : Callers \cup {NoOne}, ip : IPs \cup {ZeroIP}]

Handshakes == [st : {"unused", "waiting", "accepted", "added", "failed"},
               addr : Addrs \cup {NoOne}]
Attempts   == [st : {"idle", "hello", "auth", "connected", "gone"},
               chal : Callers \cup {NoOne}, ip : IPs \cup {ZeroIP}]

TypeOK == /\ ManagerTypeOK
          /\ toServer \in SUBSET ToServer
          /\ toClient \in SUBSET ToClient
          /\ hs \in [Callers -> Handshakes]
          /\ cli \in [Addrs -> Attempts]
          /\ issued \in SUBSET Addrs
          /\ revoked \in SUBSET issued
          /\ dups \in 0..MaxDups

Init == /\ ManagerInit
        /\ toServer = {}
        /\ toClient = {}
        /\ hs = [c \in Callers |-> [st |-> "unused", addr |-> NoOne]]
        /\ cli = [a \in Addrs |-> [st |-> "idle", chal |-> NoOne, ip |-> ZeroIP]]
        /\ issued \in SUBSET Addrs
        /\ revoked = {}
        /\ dups = 0
-----------------------------------------------------------------------------
(* ClientHandshake and a connected client.  It sends each packet once: the *)
(* handshake retransmits nothing.                                          *)
SendHello(a) ==
    /\ cli[a].st = "idle"
    /\ cli' = [cli EXCEPT ![a].st = "hello"]
    /\ toServer' = toServer \cup {Packet("HELLO", a)}
    /\ UNCHANGED <<managerVars, toClient, hs, tokens, dups>>

(* A mutant: the client answers every CHALLENGE, not only the first.       *)
AnswerEveryChallenge(a, m) ==
    /\ cli[a].st \in {"hello", "auth"}
    /\ m.to = a /\ m.type = "CHALLENGE"
    /\ cli' = [cli EXCEPT ![a].st = "auth", ![a].chal = m.chal]
    /\ toServer' = toServer \cup {AuthPacket(a, m.chal)}
    /\ toClient' = toClient \ {m}
    /\ UNCHANGED <<managerVars, hs, tokens, dups>>

AnswerChallenge(a, m) ==
    /\ cli[a].st = "hello"
    /\ m.to = a /\ m.type = "CHALLENGE"
    /\ cli' = [cli EXCEPT ![a].st = "auth", ![a].chal = m.chal]
    /\ toServer' = toServer \cup {AuthPacket(a, m.chal)}
    /\ toClient' = toClient \ {m}
    /\ UNCHANGED <<managerVars, hs, tokens, dups>>

ReceiveAccept(a, m) ==
    /\ cli[a].st = "auth"
    /\ m.to = a /\ m.type = "ACCEPT"
    /\ cli' = [cli EXCEPT ![a].st = "connected", ![a].ip = m.ip]
    /\ toClient' = toClient \ {m}
    /\ UNCHANGED <<managerVars, toServer, hs, tokens, dups>>

(* waitForTypeClient and the data loop drop every packet they do not want. *)
ClientDrops(a, m) ==
    /\ m.to = a
    /\ ~ (cli[a].st = "hello" /\ m.type = "CHALLENGE")
    /\ ~ (cli[a].st = "auth" /\ m.type = "ACCEPT")
    /\ toClient' = toClient \ {m}
    /\ UNCHANGED <<managerVars, toServer, hs, cli, tokens, dups>>

(* HandshakeTimeout, or the user cancels: the attempt is over.             *)
ClientGivesUp(a) ==
    /\ cli[a].st \in {"hello", "auth"}
    /\ cli' = [cli EXCEPT ![a].st = "gone"]
    /\ UNCHANGED <<managerVars, toServer, toClient, hs, tokens, dups>>

ClientSends(a, type) ==
    /\ cli[a].st = "connected"
    /\ toServer' = toServer \cup {Packet(type, a)}
    /\ UNCHANGED <<managerVars, toClient, hs, cli, tokens, dups>>

ClientDisconnects(a) ==
    /\ cli[a].st = "connected"
    /\ cli' = [cli EXCEPT ![a].st = "gone"]
    /\ toServer' = toServer \cup {Packet("DISCONNECT", a)}
    /\ UNCHANGED <<managerVars, toClient, hs, tokens, dups>>
-----------------------------------------------------------------------------
(* Receiving a packet removes it, unless the network has another copy.     *)
Take(m) == /\ m \in toServer
           /\ \/ /\ toServer' = toServer \ {m}
                 /\ UNCHANGED dups
              \/ /\ dups < MaxDups
                 /\ dups' = dups + 1
                 /\ UNCHANGED toServer

Lose(m) == /\ Lossy
           /\ toServer' = toServer \ {m}
           /\ UNCHANGED <<managerVars, toClient, hs, cli, tokens, dups>>

(* dispatchLoop: a HELLO starts a handshake goroutine, which sends its     *)
(* CHALLENGE and waits, unless the source is blocked.                      *)
DispatchHello(m, c) ==
    /\ m.type = "HELLO"
    /\ Take(m)
    /\ IF IsBlocked(HostOf[m.from])
       THEN UNCHANGED <<hs, toClient>>
       ELSE /\ hs[c].st = "unused"
            /\ hs' = [hs EXCEPT ![c] = [st |-> "waiting", addr |-> m.from]]
            /\ toClient' = toClient \cup {Reply("CHALLENGE", m.from, c, ZeroIP)}
    /\ UNCHANGED <<managerVars, cli, tokens>>

(* Packets of an address without a session are dropped.                    *)
DispatchUnknown(m) ==
    /\ m.type \in {"DATA", "KEEPALIVE", "DISCONNECT"}
    /\ GetByAddr(m.from) = NoOne
    /\ Take(m)
    /\ UNCHANGED <<managerVars, hs, toClient, cli, tokens>>

(* handleInbound has no case for AUTH: dispatchLoop drops it.              *)
DispatchAuth(m) ==
    /\ m.type = "AUTH"
    /\ Take(m)
    /\ UNCHANGED <<managerVars, hs, toClient, cli, tokens>>

DispatchData(m) ==
    /\ m.type = "DATA"
    /\ GetByAddr(m.from) # NoOne
    /\ Take(m)
    /\ Touch(GetByAddr(m.from))
    /\ UNCHANGED <<hs, toClient, cli, tokens>>

DispatchKeepalive(m) ==
    /\ m.type = "KEEPALIVE"
    /\ GetByAddr(m.from) # NoOne
    /\ Take(m)
    /\ Touch(GetByAddr(m.from))
    /\ toClient' = toClient \cup {Reply("KEEPALIVE", m.from, NoOne, ZeroIP)}
    /\ UNCHANGED <<hs, cli, tokens>>

(* A mutant: the session leaves the table but not its indexes.             *)
DisconnectForgetsIndexes(m) ==
    /\ m.type = "DISCONNECT"
    /\ GetByAddr(m.from) # NoOne
    /\ Take(m)
    /\ sessions' = sessions \ {GetByAddr(m.from)}
    /\ UNCHANGED <<byIP, byAddr, object, stale, poolVars, limitVars>>
    /\ UNCHANGED <<hs, toClient, cli, tokens>>

DispatchDisconnect(m) ==
    /\ m.type = "DISCONNECT"
    /\ GetByAddr(m.from) # NoOne
    /\ Take(m)
    /\ Remove(GetByAddr(m.from))
    /\ UNCHANGED <<hs, toClient, cli, tokens>>
-----------------------------------------------------------------------------
(* waitForType drops every packet but an AUTH from the peer's own address. *)
WaiterDrops(c, m) ==
    /\ hs[c].st = "waiting"
    /\ ~ (m.type = "AUTH" /\ m.from = hs[c].addr)
    /\ Take(m)
    /\ UNCHANGED <<managerVars, hs, toClient, cli, tokens>>

(* Mutants: the HMAC is not compared, the Revoked flag of a token record   *)
(* is not looked at.                                                       *)
HMACIgnored(c, m)   == TRUE
RevokedAccepted(a)  == a \in issued

(* The HMAC was computed with this goroutine's challenge and key.          *)
HMACMatches(c, m) == m.chal = c

TokenAccepted(a) == a \in issued \ revoked

Fail(c) == /\ hs' = [hs EXCEPT ![c].st = "failed"]
           /\ RecordFailure(HostOf[hs[c].addr])

ReceiveAuth(c, m) ==
    /\ hs[c].st = "waiting"
    /\ m.type = "AUTH" /\ m.from = hs[c].addr
    /\ Take(m)
    /\ IF HMACMatches(c, m) /\ TokenAccepted(m.from) /\ ~PoolExhausted
       THEN /\ AssignIP(c)
            /\ hs' = [hs EXCEPT ![c].st = "accepted"]
            /\ toClient' = toClient \cup {Reply("ACCEPT", m.from, c, assigned'[c])}
       ELSE /\ Fail(c)
            /\ UNCHANGED toClient
    /\ UNCHANGED <<cli, tokens>>

(* A mutant: the deadline is looked at only when some packet has arrived.  *)
TimeoutOnPacketOnly(c) ==
    /\ hs[c].st = "waiting"
    /\ toServer # {}
    /\ Fail(c)
    /\ UNCHANGED <<toServer, toClient, cli, tokens, dups>>

WaitTimesOut(c) ==
    /\ hs[c].st = "waiting"
    /\ Fail(c)
    /\ UNCHANGED <<toServer, toClient, cli, tokens, dups>>

(* After ServerHandshake has returned, the goroutine adds the session with *)
(* VirtualIP 0.0.0.0.                                                      *)
AddSession(c) ==
    /\ hs[c].st = "accepted"
    /\ hs' = [hs EXCEPT ![c].st = "added"]
    /\ Add(c, hs[c].addr, ZeroIP)
    /\ UNCHANGED <<toServer, toClient, cli, tokens, dups>>

(* DELETE /api/invite marks the token record revoked.                      *)
Revoke(a) ==
    /\ a \in issued \ revoked
    /\ revoked' = revoked \cup {a}
    /\ UNCHANGED <<managerVars, issued, toServer, toClient, hs, cli, dups>>

Background == /\ \/ SweepScan
                 \/ \E c \in Callers : FallsSilent(c) \/ SweepRemove(c)
                 \/ TimePassed
              /\ UNCHANGED serverVars

Client(a) == \/ SendHello(a)
             \/ \E m \in toClient : \/ AnswerChallenge(a, m)
                                    \/ ReceiveAccept(a, m)
                                    \/ ClientDrops(a, m)
             \/ ClientGivesUp(a)
             \/ \E type \in Traffic : ClientSends(a, type)
             \/ ClientDisconnects(a)

Dispatch(m) == \/ \E c \in Callers : DispatchHello(m, c)
               \/ DispatchUnknown(m)
               \/ DispatchAuth(m)
               \/ DispatchData(m)
               \/ DispatchKeepalive(m)
               \/ DispatchDisconnect(m)

Handshake(c) == \/ \E m \in toServer : WaiterDrops(c, m) \/ ReceiveAuth(c, m)
                \/ WaitTimesOut(c)
                \/ AddSession(c)

Next == \/ \E a \in Addrs : Client(a) \/ Revoke(a)
        \/ \E m \in toServer : Dispatch(m) \/ Lose(m)
        \/ \E c \in Callers : Handshake(c)
        \/ Background

Spec == Init /\ [][Next]_vars

(* The Go runtime schedules every runnable goroutine, both handshakes end  *)
(* at their deadline, dispatchLoop works its channel off, and the sweep    *)
(* ticks every 30 s.  Nothing makes a client send, or a packet arrive.     *)
Fairness ==
    /\ \A c \in Callers : /\ WF_vars(WaitTimesOut(c))
                          /\ WF_vars(AddSession(c))
                          /\ WF_vars(FallsSilent(c) /\ UNCHANGED serverVars)
                          /\ WF_vars(SweepRemove(c) /\ UNCHANGED serverVars)
    /\ \A a \in Addrs : WF_vars(ClientGivesUp(a))
    /\ \A m \in ToServer : WF_vars(m \in toServer /\ Dispatch(m))
    /\ WF_vars(SweepScan /\ UNCHANGED serverVars)

FairSpec == Spec /\ Fairness
-----------------------------------------------------------------------------
Accepting == {c \in Callers : hs[c].st = "accepted"}

(* A session's key is the one its client derived: the goroutine that        *)
(* answered is the one whose challenge the client took up, for every order *)
(* of duplicated HELLOs and AUTHs, and the client uses the address that    *)
(* goroutine was assigned.                                                 *)
KeyAgreement ==
    /\ \A c \in sessions \cup Accepting : cli[hs[c].addr].chal = c
    /\ \A a \in Addrs : cli[a].st = "connected" =>
          LET c == cli[a].chal
          IN  /\ hs[c].addr = a
              /\ hs[c].st \in {"accepted", "added"}
              /\ assigned[c] = cli[a].ip

(* The client at an address is not invited, or not any more: its token is  *)
(* not issued or is revoked, it has no session, and no goroutine that has  *)
(* accepted its AUTH is about to add one.                                  *)
Outside(a) == /\ a \notin issued \ revoked
              /\ \A c \in Callers : hs[c].addr = a => hs[c].st # "accepted" /\ c \notin sessions

(* Who is outside stays outside: not by a HELLO or an AUTH from before the *)
(* revocation that comes late or again, not by a handshake that began      *)
(* before it, nor by a sweep's stale list.                                 *)
RevokedStaysOut == [][\A a \in Addrs : Outside(a) => Outside(a)']_vars

(* However often the network repeats a HELLO or an AUTH, an attempt gets   *)
(* at most one session, so it takes at most one address from the pool.     *)
OneSessionPerAttempt ==
    \A c, d \in {e \in Callers : assigned[e] # ZeroIP} :
        hs[c].addr = hs[d].addr => c = d

(* To each attempt its handshakes, however many its HELLO has started and  *)
(* whatever is repeated, are one: the server accepts the one challenge the *)
(* client has taken up, once, and before the client is through.  So it     *)
(* stays when the client has given up meanwhile.                           *)
Agreed(a) == INSTANCE Agreement WITH
                 offered  <- {c \in Callers : cli[a].chal = c},
                 accepted <- {c \in Callers : assigned[c] # ZeroIP /\ hs[c].addr = a},
                 joined   <- cli[a].ip # ZeroIP

AttemptsAgree ==
    /\ \A a \in Addrs : Agreed(a)!AgreementInit
    /\ [][\A a \in Addrs : [Agreed(a)!AgreementNext]_(Agreed(a)!agreementVars)]_vars

(* Whatever the server does to the session table, the pool and the rate    *)
(* limiter is a sequence of the manager's operations.                      *)
UsesManager == ManagerSpec

(* A client's attempt and a server's handshake end, whatever is lost.      *)
HandshakesEnd ==
    /\ \A a \in Addrs : cli[a].st \in {"hello", "auth"} ~> cli[a].st \in {"connected", "gone"}
    /\ \A c \in Callers : hs[c].st = "waiting" ~> hs[c].st \in {"added", "failed"}

(* The server eventually forgets a client that is gone, even if it never   *)
(* hears its DISCONNECT or adds its session only afterwards.               *)
GoneIsForgotten ==
    \A a \in Addrs : cli[a].st = "gone" ~> [](\A c \in sessions : hs[c].addr # a)
-----------------------------------------------------------------------------
(* What the repository says of the server, and the code does not do.       *)

(* tunReadLoop routes a packet to a client by its virtual IP: the index    *)
(* finds the session of every client under the address it was given.       *)
RoutesToClient == \A c \in sessions : GetByVirtualIP(assigned[c]) = c

(* An AUTH for a waiting handshake ends that handshake's wait, on a        *)
(* network that loses nothing.                                             *)
AuthReachesWaiter ==
    [][\A c \in Callers, m \in toServer \ toServer' :
          (hs[c].st = "waiting" /\ m = AuthPacket(hs[c].addr, c)) => hs'[c].st # "waiting"]_vars
=============================================================================
