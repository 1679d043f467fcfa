----------------------------- MODULE ServerProofs -----------------------------
(***************************************************************************)
(* For every number of attempts, handshakes and repetitions and every size *)
(* of the pool: the server's steps are the manager's operations, so what   *)
(* is proved of the manager holds of the server, and whatever the network  *)
(* loses, repeats or reorders, both ends of a session agree on its key and *)
(* its address, an attempt has one session, and none is uninvited.         *)
(***************************************************************************)
EXTENDS Server, ClientManagerProofs

(* The client of a has taken up the challenge of c, once and for all.      *)
Chosen(a, c) == cli[a].st \notin {"idle", "hello"} /\ cli[a].chal = c

(* Handshake c was assigned ip, for the attempt at a.                      *)
Promised(a, c, ip) == /\ c \in Callers
                      /\ ip # ZeroIP /\ assigned[c] = ip
                      /\ hs[c].addr = a

(* What a handshake has done, by its state.                                *)
HandshakeInv == \A c \in Callers :
    /\ hs[c].st # "unused" => hs[c].addr \in Addrs
    /\ assigned[c] # ZeroIP <=> hs[c].st \in {"accepted", "added"}
    /\ hs[c].st = "accepted" => ~Added(c)
    /\ assigned[c] # ZeroIP => Chosen(hs[c].addr, c) /\ hs[c].addr \in issued

(* What the packets on their way and the connected clients know is true.   *)
PacketInv ==
    /\ \A m \in toServer : m.type = "AUTH" => Chosen(m.from, m.chal)
    /\ \A m \in toClient : m.type = "ACCEPT" => Promised(m.to, m.chal, m.ip)
    /\ \A a \in Addrs : cli[a].st = "connected" => Promised(a, cli[a].chal, cli[a].ip)

ServerInv == TypeOK /\ ManagerInv /\ HandshakeInv /\ PacketInv

(* Each of the server's steps is one of the manager's or leaves it alone.  *)
LEMMA ManagerSteps == ServerInv /\ [Next]_vars => [ManagerNext]_managerVars
<1> SUFFICES ASSUME ServerInv, [Next]_vars PROVE [ManagerNext]_managerVars
  OBVIOUS
<1> USE DEF ServerInv
<1>1. ASSUME NEW c \in Callers, hs[c].st = "waiting", NEW h \in {HostOf[hs[c].addr]}, RecordFailure(h)
      PROVE  ManagerNext
  <2>1. h \in Hosts
    BY <1>1, ServerAssumption DEF ServerAssumption, HandshakeInv
  <2>2. QED
    BY <1>1, <2>1 DEF ManagerNext
<1>2. ASSUME NEW a \in Addrs, byAddr[a] # NoOne
      PROVE  /\ byAddr[a] \in Callers /\ byAddr[a] \in sessions
             /\ Added(byAddr[a])
  BY <1>2 DEF ManagerInv, IndexesLive, ManagerTypeOK, TableSound
<1>3. ASSUME NEW m \in toServer PROVE m.from \in Addrs
  BY DEF TypeOK, ToServer
<1>4. CASE UNCHANGED vars
  BY <1>4 DEF vars
<1>5. ASSUME NEW a \in Addrs, Client(a) \/ Revoke(a) PROVE UNCHANGED managerVars
  BY <1>5 DEF Client, SendHello, AnswerChallenge, ReceiveAccept, ClientDrops,
              ClientGivesUp, ClientSends, ClientDisconnects, Revoke
<1>6. ASSUME NEW m \in toServer, Dispatch(m) \/ Lose(m) PROVE [ManagerNext]_managerVars
  <2>1. CASE Lose(m) \/ DispatchUnknown(m) \/ DispatchAuth(m) \/ \E c \in Callers : DispatchHello(m, c)
    BY <2>1 DEF Lose, DispatchUnknown, DispatchAuth, DispatchHello, GetByAddr
  <2>2. CASE DispatchData(m) \/ DispatchKeepalive(m)
    BY <1>2, <1>3, <2>2 DEF DispatchData, DispatchKeepalive, ManagerNext, GetByAddr
  <2>3. CASE DispatchDisconnect(m)
    BY <1>2, <1>3, <2>3 DEF DispatchDisconnect, ManagerNext, GetByAddr
  <2>4. QED
    BY <1>6, <2>1, <2>2, <2>3 DEF Dispatch
<1>7. ASSUME NEW c \in Callers, Handshake(c) PROVE [ManagerNext]_managerVars
  <2>1. ASSUME NEW m \in toServer, WaiterDrops(c, m) PROVE UNCHANGED managerVars
    BY <2>1 DEF WaiterDrops
  <2>2. ASSUME NEW m \in toServer, ReceiveAuth(c, m) PROVE ManagerNext
    <3>1. CASE AssignIP(c)
      BY <2>2, <3>1 DEF ReceiveAuth, HandshakeInv, ManagerNext
    <3>2. CASE Fail(c)
      BY <1>1, <2>2, <3>2 DEF ReceiveAuth, Fail
    <3>3. QED
      BY <2>2, <3>1, <3>2 DEF ReceiveAuth
  <2>3. CASE WaitTimesOut(c)
    BY <1>1, <2>3 DEF WaitTimesOut, Fail
  <2>4. CASE AddSession(c)
    <3>1. Pending(c) /\ hs[c].addr \in Addrs
      BY <2>4 DEF AddSession, HandshakeInv, Pending
    <3>2. QED
      BY <2>4, <3>1 DEF AddSession, ManagerNext
  <2>5. QED
    BY <1>7, <2>1, <2>2, <2>3, <2>4 DEF Handshake
<1>8. CASE Background
  BY <1>8 DEF Background, ManagerNext
<1>9. QED
  BY <1>4, <1>5, <1>6, <1>7, <1>8 DEF Next
-----------------------------------------------------------------------------
(* No step takes back an address or a client's choice.                     *)
PromisesKept == \A c \in Callers :
    assigned[c] # ZeroIP => assigned'[c] = assigned[c] /\ hs'[c].addr = hs[c].addr
ChoicesKept == \A a \in Addrs : cli[a].st \notin {"idle", "hello"} =>
    cli'[a].st \notin {"idle", "hello"} /\ cli'[a].chal = cli[a].chal

(* What is on its way stays true when what is new is true and no promise   *)
(* or choice is taken back.                                                *)
LEMMA PacketsKeep ==
    ASSUME ServerInv, PromisesKept, ChoicesKept,
           \A m \in toServer' : m.type = "AUTH" => m \in toServer \/ Chosen(m.from, m.chal)',
           \A m \in toClient' : m.type = "ACCEPT" => m \in toClient \/ Promised(m.to, m.chal, m.ip)',
           \A a \in Addrs : cli'[a].st = "connected" =>
               (cli[a].st = "connected" /\ cli'[a] = cli[a]) \/ Promised(a, cli[a].chal, cli[a].ip)'
    PROVE  PacketInv'
<1>1. ASSUME NEW m \in toServer', m.type = "AUTH" PROVE Chosen(m.from, m.chal)'
  BY <1>1 DEF ServerInv, TypeOK, ToServer, PacketInv, ChoicesKept, Chosen
<1>2. ASSUME NEW a \in Addrs, NEW c, NEW ip, Promised(a, c, ip) PROVE Promised(a, c, ip)'
  BY <1>2 DEF Promised, PromisesKept
<1>3. ASSUME NEW m \in toClient', m.type = "ACCEPT" PROVE Promised(m.to, m.chal, m.ip)'
  BY <1>2, <1>3 DEF ServerInv, TypeOK, ToClient, PacketInv
<1>4. ASSUME NEW a \in Addrs, cli'[a].st = "connected" PROVE Promised(a, cli[a].chal, cli[a].ip)'
  BY <1>2, <1>4 DEF ServerInv, PacketInv
<1>5. QED
  BY <1>1, <1>3, <1>4 DEF PacketInv

(* What each handshake has done stays true when the handshakes, their      *)
(* addresses and the sessions' membership stay as they are.                *)
LEMMA HandshakesKeep ==
    ASSUME ServerInv, ChoicesKept, UNCHANGED <<hs, assigned, issued>>,
           \A c \in Callers : Added(c)' <=> Added(c)
    PROVE  HandshakeInv'
BY DEF ServerInv, HandshakeInv, ChoicesKept, Chosen

(* Steps of the clients.                                                   *)
LEMMA ClientSteps ==
    ASSUME ServerInv, NEW a \in Addrs, Client(a)
    PROVE  TypeOK' /\ HandshakeInv' /\ PacketInv' /\ PromisesKept
<1>0. /\ TypeOK /\ UNCHANGED <<managerVars, hs, tokens, dups>>
  BY DEF ServerInv, Client, SendHello, AnswerChallenge, ReceiveAccept, ClientDrops,
         ClientGivesUp, ClientSends, ClientDisconnects
<1>1. UNCHANGED <<object, assigned, hs, issued, revoked, dups>> /\ ManagerTypeOK'
  BY <1>0 DEF managerVars, tableVars, poolVars, limitVars, tokens, TypeOK, ManagerTypeOK
<1>2. PromisesKept
  BY <1>1 DEF PromisesKept
<1>3. \A c \in Callers : Added(c)' <=> Added(c)
  BY <1>1 DEF Added
<1>4. SUFFICES /\ toServer' \in SUBSET ToServer /\ toClient' \in SUBSET ToClient
               /\ cli' \in [Addrs -> Attempts]
               /\ ChoicesKept
               /\ PacketInv'
  BY <1>0, <1>1, <1>2, <1>3, HandshakesKeep DEF TypeOK
<1>5. ASSUME cli'[a] \in Attempts, \A b \in Addrs \ {a} : cli'[b] = cli[b],
             cli' = [cli EXCEPT ![a] = cli'[a]],
             cli[a].st \notin {"idle", "hello"} =>
                 cli'[a].st \notin {"idle", "hello"} /\ cli'[a].chal = cli[a].chal
      PROVE  cli' \in [Addrs -> Attempts] /\ ChoicesKept
  BY <1>0, <1>5 DEF TypeOK, ChoicesKept
<1>6. CASE SendHello(a)
  <2>1. /\ cli' = [cli EXCEPT ![a] = [cli[a] EXCEPT !.st = "hello"]]
        /\ cli[a].st = "idle"
        /\ toServer' = toServer \cup {Packet("HELLO", a)} /\ UNCHANGED toClient
    BY <1>6 DEF SendHello
  <2>2. cli'[a].st = "hello" /\ cli'[a] \in Attempts
    BY <1>0, <2>1 DEF TypeOK, Attempts
  <2>3. cli' \in [Addrs -> Attempts] /\ ChoicesKept
    BY <1>0, <1>5, <2>1, <2>2 DEF TypeOK
  <2>4. Packet("HELLO", a) \in ToServer /\ Packet("HELLO", a).type # "AUTH"
    BY DEF Packet, ToServer
  <2>5. PacketInv'
    BY <1>0, <1>2, <2>1, <2>2, <2>3, <2>4, PacketsKeep DEF TypeOK
  <2>6. QED
    BY <1>0, <2>1, <2>3, <2>4, <2>5 DEF TypeOK
<1>7. ASSUME NEW m \in toClient, AnswerChallenge(a, m)
      PROVE  /\ toServer' \in SUBSET ToServer /\ toClient' \in SUBSET ToClient
             /\ cli' \in [Addrs -> Attempts] /\ ChoicesKept /\ PacketInv'
  <2>1. /\ cli' = [cli EXCEPT ![a] = [cli[a] EXCEPT !.st = "auth", !.chal = m.chal]]
        /\ cli[a].st = "hello"
        /\ toServer' = toServer \cup {AuthPacket(a, m.chal)} /\ toClient' = toClient \ {m}
    BY <1>0, <1>7 DEF AnswerChallenge, TypeOK
  <2>2. m.chal \in Callers \cup {NoOne}
    BY <1>0 DEF TypeOK, ToClient
  <2>3. cli'[a].st = "auth" /\ cli'[a].chal = m.chal /\ cli'[a] \in Attempts
    BY <1>0, <2>1, <2>2 DEF TypeOK, Attempts
  <2>4. cli' \in [Addrs -> Attempts] /\ ChoicesKept
    BY <1>0, <1>5, <2>1, <2>3 DEF TypeOK
  <2>5. /\ AuthPacket(a, m.chal) \in ToServer
        /\ Chosen(AuthPacket(a, m.chal).from, AuthPacket(a, m.chal).chal)'
    BY <2>2, <2>3 DEF AuthPacket, ToServer, Chosen
  <2>6. PacketInv'
    BY <1>0, <1>2, <2>1, <2>3, <2>4, <2>5, PacketsKeep DEF TypeOK
  <2>7. QED
    BY <1>0, <2>1, <2>4, <2>5, <2>6 DEF TypeOK
<1>8. ASSUME NEW m \in toClient, ReceiveAccept(a, m)
      PROVE  /\ toServer' \in SUBSET ToServer /\ toClient' \in SUBSET ToClient
             /\ cli' \in [Addrs -> Attempts] /\ ChoicesKept /\ PacketInv'
  <2>1. /\ cli' = [cli EXCEPT ![a] = [cli[a] EXCEPT !.st = "connected", !.ip = m.ip]]
        /\ cli[a].st = "auth" /\ m.to = a /\ m.type = "ACCEPT"
        /\ toClient' = toClient \ {m} /\ UNCHANGED toServer
    BY <1>0, <1>8 DEF ReceiveAccept, TypeOK
  <2>2. m.ip \in IPs \cup {ZeroIP} /\ Promised(a, m.chal, m.ip)
    BY <1>0, <2>1 DEF TypeOK, ToClient, ServerInv, PacketInv
  <2>3. /\ cli'[a].st = "connected" /\ cli'[a].chal = cli[a].chal /\ cli'[a].ip = m.ip
        /\ cli'[a] \in Attempts
    BY <1>0, <2>1, <2>2 DEF TypeOK, Attempts
  <2>4. cli' \in [Addrs -> Attempts] /\ ChoicesKept
    BY <1>0, <1>5, <2>1, <2>3 DEF TypeOK
  <2>5. cli[a].chal = m.chal
    BY <2>2 DEF ServerInv, HandshakeInv, Promised, Chosen
  <2>6. Promised(a, cli[a].chal, cli[a].ip)'
    BY <1>1, <2>2, <2>3, <2>5 DEF Promised
  <2>7. PacketInv'
    BY <1>0, <1>2, <2>1, <2>4, <2>6, PacketsKeep DEF TypeOK
  <2>8. QED
    BY <1>0, <2>1, <2>4, <2>7 DEF TypeOK
<1>9. CASE \E m \in toClient : ClientDrops(a, m)
  <2>1. UNCHANGED <<cli, toServer>> /\ toClient' \subseteq toClient
    BY <1>9 DEF ClientDrops
  <2>2. ChoicesKept
    BY <2>1 DEF ChoicesKept
  <2>3. PacketInv'
    BY <1>2, <2>1, <2>2, PacketsKeep
  <2>4. QED
    BY <1>0, <2>1, <2>2, <2>3 DEF TypeOK
<1>10. CASE ClientGivesUp(a) \/ ClientDisconnects(a)
  <2>1. /\ cli' = [cli EXCEPT ![a] = [cli[a] EXCEPT !.st = "gone"]]
        /\ cli[a].st \in {"hello", "auth", "connected"}
        /\ toServer' \in {toServer, toServer \cup {Packet("DISCONNECT", a)}} /\ UNCHANGED toClient
    BY <1>10 DEF ClientGivesUp, ClientDisconnects
  <2>2. cli'[a].st = "gone" /\ cli'[a].chal = cli[a].chal /\ cli'[a] \in Attempts
    BY <1>0, <2>1 DEF TypeOK, Attempts
  <2>3. cli' \in [Addrs -> Attempts] /\ ChoicesKept
    BY <1>0, <1>5, <2>1, <2>2 DEF TypeOK
  <2>4. Packet("DISCONNECT", a) \in ToServer /\ Packet("DISCONNECT", a).type # "AUTH"
    BY DEF Packet, ToServer
  <2>5. PacketInv'
    BY <1>0, <1>2, <2>1, <2>2, <2>3, <2>4, PacketsKeep DEF TypeOK
  <2>6. QED
    BY <1>0, <2>1, <2>3, <2>4, <2>5 DEF TypeOK
<1>11. ASSUME NEW type \in Traffic, ClientSends(a, type)
       PROVE  /\ toServer' \in SUBSET ToServer /\ toClient' \in SUBSET ToClient
              /\ cli' \in [Addrs -> Attempts] /\ ChoicesKept /\ PacketInv'
  <2>1. toServer' = toServer \cup {Packet(type, a)} /\ UNCHANGED <<cli, toClient>>
    BY <1>11 DEF ClientSends
  <2>2. Packet(type, a) \in ToServer /\ Packet(type, a).type # "AUTH"
    BY ServerAssumption DEF ServerAssumption, Packet, ToServer
  <2>3. ChoicesKept
    BY <2>1 DEF ChoicesKept
  <2>4. PacketInv'
    BY <1>2, <2>1, <2>2, <2>3, PacketsKeep
  <2>5. QED
    BY <1>0, <2>1, <2>2, <2>3, <2>4 DEF TypeOK
<1>12. QED
  BY <1>6, <1>7, <1>8, <1>9, <1>10, <1>11 DEF Client
-----------------------------------------------------------------------------
(* Who takes a packet from the channel has one of the right type           *)
(* (transport.go: Recv).                                                   *)
LEMMA Taking ==
    ASSUME ServerInv, NEW m \in toServer, Take(m)
    PROVE  /\ toServer' \subseteq toServer /\ dups' \in 0..MaxDups
           /\ m \in ToServer /\ m.from \in Addrs
BY ServerAssumption DEF ServerAssumption, ServerInv, TypeOK, Take, ToServer

(* Steps that change no handshake and no client, and send no ACCEPT.       *)
LEMMA QuietSteps ==
    ASSUME ServerInv, ManagerInv', UNCHANGED <<hs, cli, assigned, issued>>,
           \A c \in Callers : Added(c)' <=> Added(c),
           toServer' \subseteq toServer, toClient' \in SUBSET ToClient,
           \A m \in toClient' : m.type = "ACCEPT" => m \in toClient,
           revoked' \subseteq issued, dups' \in 0..MaxDups
    PROVE  TypeOK' /\ HandshakeInv' /\ PacketInv' /\ PromisesKept
<1>1. PromisesKept /\ ChoicesKept
  BY DEF PromisesKept, ChoicesKept
<1>2. PacketInv'
  BY <1>1, PacketsKeep
<1>3. HandshakeInv'
  BY <1>1, HandshakesKeep
<1>4. TypeOK'
  BY DEF ServerInv, ManagerInv, TypeOK
<1>5. QED
  BY <1>1, <1>2, <1>3, <1>4

(* Steps that change one handshake, which keeps its peer if it had one.    *)
LEMMA HandshakeSteps ==
    ASSUME ServerInv, ManagerInv', NEW c \in Callers, NEW r \in Handshakes,
           hs' = [hs EXCEPT ![c] = r], r.addr \in Addrs,
           hs[c].st # "unused" => r.addr = hs[c].addr,
           UNCHANGED <<cli, issued, revoked>>, dups' \in 0..MaxDups,
           \A d \in Callers \ {c} : assigned'[d] = assigned[d] /\ (Added(d)' <=> Added(d)),
           assigned[c] # ZeroIP => assigned'[c] = assigned[c],
           assigned'[c] # ZeroIP <=> r.st \in {"accepted", "added"},
           r.st = "accepted" => ~Added(c)',
           assigned'[c] # ZeroIP => Chosen(r.addr, c) /\ r.addr \in issued,
           toServer' \subseteq toServer, toClient' \in SUBSET ToClient,
           \A m \in toClient' : m.type = "ACCEPT" => m \in toClient \/ Promised(m.to, m.chal, m.ip)'
    PROVE  TypeOK' /\ HandshakeInv' /\ PacketInv' /\ PromisesKept
<1>1. hs'[c] = r /\ \A d \in Callers \ {c} : hs'[d] = hs[d]
  BY DEF ServerInv, TypeOK
<1>2. PromisesKept
  BY <1>1 DEF PromisesKept, ServerInv, HandshakeInv
<1>3. ChoicesKept
  BY DEF ChoicesKept
<1>4. PacketInv'
  BY <1>2, <1>3, PacketsKeep
<1>5. HandshakeInv'
  <2>1. UNCHANGED cli /\ UNCHANGED issued
    OBVIOUS
  <2>2. ASSUME NEW d \in Callers
        PROVE  /\ hs'[d].st # "unused" => hs'[d].addr \in Addrs
               /\ assigned'[d] # ZeroIP <=> hs'[d].st \in {"accepted", "added"}
               /\ hs'[d].st = "accepted" => ~Added(d)'
               /\ assigned'[d] # ZeroIP => Chosen(hs'[d].addr, d) /\ hs'[d].addr \in issued
    <3>1. CASE d = c
      BY <1>1, <3>1, Zenon
    <3>2. CASE d # c
      <4>1. hs'[d] = hs[d] /\ assigned'[d] = assigned[d] /\ (Added(d)' <=> Added(d))
        BY <1>1, <3>2
      <4>2. /\ hs[d].st # "unused" => hs[d].addr \in Addrs
            /\ assigned[d] # ZeroIP <=> hs[d].st \in {"accepted", "added"}
            /\ hs[d].st = "accepted" => ~Added(d)
            /\ assigned[d] # ZeroIP => Chosen(hs[d].addr, d) /\ hs[d].addr \in issued
        BY DEF ServerInv, HandshakeInv
      <4>3. QED
        BY <4>1, <4>2, Zenon
    <3>3. QED
      BY <3>1, <3>2
  <2>3. ASSUME NEW d \in Callers, assigned'[d] # ZeroIP PROVE Chosen(hs[d].addr, d)'
    BY <2>1, <2>2, <2>3 DEF Chosen
  <2>4. QED
    BY <2>1, <2>2, <2>3, Zenon DEF HandshakeInv
<1>6. TypeOK'
  BY DEF ServerInv, ManagerInv, TypeOK
<1>7. QED
  BY <1>2, <1>4, <1>5, <1>6

(* A session that falls silent or is touched is still in the table, or     *)
(* still out of it.                                                        *)
LEMMA ObjectSilence ==
    ASSUME ManagerTypeOK, NEW c \in Callers, NEW b \in BOOLEAN,
           object' = [object EXCEPT ![c].silent = b]
    PROVE  \A d \in Callers : Added(d)' <=> Added(d)
<1>1. \A d \in Callers : object'[d].addr = object[d].addr
  BY DEF ManagerTypeOK, Session
<1>2. QED
  BY <1>1 DEF Added

(* The dispatch loop keeps the invariant (main.go: dispatchLoop,           *)
(* handleInbound).                                                         *)
LEMMA DispatchSteps ==
    ASSUME ServerInv, ManagerInv', NEW m \in toServer, Dispatch(m) \/ Lose(m)
    PROVE  TypeOK' /\ HandshakeInv' /\ PacketInv' /\ PromisesKept
<1>0. TypeOK /\ ManagerTypeOK
  BY DEF ServerInv, TypeOK
<1>1. CASE Lose(m)
  <2>1. UNCHANGED <<object, assigned, hs, cli, issued, revoked, dups, toClient>> /\ toServer' \subseteq toServer
    BY <1>1 DEF Lose, managerVars, tableVars, poolVars, tokens
  <2>2. QED
    BY <1>0, <2>1, QuietSteps DEF Added, TypeOK
<1>2. CASE DispatchUnknown(m) \/ DispatchAuth(m)
  <2>1. UNCHANGED <<object, assigned, hs, cli, issued, revoked, toClient>> /\ Take(m)
    BY <1>2 DEF DispatchUnknown, DispatchAuth, managerVars, tableVars, poolVars, tokens, GetByAddr
  <2>2. QED
    BY <1>0, <2>1, QuietSteps, Taking DEF Added, TypeOK
<1>3. CASE DispatchData(m) \/ DispatchKeepalive(m)
  <2>1. /\ UNCHANGED <<assigned, hs, cli, issued, revoked>> /\ Take(m)
        /\ Touch(byAddr[m.from]) /\ byAddr[m.from] # NoOne
        /\ toClient' \in {toClient, toClient \cup {Reply("KEEPALIVE", m.from, NoOne, ZeroIP)}}
    BY <1>3 DEF DispatchData, DispatchKeepalive, Touch, poolVars, tokens, GetByAddr
  <2>2. byAddr[m.from] \in Callers
    BY <1>0, <2>1, Taking DEF ManagerTypeOK
  <2>3. \A d \in Callers : Added(d)' <=> Added(d)
    BY <1>0, <2>1, <2>2, ObjectSilence DEF Touch
  <2>4. /\ Reply("KEEPALIVE", m.from, NoOne, ZeroIP) \in ToClient
        /\ Reply("KEEPALIVE", m.from, NoOne, ZeroIP).type # "ACCEPT"
    BY <2>1, Taking DEF Reply, ToClient
  <2>5. QED
    BY <1>0, <2>1, <2>3, <2>4, QuietSteps, Taking DEF TypeOK
<1>4. CASE DispatchDisconnect(m)
  <2>1. UNCHANGED <<object, assigned, hs, cli, issued, revoked, toClient>> /\ Take(m)
    BY <1>4 DEF DispatchDisconnect, Remove, tokens, GetByAddr
  <2>2. QED
    BY <1>0, <2>1, QuietSteps, Taking DEF Added, TypeOK
<1>5. ASSUME NEW c \in Callers, DispatchHello(m, c) PROVE TypeOK' /\ HandshakeInv' /\ PacketInv' /\ PromisesKept
  <2>1. UNCHANGED <<object, assigned, cli, issued, revoked>> /\ Take(m)
    BY <1>5 DEF DispatchHello, managerVars, tableVars, poolVars, tokens
  <2>2. CASE UNCHANGED <<hs, toClient>>
    BY <1>0, <2>1, <2>2, QuietSteps, Taking DEF Added, TypeOK
  <2>3. CASE /\ hs[c].st = "unused"
             /\ hs' = [hs EXCEPT ![c] = [st |-> "waiting", addr |-> m.from]]
             /\ toClient' = toClient \cup {Reply("CHALLENGE", m.from, c, ZeroIP)}
    <3> DEFINE r == [st |-> "waiting", addr |-> m.from]
    <3>1. r \in Handshakes /\ r.addr \in Addrs /\ r.st = "waiting"
      BY <2>1, Taking DEF Handshakes
    <3>2. assigned[c] = ZeroIP
      BY <2>3 DEF ServerInv, HandshakeInv
    <3>3. /\ Reply("CHALLENGE", m.from, c, ZeroIP) \in ToClient
          /\ Reply("CHALLENGE", m.from, c, ZeroIP).type # "ACCEPT"
      BY <2>1, Taking DEF Reply, ToClient
    <3>4. \A d \in Callers : Added(d)' <=> Added(d)
      BY <2>1 DEF Added
    <3>5. toServer' \subseteq toServer /\ dups' \in 0..MaxDups /\ toClient' \in SUBSET ToClient
      BY <1>0, <2>1, <2>3, <3>3, Taking DEF TypeOK
    <3> HIDE DEF r
    <3>6. QED
      BY <2>1, <2>3, <3>1, <3>2, <3>3, <3>4, <3>5, HandshakeSteps DEF r
  <2>4. QED
    BY <1>5, <2>2, <2>3 DEF DispatchHello
<1>6. QED
  BY <1>1, <1>2, <1>3, <1>4, <1>5 DEF Dispatch

(* A waiting handshake keeps the invariant (handshake.go:                  *)
(* ServerHandshake).                                                       *)
LEMMA WaiterSteps ==
    ASSUME ServerInv, ManagerInv', NEW c \in Callers, Handshake(c)
    PROVE  TypeOK' /\ HandshakeInv' /\ PacketInv' /\ PromisesKept
<1>0. TypeOK /\ ManagerTypeOK
  BY DEF ServerInv, TypeOK
<1>1. ASSUME NEW m \in toServer, WaiterDrops(c, m) PROVE TypeOK' /\ HandshakeInv' /\ PacketInv' /\ PromisesKept
  <2>1. UNCHANGED <<object, assigned, hs, cli, issued, revoked, toClient>> /\ Take(m)
    BY <1>1 DEF WaiterDrops, managerVars, tableVars, poolVars, tokens
  <2>2. QED
    BY <1>0, <2>1, QuietSteps, Taking DEF Added, TypeOK
<1>2. ASSUME hs[c].st = "waiting", Fail(c), UNCHANGED <<cli, tokens, toClient>>,
             toServer' \subseteq toServer, dups' \in 0..MaxDups
      PROVE  TypeOK' /\ HandshakeInv' /\ PacketInv' /\ PromisesKept
  <2> DEFINE r == [hs[c] EXCEPT !.st = "failed"]
  <2>1. hs[c] \in Handshakes /\ hs[c].addr \in Addrs /\ assigned[c] = ZeroIP
    BY <1>0, <1>2 DEF TypeOK, ServerInv, HandshakeInv
  <2>2. r \in Handshakes /\ r.addr = hs[c].addr /\ r.st = "failed"
    BY <2>1 DEF Handshakes
  <2>3. hs' = [hs EXCEPT ![c] = r] /\ UNCHANGED <<object, assigned, issued, revoked>>
    BY <1>2 DEF Fail, RecordFailure, tableVars, poolVars, tokens
  <2>4. \A d \in Callers : Added(d)' <=> Added(d)
    BY <2>3 DEF Added
  <2> HIDE DEF r
  <2>5. QED
    BY <1>0, <1>2, <2>1, <2>2, <2>3, <2>4, HandshakeSteps DEF TypeOK
<1>3. CASE WaitTimesOut(c)
  BY <1>0, <1>2, <1>3 DEF WaitTimesOut, TypeOK
<1>4. ASSUME NEW m \in toServer, ReceiveAuth(c, m) PROVE TypeOK' /\ HandshakeInv' /\ PacketInv' /\ PromisesKept
  <2>1. /\ hs[c].st = "waiting" /\ m.type = "AUTH" /\ m.from = hs[c].addr
        /\ Take(m) /\ UNCHANGED <<cli, tokens>>
    BY <1>4 DEF ReceiveAuth
  <2>2. CASE Fail(c) /\ UNCHANGED toClient
    BY <1>2, <2>1, <2>2, Taking
  <2>3. CASE /\ HMACMatches(c, m) /\ TokenAccepted(m.from) /\ AssignIP(c)
             /\ hs' = [hs EXCEPT ![c].st = "accepted"]
             /\ toClient' = toClient \cup {Reply("ACCEPT", m.from, c, assigned'[c])}
    <3>0. PICK ip \in IPs : assigned' = [assigned EXCEPT ![c] = ip]
      BY <2>3 DEF AssignIP, FirstFree
    <3> DEFINE r == [hs[c] EXCEPT !.st = "accepted"]
               p == Reply("ACCEPT", m.from, c, ip)
    <3>1. hs[c] \in Handshakes /\ hs[c].addr \in Addrs /\ assigned[c] = ZeroIP
      BY <1>0, <2>1 DEF TypeOK, ServerInv, HandshakeInv
    <3>2. r \in Handshakes /\ r.addr = hs[c].addr /\ r.st = "accepted"
      BY <3>1 DEF Handshakes
    <3>3. hs' = [hs EXCEPT ![c] = r] /\ UNCHANGED <<object, cli, issued, revoked>>
      BY <2>1, <2>3 DEF AssignIP, tableVars, tokens
    <3>4. /\ assigned'[c] = ip /\ ip # ZeroIP
          /\ \A d \in Callers \ {c} : assigned'[d] = assigned[d]
      BY <1>0, <3>0, ZeroIsNoAddress DEF ManagerTypeOK
    <3>5. ~Added(c)' /\ \A d \in Callers : Added(d)' <=> Added(d)
      BY <3>1, <3>3 DEF Added, ServerInv, ManagerInv, TableSound
    <3>6. Chosen(r.addr, c) /\ r.addr \in issued
      BY <2>1, <2>3, <3>2 DEF HMACMatches, TokenAccepted, ServerInv, PacketInv
    <3>7. p \in ToClient /\ p.to = m.from /\ p.chal = c /\ p.ip = ip
      BY <2>1, Taking DEF Reply, ToClient
    <3>8. toClient' = toClient \cup {p}
      BY <2>3, <3>4
    <3>9. hs'[c].addr = m.from
      BY <1>0, <2>1, <3>2, <3>3 DEF TypeOK
    <3>10. \A q \in toClient' : q.type = "ACCEPT" => q \in toClient \/ Promised(q.to, q.chal, q.ip)'
      BY <3>4, <3>7, <3>8, <3>9 DEF Promised
    <3>11. toServer' \subseteq toServer /\ dups' \in 0..MaxDups /\ toClient' \in SUBSET ToClient
      BY <1>0, <2>1, <3>7, <3>8, Taking DEF TypeOK
    <3> HIDE DEF r, p
    <3>12. QED
      BY <3>1, <3>2, <3>3, <3>4, <3>5, <3>6, <3>10, <3>11, HandshakeSteps
  <2>4. QED
    BY <1>4, <2>2, <2>3 DEF ReceiveAuth
<1>5. CASE AddSession(c)
  <2> DEFINE r == [hs[c] EXCEPT !.st = "added"]
  <2>1. /\ hs[c].st = "accepted" /\ hs' = [hs EXCEPT ![c] = r]
        /\ UNCHANGED <<assigned, toServer, toClient, cli, issued, revoked, dups>>
        /\ Add(c, hs[c].addr, ZeroIP)
    BY <1>5 DEF AddSession, Add, poolVars, tokens
  <2>2. /\ hs[c] \in Handshakes /\ hs[c].addr \in Addrs /\ assigned[c] # ZeroIP
        /\ Chosen(hs[c].addr, c) /\ hs[c].addr \in issued
    BY <1>0, <2>1 DEF TypeOK, ServerInv, HandshakeInv
  <2>3. r \in Handshakes /\ r.addr = hs[c].addr /\ r.st = "added"
    BY <2>2 DEF Handshakes
  <2>4. \A d \in Callers \ {c} : Added(d)' <=> Added(d)
    BY <1>0, <2>1 DEF Add, Added, ManagerTypeOK
  <2> HIDE DEF r
  <2>5. QED
    BY <1>0, <2>1, <2>2, <2>3, <2>4, HandshakeSteps DEF TypeOK
<1>6. QED
  BY <1>1, <1>3, <1>4, <1>5 DEF Handshake

(* The sweep, silent clients and revoked tokens keep the invariant.        *)
LEMMA BackgroundSteps ==
    ASSUME ServerInv, ManagerInv', Background \/ \E a \in Addrs : Revoke(a)
    PROVE  TypeOK' /\ HandshakeInv' /\ PacketInv' /\ PromisesKept
<1>0. TypeOK /\ ManagerTypeOK
  BY DEF ServerInv, TypeOK
<1>1. CASE Background
  <2>1. UNCHANGED <<toServer, toClient, hs, cli, issued, revoked, dups>>
    BY <1>1 DEF Background, serverVars, tokens
  <2>2. UNCHANGED assigned
    BY <1>1 DEF Background, SweepScan, FallsSilent, SweepRemove, TimePassed, poolVars
  <2>3. \A d \in Callers : Added(d)' <=> Added(d)
    <3>1. CASE \E c \in Callers : FallsSilent(c)
      BY <1>0, <3>1, ObjectSilence DEF FallsSilent
    <3>2. CASE UNCHANGED object
      BY <3>2 DEF Added
    <3>3. QED
      BY <1>1, <3>1, <3>2 DEF Background, SweepScan, SweepRemove, TimePassed, tableVars
  <2>4. QED
    BY <1>0, <2>1, <2>2, <2>3, QuietSteps DEF TypeOK
<1>2. ASSUME NEW a \in Addrs, Revoke(a) PROVE TypeOK' /\ HandshakeInv' /\ PacketInv' /\ PromisesKept
  <2>1. /\ UNCHANGED <<object, assigned, toServer, toClient, hs, cli, issued, dups>>
        /\ revoked' \subseteq issued
    BY <1>0, <1>2 DEF Revoke, managerVars, tableVars, poolVars, TypeOK
  <2>2. QED
    BY <1>0, <2>1, QuietSteps DEF Added, TypeOK
<1>3. QED
  BY <1>1, <1>2
-----------------------------------------------------------------------------
(* The server starts within its invariant.                                 *)
LEMMA ServerInit == Init => ServerInv
<1> SUFFICES ASSUME Init PROVE ServerInv
  OBVIOUS
<1> USE ServerAssumption DEF ServerAssumption, Init
<1>1. ManagerInv
  BY InitKeeps
<1>2. TypeOK
  BY <1>1 DEF ManagerInv, TypeOK, Handshakes, Attempts
<1>3. \A c \in Callers : hs[c].st = "unused" /\ assigned[c] = ZeroIP
  BY DEF ManagerInit
<1>4. HandshakeInv
  BY <1>3 DEF HandshakeInv
<1>5. PacketInv
  BY DEF PacketInv
<1>6. QED
  BY <1>1, <1>2, <1>4, <1>5 DEF ServerInv

(* Every step of the server keeps its invariant and what was promised.     *)
LEMMA ServerStep == ServerInv /\ [Next]_vars => ServerInv' /\ PromisesKept
<1> SUFFICES ASSUME ServerInv, [Next]_vars PROVE ServerInv' /\ PromisesKept
  OBVIOUS
<1>1. ManagerInv'
  BY ManagerSteps, ManagerStep DEF ServerInv
<1>2. SUFFICES TypeOK' /\ HandshakeInv' /\ PacketInv' /\ PromisesKept
  BY <1>1 DEF ServerInv
<1>3. CASE UNCHANGED vars
  <2>1. UNCHANGED <<hs, cli, assigned, issued, object, toServer, toClient, revoked, dups>>
    BY <1>3 DEF vars, managerVars, serverVars, tableVars, poolVars, tokens
  <2>2. \A c \in Callers : Added(c)' <=> Added(c)
    BY <2>1 DEF Added
  <2>3. QED
    BY <1>1, <2>1, <2>2, QuietSteps DEF ServerInv, TypeOK
<1>4. ASSUME NEW a \in Addrs, Client(a) PROVE TypeOK' /\ HandshakeInv' /\ PacketInv' /\ PromisesKept
  BY <1>4, ClientSteps
<1>5. ASSUME NEW m \in toServer, Dispatch(m) \/ Lose(m) PROVE TypeOK' /\ HandshakeInv' /\ PacketInv' /\ PromisesKept
  BY <1>1, <1>5, DispatchSteps
<1>6. ASSUME NEW c \in Callers, Handshake(c) PROVE TypeOK' /\ HandshakeInv' /\ PacketInv' /\ PromisesKept
  BY <1>1, <1>6, WaiterSteps
<1>7. CASE Background \/ \E a \in Addrs : Revoke(a)
  BY <1>1, <1>7, BackgroundSteps
<1>8. QED
  BY <1>3, <1>4, <1>5, <1>6, <1>7 DEF Next

(* The invariant of the server holds in every state.                       *)
LEMMA ServerInvariant == Spec => []ServerInv
BY ServerInit, ServerStep, PTL DEF Spec

(* Whatever the handshakes, the dispatcher and the sweep do to the session *)
(* table, the pool and the rate limiter is a sequence of the manager's     *)
(* operations, each called as the manager expects: the server implements   *)
(* ManagerSpec.                                                            *)
THEOREM ServerUsesManager == Spec => UsesManager
<1>1. Init => ManagerInit
  BY DEF Init
<1>2. QED
  BY <1>1, ServerInvariant, ManagerSteps, PTL DEF Spec, ManagerSpec, UsesManager

(* A client that has answered no challenge has taken up none.              *)
NothingChosen == \A a \in Addrs : cli[a].st \in {"idle", "hello"} => cli[a].chal = NoOne

(* What a step of a client can do to its attempt.                          *)
Stays(b)   == /\ cli'[b].chal = cli[b].chal /\ cli'[b].ip = cli[b].ip
              /\ cli'[b].st \in {"idle", "hello"} => cli[b].st \in {"idle", "hello"}
Chooses(b) == cli[b].st = "hello" /\ cli'[b].st = "auth" /\ cli'[b].ip = cli[b].ip
GetsIn(b)  == /\ cli'[b].st = "connected" /\ cli'[b].chal = cli[b].chal /\ cli'[b].ip # ZeroIP
              /\ \E c \in Callers : assigned[c] # ZeroIP /\ hs[c].addr = b

(* And only to its own (handshake.go: ClientHandshake).                    *)
LEMMA ClientMoves ==
    ASSUME ServerInv, NEW b \in Addrs, Client(b)
    PROVE  /\ UNCHANGED <<hs, assigned>>
           /\ \A a \in Addrs \ {b} : cli'[a] = cli[a]
           /\ Stays(b) \/ Chooses(b) \/ GetsIn(b)
<1>1. cli \in [Addrs -> Attempts]
  BY DEF ServerInv, TypeOK
<1>2. UNCHANGED <<hs, assigned>>
  BY DEF Client, SendHello, AnswerChallenge, ReceiveAccept, ClientDrops,
         ClientGivesUp, ClientSends, ClientDisconnects, managerVars, poolVars
<1>3. CASE SendHello(b) \/ ClientGivesUp(b) \/ ClientDisconnects(b)
  BY <1>1, <1>2, <1>3 DEF SendHello, ClientGivesUp, ClientDisconnects, Attempts, Stays
<1>4. CASE (\E m \in toClient : ClientDrops(b, m)) \/ \E type \in Traffic : ClientSends(b, type)
  BY <1>2, <1>4 DEF ClientDrops, ClientSends, Stays
<1>5. ASSUME NEW m \in toClient, AnswerChallenge(b, m)
      PROVE  (\A a \in Addrs \ {b} : cli'[a] = cli[a]) /\ Chooses(b)
  BY <1>1, <1>5 DEF AnswerChallenge, Attempts, Chooses
<1>6. ASSUME NEW m \in toClient, ReceiveAccept(b, m)
      PROVE  (\A a \in Addrs \ {b} : cli'[a] = cli[a]) /\ GetsIn(b)
  <2>1. Promised(b, m.chal, m.ip)
    BY <1>6 DEF ReceiveAccept, ServerInv, PacketInv
  <2>2. \A a \in Addrs \ {b} : cli'[a] = cli[a]
    BY <1>1, <1>6 DEF ReceiveAccept
  <2>3. cli'[b].st = "connected" /\ cli'[b].chal = cli[b].chal /\ cli'[b].ip = m.ip
    BY <1>1, <1>6 DEF ReceiveAccept, Attempts
  <2> QED BY <2>1, <2>2, <2>3 DEF Promised, GetsIn
<1> QED BY <1>2, <1>3, <1>4, <1>5, <1>6 DEF Client

(* Steps of everybody else leave the clients alone.                        *)
LEMMA ClientsStay ==
    ASSUME ServerInv, [Next]_vars, \A b \in Addrs : ~Client(b)
    PROVE  UNCHANGED cli
BY DEF Next, vars, serverVars, Revoke, Dispatch, Lose, DispatchHello, DispatchUnknown, DispatchAuth, DispatchData,
       DispatchKeepalive, DispatchDisconnect, Handshake, WaiterDrops, ReceiveAuth, WaitTimesOut, AddSession, Background

(* A choice is made when an answer is sent.                                *)
LEMMA NothingChosenStays == ServerInv /\ NothingChosen /\ [Next]_vars => NothingChosen'
<1> SUFFICES ASSUME ServerInv, NothingChosen, [Next]_vars PROVE NothingChosen'
  OBVIOUS
<1>1. ASSUME NEW b \in Addrs, Client(b) PROVE NothingChosen'
  BY <1>1, ClientMoves DEF NothingChosen, Stays, Chooses, GetsIn
<1>2. CASE \A b \in Addrs : ~Client(b)
  BY <1>2, ClientsStay DEF NothingChosen
<1> QED BY <1>1, <1>2

(* Each step is one of the handshake of every attempt, or none of it.      *)
LEMMA StepsAgree ==
    ASSUME ServerInv, ServerInv', NothingChosen, PromisesKept, [Next]_vars, NEW a \in Addrs
    PROVE  [Agreed(a)!AgreementNext]_(Agreed(a)!agreementVars)
<1> DEFINE off  == {c \in Callers : cli[a].chal = c}
           acc  == {c \in Callers : assigned[c] # ZeroIP /\ hs[c].addr = a}
           in   == cli[a].ip # ZeroIP
<1>1. acc \subseteq acc' /\ acc \subseteq off /\ acc' \subseteq off'
  <2>1. acc \subseteq acc'
    BY DEF PromisesKept
  <2>2. acc \subseteq off
    BY DEF ServerInv, HandshakeInv, Chosen
  <2>3. acc' \subseteq off'
    BY DEF ServerInv, HandshakeInv, Chosen
  <2> QED BY <2>1, <2>2, <2>3
<1>2. off = {} \/ \E c \in Callers : off = {c}
  OBVIOUS
<1>3. off' = {} \/ \E c \in Callers : off' = {c}
  OBVIOUS
<1>4. CASE cli'[a] = cli[a]
  <2>1. off' = off /\ in' = in
    BY <1>4
  <2>2. CASE acc' = acc
    BY <2>1, <2>2 DEF Agreed!agreementVars
  <2>3. CASE acc' # acc
    <3>1. acc = {} /\ acc' = off /\ off # {}
      <4> HIDE DEF off, acc, in
      <4> QED BY <1>1, <1>2, <2>1, <2>3
    <3> QED BY <2>1, <3>1 DEF Agreed!AgreementNext, Agreed!Accepts
  <2> QED BY <2>2, <2>3
<1>5. CASE cli'[a] # cli[a]
  <2>1. PICK b \in Addrs : Client(b)
    BY <1>5, ClientsStay
  <2>2. b = a /\ acc' = acc /\ (Stays(a) \/ Chooses(a) \/ GetsIn(a))
    BY <1>5, <2>1, ClientMoves
  <2>3. CASE Stays(a)
    BY <2>2, <2>3 DEF Stays, Agreed!agreementVars
  <2>4. CASE Chooses(a)
    <3>1. off = {} /\ in' = in
      BY <2>4, ManagerAssumption DEF Chooses, NothingChosen, ManagerAssumption
    <3>2. CASE off' = {}
      BY <2>2, <3>1, <3>2 DEF Agreed!agreementVars
    <3>3. CASE off' # {}
      BY <1>3, <2>2, <3>1, <3>3 DEF Agreed!AgreementNext, Agreed!Offers
    <3> QED BY <3>2, <3>3
  <2>5. CASE GetsIn(a)
    <3>1. acc # {} /\ off' = off /\ in' = TRUE
      BY <2>5 DEF GetsIn
    <3> QED BY <2>2, <3>1 DEF Agreed!AgreementNext, Agreed!Joins
  <2> QED BY <2>2, <2>3, <2>4, <2>5
<1> QED BY <1>4, <1>5

(* AttemptsAgree: whatever the network does to the packets and however     *)
(* many goroutines a HELLO has started, every attempt goes through one     *)
(* handshake (handshake.go: ServerHandshake, ClientHandshake).             *)
THEOREM ServerAgrees == Spec => AttemptsAgree
<1>1. Init => NothingChosen /\ \A a \in Addrs : Agreed(a)!AgreementInit
  BY ManagerAssumption DEF Init, ManagerInit, ManagerAssumption, NothingChosen, Agreed!AgreementInit
<1>2. ServerInv /\ NothingChosen /\ [Next]_vars
        => [\A a \in Addrs : [Agreed(a)!AgreementNext]_(Agreed(a)!agreementVars)]_vars
  BY ServerStep, StepsAgree
<1> QED BY <1>1, <1>2, ServerInvariant, NothingChosenStays, PTL DEF Spec, AttemptsAgree

(* The maps, the pool, the counters and the packets keep their types.      *)
THEOREM ServerTypeOK == Spec => []TypeOK
<1>1. ServerInv => TypeOK
  BY DEF ServerInv
<1>2. QED
  BY <1>1, ServerInvariant, PTL

(* No two handshakes or sessions of the server share a virtual IP.         *)
THEOREM ServerUniqueIPs == Spec => []UniqueIPs
<1>1. ServerInv => UniqueIPs
  BY DEF ServerInv, ManagerInv
<1>2. QED
  BY <1>1, ServerInvariant, PTL

(* No lookup returns a session that Remove has taken out of the table.     *)
THEOREM ServerIndexesLive == Spec => []IndexesLive
<1>1. ServerInv => IndexesLive
  BY DEF ServerInv, ManagerInv
<1>2. QED
  BY <1>1, ServerInvariant, PTL

(* The server's session holds the key its client derived, and the client   *)
(* the address it was assigned, however HELLOs and AUTHs are repeated.     *)
THEOREM ServerKeyAgreement == Spec => []KeyAgreement
<1>1. ServerInv => KeyAgreement
  <2> SUFFICES ASSUME ServerInv PROVE KeyAgreement
    OBVIOUS
  <2> USE DEF ServerInv
  <2>1. ASSUME NEW c \in sessions \cup Accepting PROVE cli[hs[c].addr].chal = c
    <3>1. c \in Callers /\ assigned[c] # ZeroIP
      BY <2>1 DEF Accepting, HandshakeInv, ManagerInv, ManagerTypeOK, TableSound
    <3>2. QED
      BY <3>1 DEF HandshakeInv, Chosen
  <2>2. ASSUME NEW a \in Addrs, cli[a].st = "connected"
        PROVE  /\ hs[cli[a].chal].addr = a
               /\ hs[cli[a].chal].st \in {"accepted", "added"}
               /\ assigned[cli[a].chal] = cli[a].ip
    <3>1. Promised(a, cli[a].chal, cli[a].ip)
      BY <2>2 DEF PacketInv
    <3>2. QED
      BY <3>1 DEF Promised, HandshakeInv
  <2>3. QED
    BY <2>1, <2>2 DEF KeyAgreement
<1>2. QED
  BY <1>1, ServerInvariant, PTL

(* A session begins in a goroutine that has accepted an AUTH, and an AUTH  *)
(* is accepted from the goroutine's own peer while its token is good.      *)
LEMMA SessionsBegin ==
    ASSUME ServerInv, [Next]_vars, NEW c \in Callers
    PROVE  /\ c \in sessions' => c \in sessions \/ hs[c].st = "accepted"
           /\ hs'[c].st = "accepted" => hs[c].st = "accepted" \/ TokenAccepted(hs[c].addr)
           /\ hs'[c].addr # hs[c].addr => hs'[c].st = "waiting" /\ c \notin sessions'
<1> DEFINE Begun == /\ c \in sessions' => c \in sessions \/ hs[c].st = "accepted"
                    /\ hs'[c].st = "accepted" => hs[c].st = "accepted" \/ TokenAccepted(hs[c].addr)
                    /\ hs'[c].addr # hs[c].addr => hs'[c].st = "waiting" /\ c \notin sessions'
<1>0. TypeOK /\ hs \in [Callers -> Handshakes]
  BY DEF ServerInv, TypeOK
<1>1. hs[c].st = "unused" => c \notin sessions
  <2>1. c \in sessions => assigned[c] # ZeroIP
    BY DEF ServerInv, ManagerInv, TableSound
  <2> QED BY <2>1 DEF ServerInv, HandshakeInv
<1>2. CASE UNCHANGED hs /\ sessions' \subseteq sessions
  BY <1>2
<1>3. ASSUME NEW a \in Addrs, Client(a) \/ Revoke(a) PROVE UNCHANGED <<hs, sessions>>
  BY <1>3 DEF Client, Revoke, SendHello, AnswerChallenge, ReceiveAccept, ClientDrops, ClientGivesUp, ClientSends,
              ClientDisconnects, managerVars, tableVars
<1>4. CASE Background
  BY <1>2, <1>4 DEF Background, serverVars, SweepScan, FallsSilent, SweepRemove, TimePassed, Evict, tableVars
<1>5. ASSUME NEW m \in toServer, Dispatch(m) \/ Lose(m) PROVE Begun
  <2>1. ASSUME NEW d \in Callers, DispatchHello(m, d) PROVE Begun
    <3>1. sessions' = sessions
      BY <2>1 DEF DispatchHello, managerVars, tableVars
    <3>2. CASE hs' = hs
      BY <1>2, <3>1, <3>2
    <3>3. CASE hs[d].st = "unused" /\ hs' = [hs EXCEPT ![d] = [st |-> "waiting", addr |-> m.from]]
      <4>1. CASE d = c
        BY <1>0, <1>1, <3>1, <3>3, <4>1
      <4>2. CASE d # c
        BY <1>0, <3>1, <3>3, <4>2
      <4> QED BY <4>1, <4>2
    <3> QED BY <2>1, <3>2, <3>3 DEF DispatchHello
  <2>2. CASE \A d \in Callers : ~DispatchHello(m, d)
    <3>1. UNCHANGED hs
      BY <1>5, <2>2 DEF Dispatch, Lose, DispatchUnknown, DispatchAuth, DispatchData, DispatchKeepalive,
                        DispatchDisconnect
    <3>2. sessions' \subseteq sessions
      BY <1>5, <2>2 DEF Dispatch, Lose, DispatchUnknown, DispatchAuth, DispatchData, DispatchKeepalive,
                        DispatchDisconnect, Touch, Remove, Evict, managerVars, tableVars
    <3> QED BY <1>2, <3>1, <3>2
  <2> QED BY <2>1, <2>2
<1>6. ASSUME NEW d \in Callers, Handshake(d) PROVE Begun
  <2>1. ASSUME NEW m \in toServer, WaiterDrops(d, m) PROVE Begun
    BY <1>2, <2>1 DEF WaiterDrops, managerVars, tableVars
  <2>2. CASE Fail(d)
    <3>1. sessions' = sessions /\ hs' = [hs EXCEPT ![d].st = "failed"]
      BY <2>2 DEF Fail, RecordFailure, tableVars
    <3> QED BY <1>0, <3>1
  <2>3. ASSUME NEW m \in toServer, ReceiveAuth(d, m) PROVE Begun
    <3>1. CASE TokenAccepted(m.from) /\ AssignIP(d) /\ hs' = [hs EXCEPT ![d].st = "accepted"]
      <4>1. sessions' = sessions /\ m.from = hs[d].addr
        BY <2>3, <3>1 DEF ReceiveAuth, AssignIP, tableVars
      <4> QED BY <1>0, <3>1, <4>1
    <3> QED BY <2>2, <2>3, <3>1 DEF ReceiveAuth
  <2>4. CASE AddSession(d)
    <3>1. /\ hs[d].st = "accepted" /\ hs' = [hs EXCEPT ![d].st = "added"]
          /\ sessions' = sessions \cup {d}
      BY <2>4 DEF AddSession, Add
    <3> QED BY <1>0, <3>1
  <2> QED BY <1>6, <2>1, <2>2, <2>3, <2>4 DEF Handshake, WaitTimesOut
<1>7. CASE UNCHANGED vars
  BY <1>2, <1>7 DEF vars, serverVars, managerVars, tableVars
<1> HIDE DEF Begun
<1>8. Begun
  <2>1. ASSUME UNCHANGED <<hs, sessions>> PROVE Begun
    BY <2>1 DEF Begun
  <2> QED BY <1>3, <1>4, <1>5, <1>6, <1>7, <2>1 DEF Next, Begun
<1> QED BY <1>8 DEF Begun

(* A client that is outside stays there, whatever packets of it are still  *)
(* under way or repeated (handshake.go: validateToken; main.go: Add).      *)
THEOREM ServerKeepsOut == Spec => RevokedStaysOut
<1>1. ASSUME ServerInv, [Next]_vars, NEW a \in Addrs, Outside(a) PROVE Outside(a)'
  <2>1. issued' \ revoked' \subseteq issued \ revoked
    BY <1>1 DEF Next, vars, serverVars, tokens, Client, Revoke, SendHello, AnswerChallenge, ReceiveAccept, ClientDrops,
                ClientGivesUp, ClientSends, ClientDisconnects, Dispatch, Lose, DispatchHello, DispatchUnknown,
                DispatchAuth, DispatchData, DispatchKeepalive, DispatchDisconnect, Handshake, WaiterDrops,
                ReceiveAuth, WaitTimesOut, AddSession, Background
  <2>2. ASSUME NEW c \in Callers, hs'[c].addr = a PROVE hs'[c].st # "accepted" /\ c \notin sessions'
    BY <1>1, <2>2, SessionsBegin DEF Outside, TokenAccepted
  <2> QED BY <1>1, <2>1, <2>2 DEF Outside
<1> DEFINE StayOut == \A a \in Addrs : Outside(a) => Outside(a)'
<1>2. ServerInv /\ [Next]_vars => [StayOut]_vars
  BY <1>1
<1> HIDE DEF StayOut
<1>3. [][StayOut]_vars => RevokedStaysOut
  BY PTL DEF RevokedStaysOut, StayOut
<1> QED BY <1>2, <1>3, ServerInvariant, PTL DEF Spec

(* An attempt takes at most one address and has at most one session,       *)
(* because its client takes up one challenge and no other can be answered. *)
THEOREM ServerOneSession == Spec => []OneSessionPerAttempt
<1>1. ServerInv => OneSessionPerAttempt
  <2> SUFFICES ASSUME ServerInv, NEW c \in Callers, NEW d \in Callers,
                      assigned[c] # ZeroIP, assigned[d] # ZeroIP, hs[c].addr = hs[d].addr
               PROVE  c = d
    BY DEF OneSessionPerAttempt
  <2>1. Chosen(hs[c].addr, c) /\ Chosen(hs[d].addr, d)
    BY DEF ServerInv, HandshakeInv
  <2>2. QED
    BY <2>1 DEF Chosen
<1>2. QED
  BY <1>1, ServerInvariant, PTL
=============================================================================
