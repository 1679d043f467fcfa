----------------------------- MODULE KeyExchange -----------------------------
(***************************************************************************)
(* What the four messages of a handshake carry (core/handshake over        *)
(* core/encryption), byte by byte through Codec, and the first DATA packet *)
(* of the session.  Server has the protocol with its many handshakes and   *)
(* its lost packets; here there is one, whose packets the network may      *)
(* damage: cut short, or with a byte changed.                              *)
(*                                                                         *)
(* X25519 is a small group, so that both ends really compute their secret; *)
(* HKDF, HMAC and the AEAD are the free constructors they are relied on to *)
(* be.  Random numbers come from small sets.                               *)
(***************************************************************************)
EXTENDS Codec

CONSTANTS Prime, Base,      \* the group
          Scalars,          \* random private keys
          Challenges, Tokens, IPPackets,
          Clocks,           \* what the two clocks may show
          Tolerance,        \* protocol.ReplayTimestampTolerance
          ClientObfs, ServerObfs,   \* the ObfuscationConfig of either end
          MaxDamage         \* bound: packets damaged

VARIABLES client, server,   \* what either end knows, and where it is
          wire,             \* the packet under way, or <<>>
          sent,             \* history: the header it was built from
          damage            \* history: packets damaged so far

kxVars == <<client, server, wire, sent, damage>>

TypeHello == 1   TypeChallenge == 2   TypeAuth == 3   TypeAccept == 4   TypeData == 5
MTU       == 13
SessionID == 7
VirtualIP == <<1, 0, 3, 2>>

ASSUME KxAssumption ==
    /\ KeySize \in Nat /\ Challenges \subseteq Seq(Byte)
    /\ TypeData < Bytes
    /\ \A ip \in IPPackets : ip \in Seq(Byte) /\ Len(ip) < Span16
    /\ \A t \in Clocks : t \in Int /\ 0 - (Span64 \div 2) <= t /\ t < Span64 \div 2
    /\ Tolerance \in Nat /\ Tolerance < Span64 \div 2
-----------------------------------------------------------------------------
(* GenerateKeyPair clears the low bits and the top bit of a scalar and     *)
(* sets the bit below.                                                     *)
Half     == Bytes^KeySize \div 2
Clamp(k) == Half + ((k % Half) \div 2) * 2

Power(b, n)   == FoldLeft(LAMBDA x, i : (x * b) % Prime, 1, [i \in 1..n |-> i])
ToBytes(x)    == [i \in 1..KeySize |-> (x \div Bytes^(KeySize - i)) % Bytes]
FromBytes(b)  == FoldLeft(LAMBDA x, byte : x * Bytes + byte, 0, b)
Public(priv)  == ToBytes(Power(Base, priv))
SharedSecret(priv, pub) == Power(FromBytes(pub) % Prime, priv)   \* 0, which is refused, of a low order point

DeriveSessionKey(secret, salt) == [secret |-> secret, salt |-> salt]

HMACSign(key, message) == <<[mac |-> key, of |-> message]>>

DeriveNonce(sessionID, seq) == PutUint32(sessionID) \o PutUint64(seq)

(* Every cipher but AES is ChaCha20.                                       *)
NewSession(key, sessionID, cipher) ==
    [key |-> key, id |-> sessionID, cipher |-> IF cipher = "aes" THEN "aes" ELSE "chacha20"]

Sealed(sess, seq, plain, ad) ==
    <<[by |-> sess, nonce |-> DeriveNonce(sess.id, seq), plain |-> plain, ad |-> ad]>>

Opens(sess, seq, ct, ad) == /\ Len(ct) = 1 /\ "by" \in DOMAIN ct[1]
                            /\ ct[1].by = sess /\ ct[1].nonce = DeriveNonce(sess.id, seq)
                            /\ ct[1].ad = ad
-----------------------------------------------------------------------------
KxInit == /\ client = [at |-> "hello"] /\ server = [at |-> "hello"]
          /\ wire = <<>> /\ sent = [type |-> 0] /\ damage = 0

(* What the server makes of a HELLO, whose first bytes tell it whether the *)
(* two configurations go together.                                         *)
Understood == \A pad \in Strings(1) : Through(ClientObfs, ServerObfs, wire, pad) = wire

ToServer == {TypeHello, TypeAuth, TypeData}

Arrived(type) == /\ wire # <<>> /\ (type \in ToServer <=> sent.type \in ToServer)
                 /\ ~IsErr(DecodeHeader(wire)) /\ DecodeHeader(wire).type = type

Puts(h, body) == wire' = BuildPacket(h, body) /\ sent' = h

ServerResult(key, auth) == [at |-> "accepted", token |-> auth.token[1].plain,
                            session |-> NewSession(key, SessionID, "chacha20")]
ClientResult(key, token, ap) == [at |-> "connected", token |-> token, ip |-> ap.virtualIP, mtu |-> ap.mtu,
                                 session |-> NewSession(key, ap.sessionID, "chacha20")]

(* The client that has sent a frame, and the server that has seen to one.  *)
HasSent(ip, t)     == [at |-> "sent", token |-> client.token, ip |-> client.ip, mtu |-> client.mtu,
                       session |-> client.session, frame |-> ip, time |-> t]
HasSeen(tun, now)  == [at |-> "idle", token |-> server.token, session |-> server.session,
                       tun |-> tun, clock |-> now]

Fails(end) == [at |-> "failed", was |-> end]

SendHello ==
    /\ client.at = "hello"
    /\ \E k \in Scalars, t \in Clocks :
          /\ client' = [at |-> "challenge", priv |-> Clamp(k)]
          /\ Puts(NewHeader(TypeHello, 0, 0, t), EncodeHello(Public(Clamp(k))))
    /\ UNCHANGED <<server, damage>>

(* CHALLENGE is on its way before the key is computed.                     *)
ReceiveHello ==
    /\ server.at = "hello" /\ Arrived(TypeHello) /\ Understood
    /\ LET hello == DecodeHello(Body(wire))
       IN  \/ /\ ~IsErr(hello)
              /\ \E k \in Scalars, ch \in Challenges :
                    LET secret == SharedSecret(Clamp(k), hello.pub)
                    IN  /\ server' = IF secret = 0 THEN Fails(server)
                                     ELSE [at |-> "auth", challenge |-> ch,
                                           key |-> DeriveSessionKey(secret, ch)]
                        /\ Puts(NewHeader(TypeChallenge, 0, 0, 0), EncodeChallenge(Public(Clamp(k)), ch))
           \/ /\ IsErr(hello)
              /\ server' = Fails(server) /\ wire' = <<>> /\ UNCHANGED sent
    /\ UNCHANGED <<client, damage>>

ReceiveChallenge ==
    /\ client.at = "challenge" /\ Arrived(TypeChallenge)
    /\ LET cp     == DecodeChallenge(Body(wire))
           secret == SharedSecret(client.priv, cp.pub)
           key    == DeriveSessionKey(secret, cp.challenge)
       IN  \/ /\ ~IsErr(cp) /\ secret # 0
              /\ \E token \in Tokens :
                    LET enc == Sealed(NewSession(key, 0, "chacha20"), 0, token, cp.challenge)
                    IN  /\ client' = [at |-> "accept", key |-> key, token |-> token]
                        /\ Puts(NewHeader(TypeAuth, 0, 0, 0),
                                EncodeAuth(HMACSign(key, cp.challenge \o enc), enc))
           \/ /\ ~ (~IsErr(cp) /\ secret # 0)
              /\ client' = Fails(client) /\ wire' = <<>> /\ UNCHANGED sent
    /\ UNCHANGED <<server, damage>>

(* ServerHandshake from step 5 on; what validateToken and assignIP do is   *)
(* in Server.                                                              *)
ReceiveAuth ==
    /\ server.at = "auth" /\ Arrived(TypeAuth)
    /\ LET auth == DecodeAuth(Body(wire))
           tmp  == NewSession(server.key, 0, "chacha20")
       IN  \/ /\ ~IsErr(auth)
              /\ auth.hmac = HMACSign(server.key, server.challenge \o auth.token)
              /\ Opens(tmp, 0, auth.token, server.challenge)
              /\ server' = ServerResult(server.key, auth)
              /\ Puts(NewHeader(TypeAccept, SessionID, 0, 0), EncodeAccept(SessionID, VirtualIP, MTU))
           \/ /\ ~ ( /\ ~IsErr(auth)
                     /\ auth.hmac = HMACSign(server.key, server.challenge \o auth.token)
                     /\ Opens(tmp, 0, auth.token, server.challenge) )
              /\ server' = Fails(server) /\ wire' = <<>> /\ UNCHANGED sent
    /\ UNCHANGED <<client, damage>>

ReceiveAccept ==
    /\ client.at = "accept" /\ Arrived(TypeAccept)
    /\ LET ap == DecodeAccept(Body(wire))
       IN  client' = IF IsErr(ap) THEN Fails(client) ELSE ClientResult(client.key, client.token, ap)
    /\ wire' = <<>>
    /\ UNCHANGED <<server, sent, damage>>

(* The client's first IP packet, when its clock shows t.                   *)
SendFrame ==
    /\ client.at = "connected"
    /\ \E ip \in IPPackets, t \in Clocks :
          LET h == NewHeader(TypeData, client.session.id, 0, t)
          IN  /\ client' = HasSent(ip, t)
              /\ Puts(h, Sealed(client.session, 0, Framed(ip), EncodeHeader(h)))
    /\ UNCHANGED <<server, damage>>

(* handleInbound, when the server's clock shows now.                       *)
ReceiveFrame ==
    /\ server.at = "accepted" /\ Arrived(TypeData)
    /\ \E now \in Clocks :
          LET h    == DecodeHeader(wire)
              ad   == SubSeq(wire, 1, HeaderSize)
              fine == Timely(now, h.time, Tolerance) /\ Opens(server.session, h.seq, Body(wire), ad)
          IN  server' = HasSeen(IF fine THEN Unframed(Body(wire)[1].plain) ELSE TooShort, now)
    /\ wire' = <<>>
    /\ UNCHANGED <<client, sent, damage>>

(* Whoever waits for a type drops everything else; its timer runs out.     *)
Drop == /\ wire # <<>>
        /\ \/ \A type \in TypeHello..TypeData : ~Arrived(type)
           \/ Arrived(TypeHello) /\ ~Understood
        /\ wire' = <<>>
        /\ UNCHANGED <<client, server, sent, damage>>

WaitsEnd == \/ /\ client.at \in {"challenge", "accept"} /\ client' = Fails(client)
               /\ UNCHANGED <<server, wire, sent, damage>>
            \/ /\ server.at = "auth" /\ server' = Fails(server)
               /\ UNCHANGED <<client, wire, sent, damage>>

(* The network: any byte of the header, the first of the body, or the end. *)
Damage == /\ wire # <<>> /\ damage < MaxDamage
          /\ \/ \E n \in {1, HeaderSize - 1, HeaderSize, Len(wire) - 1} :
                   n < Len(wire) /\ wire' = SubSeq(wire, 1, n)
             \/ \E i \in {2, 6, 14, 22, HeaderSize + 1} :
                   /\ i <= Len(wire)
                   /\ wire' = [wire EXCEPT ![i] = IF i > HeaderSize /\ sent.type \in {TypeAuth, TypeData}
                                                 THEN [noise |-> TRUE] ELSE (@ + 1) % Bytes]
          /\ damage' = damage + 1
          /\ UNCHANGED <<client, server, sent>>

KxNext == \/ SendHello \/ ReceiveHello \/ ReceiveChallenge \/ ReceiveAuth \/ ReceiveAccept
          \/ SendFrame \/ ReceiveFrame \/ Drop \/ WaitsEnd \/ Damage

KxSpec == KxInit /\ [][KxNext]_kxVars
-----------------------------------------------------------------------------
(* Two ends that are through the handshake have the same session, and each *)
(* has what the other meant it to have: the server the client's token, the *)
(* client its address and MTU; and no damage to HELLO, CHALLENGE or AUTH   *)
(* gets an end through with another key.                                   *)
ExchangeAgrees ==
    /\ "session" \in DOMAIN server /\ "key" \in DOMAIN client =>
           server.session.key = client.key /\ server.token = client.token
    /\ "session" \in DOMAIN client /\ damage = 0 =>
           /\ client.session = server.session /\ server.token = client.token
           /\ client.ip = VirtualIP /\ client.mtu = MTU

(* Whatever is damaged, and also when the client has given up meanwhile,   *)
(* the server accepts no other key and token than the client has answered  *)
(* its CHALLENGE with, and the client is through only after that.          *)
Answered(end) == IF end.at = "failed" THEN end.was ELSE end

OfferMade     == LET c == Answered(client)
                 IN  IF "key" \in DOMAIN c THEN {[key |-> c.key, token |-> c.token]}
                     ELSE IF "session" \in DOMAIN c THEN {[key |-> c.session.key, token |-> c.token]}
                     ELSE {}
OfferAccepted == IF "session" \in DOMAIN server
                 THEN {[key |-> server.session.key, token |-> server.token]} ELSE {}

Agreed == INSTANCE Agreement WITH offered <- OfferMade, accepted <- OfferAccepted,
                                  joined <- "session" \in DOMAIN client

ImplementsAgreement == Agreed!AgreementSpec

(* What is on the wire undamaged decodes to the header it was built from,  *)
(* at the ends of every field's range, and would come through obfuscation  *)
(* as it is whatever its bytes and its padding.                            *)
WireIsReadable == wire # <<>> /\ damage = 0 => DecodeHeader(wire) = sent /\ RoundTrip

(* client/desktop/main.go:180 and config.go:102: the obfuscation settings  *)
(* of a client match the server's: it can read the client's HELLO.         *)
HelloIsRead == wire # <<>> /\ damage = 0 /\ sent.type = TypeHello => Understood

(* The first IP packet of a session is written to the server's device as   *)
(* it was read from the client's, unless it was damaged or the clocks      *)
(* differ by more than the tolerance: and then it is not, as long as their *)
(* difference fits an int64.                                               *)
Skew == IF server.clock < client.time THEN client.time - server.clock ELSE server.clock - client.time

FrameArrives ==
    "tun" \in DOMAIN server /\ "frame" \in DOMAIN client =>
        /\ damage = 0 /\ Skew <= Tolerance => ~IsErr(server.tun)
        /\ ~IsErr(server.tun) /\ Skew < Span64 \div 2 => Skew <= Tolerance
        /\ ~IsErr(server.tun) => server.tun.ip = client.frame
=============================================================================
