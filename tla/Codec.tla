-------------------------------- MODULE Codec --------------------------------
(***************************************************************************)
(* The wire format (shared/protocol): the header of every packet, the      *)
(* payloads of the handshake, and the length that precedes an IP packet in *)
(* a DATA payload.  A byte has Bytes values (Obfuscation), so that a field *)
(* of eight bytes fits TLC's integers; fields have the widths of the code, *)
(* but for keys and challenges, which have KeySize and ChallengeSize bytes, *)
(* and HMACs, which are a single symbol.                                   *)
(***************************************************************************)
EXTENDS Integers, SequencesExt, Obfuscation

CONSTANTS KeySize, ChallengeSize

Version    == 1
HeaderSize == 30
HMACSize   == 1
TooShort   == [err |-> "packet too short"]
Mismatch   == [err |-> "unsupported protocol version"]
IsErr(r)   == "err" \in DOMAIN r
-----------------------------------------------------------------------------
(* encoding/binary, big-endian: the bytes of a number of two, four or      *)
(* eight bytes, and the number that follows the first n bytes of b.  Then  *)
(* Go's conversions between int64, here Signed, and uint64.                *)
Span16 == Bytes * Bytes
Span32 == Span16 * Span16
Span64 == Span32 * Span32

PutUint16(v) == <<(v \div Bytes) % Bytes, v % Bytes>>
PutUint32(v) == PutUint16(v \div Span16) \o PutUint16(v % Span16)
PutUint64(v) == PutUint32(v \div Span32) \o PutUint32(v % Span32)

Uint16(b, n) == b[n + 1] * Bytes + b[n + 2]
Uint32(b, n) == Uint16(b, n) * Span16 + Uint16(b, n + 2)
Uint64(b, n) == Uint32(b, n) * Span32 + Uint32(b, n + 4)

Unsigned(t) == t % Span64
Signed(u)   == LET m == u % Span64 IN IF m >= Span64 \div 2 THEN m - Span64 ELSE m

NewHeader(type, sessionID, seq, now) ==
    [version |-> Version, type |-> type, sessionID |-> sessionID, seq |-> seq, time |-> now, flags |-> 0]

EncodeHeader(h) ==
    <<h.version, h.type>> \o PutUint32(h.sessionID) \o PutUint64(h.seq)
        \o PutUint64(Unsigned(h.time)) \o PutUint64(h.flags)

(* A mutant: the timestamp is read from where the sequence number is.      *)
DecodeHeaderOverlapping(b) ==
    IF Len(b) < HeaderSize THEN TooShort
    ELSE [version |-> b[1], type |-> b[2], sessionID |-> Uint32(b, 2), seq |-> Uint64(b, 6),
          time |-> Signed(Uint64(b, 13)), flags |-> Uint64(b, 22)]

DecodeHeader(b) ==
    IF Len(b) < HeaderSize THEN TooShort
    ELSE IF b[1] # Version THEN Mismatch
    ELSE [version |-> b[1], type |-> b[2], sessionID |-> Uint32(b, 2), seq |-> Uint64(b, 6),
          time |-> Signed(Uint64(b, 14)), flags |-> Uint64(b, 22)]

BuildPacket(h, ciphertext) == EncodeHeader(h) \o ciphertext
Body(pkt)    == SubSeq(pkt, HeaderSize + 1, Len(pkt))
-----------------------------------------------------------------------------
(* Each Decode takes what it needs from the front and ignores the rest,    *)
(* but for AUTH, whose token is all that follows the HMAC.                 *)
EncodeHello(pub) == pub
DecodeHello(b)   == IF Len(b) < KeySize THEN TooShort ELSE [pub |-> SubSeq(b, 1, KeySize)]

EncodeChallenge(pub, challenge) == pub \o challenge
DecodeChallenge(b) ==
    IF Len(b) < KeySize + ChallengeSize THEN TooShort
    ELSE [pub |-> SubSeq(b, 1, KeySize), challenge |-> SubSeq(b, KeySize + 1, KeySize + ChallengeSize)]

EncodeAuth(hmac, token) == hmac \o token
DecodeAuth(b) == IF Len(b) < HMACSize THEN TooShort
                 ELSE [hmac |-> SubSeq(b, 1, HMACSize), token |-> SubSeq(b, HMACSize + 1, Len(b))]

EncodeAccept(sessionID, virtualIP, mtu) == PutUint32(sessionID) \o virtualIP \o PutUint16(mtu)

(* A mutant: the address is read where the session number ends.            *)
DecodeAcceptEarly(b) ==
    IF Len(b) < 10 THEN TooShort
    ELSE [sessionID |-> Uint32(b, 0), virtualIP |-> SubSeq(b, 4, 7), mtu |-> Uint16(b, 8)]

DecodeAccept(b) ==
    IF Len(b) < 10 THEN TooShort
    ELSE [sessionID |-> Uint32(b, 0), virtualIP |-> SubSeq(b, 5, 8), mtu |-> Uint16(b, 8)]
-----------------------------------------------------------------------------
(* A DATA payload: two bytes of length, then the IP packet.  Whatever      *)
(* follows is padding; a length beyond the payload drops the packet.       *)
Framed(ip) == PutUint16(Len(ip)) \o ip

(* A mutant: the two bytes of the length are taken to be part of it.       *)
UnframedInclusive(p) ==
    IF Len(p) < 2 \/ Uint16(p, 0) > Len(p) THEN TooShort
    ELSE [ip |-> SubSeq(p, 3, Uint16(p, 0))]

Unframed(p) == IF Len(p) < 2 \/ Uint16(p, 0) + 2 > Len(p) THEN TooShort
               ELSE [ip |-> SubSeq(p, 3, 2 + Uint16(p, 0))]

(* The timestamp guard of handleInbound.  The difference wraps, and the    *)
(* absolute value of the least int64 is itself.                            *)
Abs(x) == IF x < 0 THEN Signed(0 - x) ELSE x
Timely(now, time, tolerance) == ~ Abs(Signed(now - time)) > tolerance
=============================================================================
