----------------------------- MODULE Obfuscation -----------------------------
(***************************************************************************)
(* obfuscate and deobfuscate (core/transport): what travels for a packet.  *)
(* The wire form is the length of the padding, the padding and the packet, *)
(* masked with a key that both ends have when HeaderXOR is set.  A byte is *)
(* a number below Bytes, a power of two.                                   *)
(***************************************************************************)
EXTENDS Naturals, Sequences

CONSTANTS Bytes,            \* values of a byte, 256 in the code
          ByteXor(_, _),    \* the exclusive or of two bytes
          Key,              \* obfsKey, 32 bytes in the code
          MaxLen,           \* bound: length of a packet
          PaddingMaxBytes   \* of the configuration

Byte       == 0..(Bytes - 1)
Strings(n) == UNION {[1..k -> Byte] : k \in 0..n}

ASSUME ObfuscationAssumption ==
    /\ Bytes \in Nat \ {0} /\ MaxLen \in Nat
    /\ \A a, b \in Byte : ByteXor(a, b) \in Byte /\ ByteXor(ByteXor(a, b), b) = a
    /\ Key \in Seq(Byte) /\ Key # <<>>
    /\ PaddingMaxBytes \in Nat /\ PaddingMaxBytes < Bytes     \* transport.go:54

Mask(s) == [i \in 1..Len(s) |-> ByteXor(s[i], Key[((i - 1) % Len(Key)) + 1])]

XOR(s, headerXOR) == IF headerXOR THEN Mask(s) ELSE s

(* The length of the padding has to fit its byte.                          *)
Obfuscated(s, pad, headerXOR) == <<Len(pad) % Bytes>> \o pad \o XOR(s, headerXOR)

(* A datagram that is not well formed is dropped by readLoop.              *)
WellFormed(w) == Len(w) >= 1 /\ Len(w) >= 1 + w[1]

Payload(w, headerXOR) == XOR(SubSeq(w, 2 + w[1], Len(w)), headerXOR)

(* From one end to the other, each with the ObfuscationConfig it has: an   *)
(* end whose obfuscation is not enabled sends and takes packets as they    *)
(* are.  What deobfuscate refuses is dropped.                              *)
Through(from, to, pkt, pad) ==
    LET w == IF from.enabled THEN Obfuscated(pkt, pad, from.headerXOR) ELSE pkt
    IN  IF ~to.enabled THEN w
        ELSE IF WellFormed(w) THEN Payload(w, to.headerXOR) ELSE <<>>

ObfuscationConfigs == [enabled : BOOLEAN, headerXOR : BOOLEAN]

(* The obfuscation of every client that gives options, and of one that     *)
(* gives none.                                                             *)
DefaultClientConfig == [enabled |-> TRUE, headerXOR |-> TRUE]
NoOptions           == [enabled |-> FALSE, headerXOR |-> FALSE]

(* Whatever the packet, the padding, its bytes and the configuration, if   *)
(* it is the same at both ends, the packet arrives as it was, and no       *)
(* datagram is refused.                                                    *)
RoundTrip ==
    \A s \in Strings(MaxLen), pad \in Strings(PaddingMaxBytes), cfg \in ObfuscationConfigs :
        /\ Through(cfg, cfg, s, pad) = s
        /\ cfg.enabled => WellFormed(Obfuscated(s, pad, cfg.headerXOR))
=============================================================================
