----------------------------- MODULE WireProofs -----------------------------
(***************************************************************************)
(* Proofs about what packets go through, for any capacity of the channels, *)
(* any traffic, any number of callers of Close; any base of a byte, any    *)
(* masking that undoes itself, any keys, tokens, packets and clocks, and   *)
(* any damage.                                                             *)
(*                                                                         *)
(* Transport: the invariant compares the queues in pairs, each in order    *)
(* and all of one below all of the next; a Close that returned is over.    *)
(* Codec and Obfuscation: what is put into a packet is read from it.       *)
(* KeyExchange: the invariant says of each packet under way what is left   *)
(* of its content, whatever was done to it, and HKDF, HMAC and the AEAD,   *)
(* as free constructors, carry that over to the end that accepts it.       *)
(***************************************************************************)
EXTENDS Transport, KeyExchange, SequenceTheorems, TLAPS

Below(s, t) == \A i \in 1..Len(s), j \in 1..Len(t) : s[i] < t[j]
UpTo(s, n)  == \A i \in 1..Len(s) : s[i] <= n

ConnTypeOK == /\ arrived \in Nat /\ queued \in Nat /\ hand \in Nat
              /\ inDrops \in Nat /\ outDrops \in Nat /\ refused \in Nat
              /\ socket \in Seq(Nat \ {0}) /\ recv \in Seq(Nat \ {0}) /\ taken \in Seq(Nat \ {0})
              /\ send \in Seq(Nat \ {0}) /\ written \in Seq(Nat \ {0})
              /\ writer \in {"none", "select", "write", "ended"}

(* Both goroutines start together.                                         *)
Started == reader = "none" => writer = "none"

InOrder == /\ Increasing(socket) /\ Increasing(recv) /\ Increasing(taken)
           /\ Below(taken, recv) /\ Below(taken, socket) /\ Below(recv, socket)
           /\ UpTo(socket, arrived) /\ UpTo(recv, arrived) /\ UpTo(taken, arrived)

(* writeLoop has a packet in hand exactly while it writes one.             *)
OutOrder == /\ Increasing(send) /\ Increasing(written)
            /\ Below(written, send)
            /\ UpTo(send, queued) /\ UpTo(written, queued)
            /\ writer = "write" <=> hand # 0
            /\ hand # 0 => /\ hand <= queued
                           /\ \A i \in 1..Len(written) : written[i] < hand
                           /\ \A i \in 1..Len(send) : hand < send[i]

InHand  == IF hand # 0 THEN 1 ELSE 0
Counted == arrived + queued = Len(socket) + Len(recv) + Len(taken) + Len(send) + InHand
                              + Len(written) + inDrops + outDrops + refused

ConnInv == ConnTypeOK /\ Started /\ InOrder /\ OutOrder /\ Counted
-----------------------------------------------------------------------------
(* What Append and Tail do to the order of sequences.                      *)
LEMMA AppendInOrder ==
    ASSUME NEW s \in Seq(Nat \ {0}), NEW n \in Nat \ {0}, Increasing(s), \A i \in 1..Len(s) : s[i] < n
    PROVE  Increasing(Append(s, n))
BY DEF Increasing

(* The tail of a queue is its elements but for the first.                  *)
LEMMA TailInOrder ==
    ASSUME NEW s \in Seq(Nat \ {0}), s # <<>>
    PROVE  /\ Head(s) \in Nat \ {0} /\ Tail(s) \in Seq(Nat \ {0}) /\ Len(Tail(s)) = Len(s) - 1
           /\ Len(s) > 0
           /\ Head(s) = s[1]
           /\ \A i \in 1..Len(Tail(s)) : Tail(s)[i] = s[i + 1] /\ i + 1 \in 1..Len(s)
           /\ Increasing(s) => Increasing(Tail(s)) /\ \A i \in 1..Len(Tail(s)) : Head(s) < Tail(s)[i]
           /\ \A n : UpTo(s, n) => UpTo(Tail(s), n) /\ Head(s) <= n
<1>1. /\ Head(s) \in Nat \ {0} /\ Tail(s) \in Seq(Nat \ {0}) /\ Len(Tail(s)) = Len(s) - 1
      /\ Len(s) > 0 /\ Len(s) \in Nat
      /\ Head(s) = s[1]
  OBVIOUS
<1>2. \A i \in 1..Len(Tail(s)) : Tail(s)[i] = s[i + 1] /\ i + 1 \in 1..Len(s)
  BY <1>1
<1>3. Increasing(s) => Increasing(Tail(s)) /\ \A i \in 1..Len(Tail(s)) : Head(s) < Tail(s)[i]
  BY <1>1, <1>2 DEF Increasing
<1>4. \A n : UpTo(s, n) => UpTo(Tail(s), n) /\ Head(s) <= n
  BY <1>1, <1>2 DEF UpTo
<1> QED BY <1>1, <1>2, <1>3, <1>4

(* What was below or above a queue is below or above its tail, and its     *)
(* head.                                                                   *)
LEMMA TailBelow ==
    ASSUME NEW s \in Seq(Nat \ {0}), s # <<>>, NEW t \in Seq(Nat \ {0})
    PROVE  /\ Below(t, s) => Below(t, Tail(s)) /\ \A i \in 1..Len(t) : t[i] < Head(s)
           /\ Below(s, t) => Below(Tail(s), t) /\ \A i \in 1..Len(t) : Head(s) < t[i]
<1>1. 1 \in 1..Len(s) BY TailInOrder
<1> QED BY <1>1, TailInOrder DEF Below

(* A packet is appended between two queues.                                *)
LEMMA AppendBelow ==
    ASSUME NEW s \in Seq(Nat \ {0}), NEW t \in Seq(Nat \ {0}), NEW n \in Nat \ {0}
    PROVE  /\ Below(s, t) /\ (\A i \in 1..Len(t) : n < t[i]) => Below(Append(s, n), t)
           /\ Below(t, s) /\ (\A i \in 1..Len(t) : t[i] < n) => Below(t, Append(s, n))
<1> DEFINE r == Append(s, n)
<1>1. ASSUME NEW i \in 1..Len(r) PROVE r[i] = n \/ (i \in 1..Len(s) /\ r[i] = s[i])
  <2>1. Len(s) \in Nat /\ Len(r) = Len(s) + 1 /\ r[Len(s) + 1] = n
    OBVIOUS
  <2>2. CASE i = Len(s) + 1
    BY <2>1, <2>2
  <2>3. CASE i \in 1..Len(s)
    BY <2>1, <2>3
  <2> QED BY <2>1, <2>2, <2>3
<1> HIDE DEF r
<1>2. /\ Below(s, t) /\ (\A i \in 1..Len(t) : n < t[i]) => Below(r, t)
      /\ Below(t, s) /\ (\A i \in 1..Len(t) : t[i] < n) => Below(t, r)
  BY <1>1, Zenon DEF Below
<1> QED BY <1>2 DEF r

(* A bound of a queue and of the packet appended bounds both.              *)
LEMMA AppendUpTo ==
    ASSUME NEW s \in Seq(Nat \ {0}), NEW n \in Nat \ {0}, NEW m \in Nat, UpTo(s, m), n <= m
    PROVE  UpTo(Append(s, n), m)
BY DEF UpTo

(* A bound may grow.                                                       *)
LEMMA UpToMore ==
    ASSUME NEW s \in Seq(Nat \ {0}), NEW m \in Nat, UpTo(s, m)
    PROVE  UpTo(s, m + 1) /\ \A i \in 1..Len(s) : s[i] < m + 1
BY DEF UpTo

(* Two queues in order, one below the other, are one queue in order.       *)
LEMMA ConcatInOrder ==
    ASSUME NEW s \in Seq(Nat \ {0}), NEW t \in Seq(Nat \ {0}), Increasing(s), Increasing(t), Below(s, t)
    PROVE  Increasing(s \o t)
<1> SUFFICES ASSUME NEW i \in 1..Len(s \o t), NEW j \in 1..Len(s \o t), i < j
             PROVE  (s \o t)[i] < (s \o t)[j]
  BY DEF Increasing
<1>1. \A k \in 1..Len(s \o t) :
         /\ k <= Len(s) => k \in 1..Len(s) /\ (s \o t)[k] = s[k]
         /\ k > Len(s) => k - Len(s) \in 1..Len(t) /\ (s \o t)[k] = t[k - Len(s)]
  OBVIOUS
<1>2. CASE j <= Len(s) BY <1>1, <1>2 DEF Increasing
<1>3. CASE i <= Len(s) /\ j > Len(s) BY <1>1, <1>3 DEF Below
<1>4. CASE i > Len(s)
  <2>1. /\ i - Len(s) \in 1..Len(t) /\ (s \o t)[i] = t[i - Len(s)]
        /\ j - Len(s) \in 1..Len(t) /\ (s \o t)[j] = t[j - Len(s)]
    BY <1>1, <1>4
  <2>2. i - Len(s) < j - Len(s) BY <1>4
  <2> QED BY <2>1, <2>2 DEF Increasing
<1> QED BY <1>2, <1>3, <1>4

(* Two queues below a third are together below it.                         *)
LEMMA ConcatBelow ==
    ASSUME NEW s \in Seq(Nat \ {0}), NEW t \in Seq(Nat \ {0}), NEW u \in Seq(Nat \ {0}), Below(s, u), Below(t, u)
    PROVE  Below(s \o t, u)
<1> SUFFICES ASSUME NEW i \in 1..Len(s \o t), NEW j \in 1..Len(u)
             PROVE  (s \o t)[i] < u[j]
  BY DEF Below
<1>1. CASE i <= Len(s)
  <2>1. i \in 1..Len(s) /\ (s \o t)[i] = s[i] BY <1>1
  <2> QED BY <2>1 DEF Below
<1>2. CASE i > Len(s)
  <2>1. i - Len(s) \in 1..Len(t) /\ (s \o t)[i] = t[i - Len(s)] BY <1>2
  <2> QED BY <2>1 DEF Below
<1> QED BY <1>1, <1>2
-----------------------------------------------------------------------------
(* A new connection has nothing on its way.                                *)
LEMMA InitInv == ConnInit => ConnInv
BY TransportAssumption
   DEF ConnInit, ConnInv, ConnTypeOK, Started, InOrder, OutOrder, Counted, InHand, Increasing, Below, UpTo

(* Steps of the socket and of readLoop, and the owner's receive.           *)
LEMMA InputKeepsInv ==
    ASSUME ConnInv, Arrive \/ ReadPacket \/ Take
    PROVE  ConnInv'
<1> USE DEF ConnInv, ConnTypeOK
<1>a. /\ InHand \in Nat
      /\ Len(socket) \in Nat /\ Len(recv) \in Nat /\ Len(taken) \in Nat /\ Len(send) \in Nat /\ Len(written) \in Nat
      /\ arrived \in Nat /\ queued \in Nat /\ inDrops \in Nat /\ outDrops \in Nat /\ refused \in Nat
      /\ Counted
  BY DEF InHand
<1>0. Started' BY DEF Started, Arrive, ReadPacket, Take
<1>1. CASE Arrive
  <2>1. arrived + 1 \in Nat \ {0} OBVIOUS
  <2>2. /\ UpTo(socket, arrived + 1) /\ UpTo(recv, arrived + 1) /\ UpTo(taken, arrived + 1)
        /\ \A i \in 1..Len(socket) : socket[i] < arrived + 1
        /\ \A i \in 1..Len(recv) : recv[i] < arrived + 1
        /\ \A i \in 1..Len(taken) : taken[i] < arrived + 1
    BY UpToMore DEF InOrder
  <2>3. /\ Increasing(Append(socket, arrived + 1)) /\ UpTo(Append(socket, arrived + 1), arrived + 1)
        /\ Below(taken, Append(socket, arrived + 1)) /\ Below(recv, Append(socket, arrived + 1))
    <3>1. Increasing(Append(socket, arrived + 1)) BY <2>1, <2>2, AppendInOrder DEF InOrder
    <3>2. UpTo(Append(socket, arrived + 1), arrived + 1) BY <2>1, <2>2 DEF UpTo
    <3>3. Below(taken, Append(socket, arrived + 1)) /\ Below(recv, Append(socket, arrived + 1))
      BY <2>1, <2>2, AppendBelow DEF InOrder
    <3> QED BY <3>1, <3>2, <3>3
  <2>4. InOrder' BY <1>1, <2>2, <2>3 DEF Arrive, InOrder
  <2>5. OutOrder' BY <1>1 DEF Arrive, output, OutOrder
  <2>6. Counted'
    <3>1. UNCHANGED <<queued, inDrops, outDrops, refused, recv, taken, send, written>>
      BY <1>1 DEF Arrive, output
    <3>2. Len(socket') = Len(socket) + 1 /\ arrived' = arrived + 1 /\ InHand' = InHand
      BY <1>1 DEF Arrive, output, InHand
    <3> HIDE DEF ConnInv, ConnTypeOK
    <3> QED BY <1>a, <3>1, <3>2 DEF Counted
  <2>7. ConnTypeOK' BY <1>1, <2>1 DEF Arrive, output
  <2> QED BY <1>0, <2>4, <2>5, <2>6, <2>7
<1>2. CASE ReadPacket
  <2>1. socket # <<>> /\ socket' = Tail(socket) BY <1>2 DEF ReadPacket
  <2>2. /\ Increasing(Tail(socket)) /\ UpTo(Tail(socket), arrived) /\ Head(socket) <= arrived
        /\ Below(taken, Tail(socket)) /\ Below(recv, Tail(socket))
        /\ \A i \in 1..Len(Tail(socket)) : Head(socket) < Tail(socket)[i]
        /\ \A i \in 1..Len(taken) : taken[i] < Head(socket)
        /\ \A i \in 1..Len(recv) : recv[i] < Head(socket)
        /\ Head(socket) \in Nat \ {0} /\ Tail(socket) \in Seq(Nat \ {0}) /\ Len(Tail(socket)) = Len(socket) - 1
    BY <2>1, TailInOrder, TailBelow DEF InOrder
  <2>3. CASE recv' = recv /\ inDrops' = inDrops + 1
    <3>1. InOrder' BY <1>2, <2>1, <2>2, <2>3 DEF ReadPacket, InOrder
    <3>2. OutOrder' BY <1>2 DEF ReadPacket, output, OutOrder
    <3>3. Counted'
      <4>1. UNCHANGED <<arrived, queued, outDrops, refused, taken, send, written>>
        BY <1>2, <2>1, <2>2, <2>3 DEF ReadPacket, output
      <4>2. Len(socket') = Len(socket) - 1 /\ recv' = recv /\ inDrops' = inDrops + 1 /\ InHand' = InHand
        BY <1>2, <2>1, <2>2, <2>3 DEF ReadPacket, output, InHand
      <4> HIDE DEF ConnInv, ConnTypeOK
      <4> QED BY <1>a, <4>1, <4>2 DEF Counted
    <3>4. ConnTypeOK' BY <1>2, <2>1, <2>2, <2>3 DEF ReadPacket, output
    <3> QED BY <1>0, <3>1, <3>2, <3>3, <3>4
  <2>4. CASE recv' = Append(recv, Head(socket)) /\ inDrops' = inDrops
    <3>1. /\ Increasing(Append(recv, Head(socket))) /\ UpTo(Append(recv, Head(socket)), arrived)
          /\ Below(taken, Append(recv, Head(socket))) /\ Below(Append(recv, Head(socket)), Tail(socket))
      BY <2>2, AppendInOrder, AppendBelow, AppendUpTo DEF InOrder
    <3>2. InOrder' BY <1>2, <2>1, <2>2, <2>4, <3>1 DEF ReadPacket, InOrder
    <3>3. OutOrder' BY <1>2 DEF ReadPacket, output, OutOrder
    <3>4. Counted'
      <4>1. UNCHANGED <<arrived, queued, outDrops, refused, taken, send, written>>
        BY <1>2, <2>1, <2>2, <2>4 DEF ReadPacket, output
      <4>2. Len(socket') = Len(socket) - 1 /\ Len(recv') = Len(recv) + 1 /\ inDrops' = inDrops /\ InHand' = InHand
        BY <1>2, <2>1, <2>2, <2>4 DEF ReadPacket, output, InHand
      <4> HIDE DEF ConnInv, ConnTypeOK
      <4> QED BY <1>a, <4>1, <4>2 DEF Counted
    <3>5. ConnTypeOK' BY <1>2, <2>1, <2>2, <2>4 DEF ReadPacket, output
    <3> QED BY <1>0, <3>2, <3>3, <3>4, <3>5
  <2> QED BY <1>2, <2>3, <2>4 DEF ReadPacket
<1>3. CASE Take
  <2>1. recv # <<>> /\ recv' = Tail(recv) /\ taken' = Append(taken, Head(recv)) BY <1>3 DEF Take
  <2>2. /\ Increasing(Tail(recv)) /\ UpTo(Tail(recv), arrived) /\ Head(recv) <= arrived
        /\ Below(taken, Tail(recv)) /\ Below(Tail(recv), socket)
        /\ \A i \in 1..Len(Tail(recv)) : Head(recv) < Tail(recv)[i]
        /\ \A i \in 1..Len(taken) : taken[i] < Head(recv)
        /\ \A i \in 1..Len(socket) : Head(recv) < socket[i]
        /\ Head(recv) \in Nat \ {0} /\ Tail(recv) \in Seq(Nat \ {0}) /\ Len(Tail(recv)) = Len(recv) - 1
    BY <2>1, TailInOrder, TailBelow DEF InOrder
  <2>3. /\ Increasing(Append(taken, Head(recv))) /\ UpTo(Append(taken, Head(recv)), arrived)
        /\ Below(Append(taken, Head(recv)), Tail(recv)) /\ Below(Append(taken, Head(recv)), socket)
    BY <2>2, AppendInOrder, AppendBelow, AppendUpTo DEF InOrder
  <2>4. InOrder' BY <1>3, <2>1, <2>2, <2>3 DEF Take, InOrder
  <2>5. OutOrder' BY <1>3 DEF Take, output, OutOrder
  <2>6. Counted'
    <3>1. UNCHANGED <<arrived, queued, inDrops, outDrops, refused, socket, send, written>>
      BY <1>3, <2>1, <2>2 DEF Take, output
    <3>2. Len(recv') = Len(recv) - 1 /\ Len(taken') = Len(taken) + 1 /\ InHand' = InHand
      BY <1>3, <2>1, <2>2 DEF Take, output, InHand
    <3> HIDE DEF ConnInv, ConnTypeOK
    <3> QED BY <1>a, <3>1, <3>2 DEF Counted
  <2>7. ConnTypeOK' BY <1>3, <2>1, <2>2 DEF Take, output
  <2> QED BY <1>0, <2>4, <2>5, <2>6, <2>7
<1> QED BY <1>1, <1>2, <1>3

(* Send, and the steps of writeLoop with a packet.                         *)
LEMMA OutputKeepsInv ==
    ASSUME ConnInv, Send \/ WriterTakes \/ Write
    PROVE  ConnInv'
<1> USE DEF ConnInv, ConnTypeOK
<1>a. /\ InHand \in Nat
      /\ Len(socket) \in Nat /\ Len(recv) \in Nat /\ Len(taken) \in Nat /\ Len(send) \in Nat /\ Len(written) \in Nat
      /\ arrived \in Nat /\ queued \in Nat /\ inDrops \in Nat /\ outDrops \in Nat /\ refused \in Nat
      /\ Counted
  BY DEF InHand
<1>0. Started' BY DEF Started, Send, WriterTakes, Write
<1>1. CASE Send
  <2>1. queued + 1 \in Nat \ {0} OBVIOUS
  <2>2. /\ UpTo(send, queued + 1) /\ UpTo(written, queued + 1)
        /\ \A i \in 1..Len(send) : send[i] < queued + 1
        /\ \A i \in 1..Len(written) : written[i] < queued + 1
    BY UpToMore DEF OutOrder
  <2>3. InOrder' BY <1>1 DEF Send, input, InOrder
  <2>4. CASE send' = Append(send, queued + 1) /\ outDrops' = outDrops
    <3>1. /\ Increasing(Append(send, queued + 1)) /\ UpTo(Append(send, queued + 1), queued + 1)
          /\ Below(written, Append(send, queued + 1))
      <4>1. Increasing(Append(send, queued + 1)) BY <2>1, <2>2, AppendInOrder DEF OutOrder
      <4>2. UpTo(Append(send, queued + 1), queued + 1) BY <2>1, <2>2 DEF UpTo
      <4>3. Below(written, Append(send, queued + 1)) BY <2>1, <2>2, AppendBelow DEF OutOrder
      <4> QED BY <4>1, <4>2, <4>3
    <3>2. hand # 0 => \A i \in 1..Len(Append(send, queued + 1)) : hand < Append(send, queued + 1)[i]
      BY <2>1 DEF OutOrder
    <3>3. OutOrder'
      <4>1. UNCHANGED <<written, writer, hand>> BY <1>1 DEF Send
      <4>2. hand # 0 => hand <= queued' BY <1>1 DEF Send, OutOrder
      <4>3. UpTo(send', queued') /\ UpTo(written', queued') BY <1>1, <2>2, <2>4, <3>1 DEF Send
      <4>4. Increasing(send') /\ Below(written, send') BY <2>4, <3>1
      <4>5. hand # 0 => \A i \in 1..Len(send') : hand < send'[i] BY <2>4, <3>2
      <4> QED BY <4>1, <4>2, <4>3, <4>4, <4>5 DEF OutOrder
    <3>4. Counted'
      <4>1. UNCHANGED <<arrived, inDrops, refused, socket, recv, taken, written>>
        BY <1>1, <2>4 DEF Send, input
      <4>2. queued' = queued + 1 /\ Len(send') = Len(send) + 1 /\ outDrops' = outDrops /\ InHand' = InHand
        BY <1>1, <2>4 DEF Send, input, InHand
      <4> HIDE DEF ConnInv, ConnTypeOK
      <4> QED BY <1>a, <4>1, <4>2 DEF Counted
    <3>5. ConnTypeOK' BY <1>1, <2>1, <2>4 DEF Send, input
    <3> QED BY <1>0, <2>3, <3>3, <3>4, <3>5
  <2>5. CASE send' = send /\ outDrops' = outDrops + 1
    <3>1. OutOrder' BY <1>1, <2>2, <2>5 DEF Send, OutOrder
    <3>2. Counted'
      <4>1. UNCHANGED <<arrived, inDrops, refused, socket, recv, taken, written>>
        BY <1>1, <2>5 DEF Send, input
      <4>2. queued' = queued + 1 /\ send' = send /\ outDrops' = outDrops + 1 /\ InHand' = InHand
        BY <1>1, <2>5 DEF Send, input, InHand
      <4> HIDE DEF ConnInv, ConnTypeOK
      <4> QED BY <1>a, <4>1, <4>2 DEF Counted
    <3>3. ConnTypeOK' BY <1>1, <2>5 DEF Send, input
    <3> QED BY <1>0, <2>3, <3>1, <3>2, <3>3
  <2> QED BY <1>1, <2>4, <2>5 DEF Send
<1>2. CASE WriterTakes
  <2>1. send # <<>> /\ send' = Tail(send) /\ hand' = Head(send) /\ hand = 0
    BY <1>2 DEF WriterTakes, OutOrder
  <2>2. /\ Increasing(Tail(send)) /\ UpTo(Tail(send), queued) /\ Head(send) <= queued
        /\ Below(written, Tail(send))
        /\ \A i \in 1..Len(Tail(send)) : Head(send) < Tail(send)[i]
        /\ \A i \in 1..Len(written) : written[i] < Head(send)
        /\ Head(send) \in Nat \ {0} /\ Tail(send) \in Seq(Nat \ {0}) /\ Len(Tail(send)) = Len(send) - 1
    BY <2>1, TailInOrder, TailBelow DEF OutOrder
  <2>3. InOrder' BY <1>2 DEF WriterTakes, input, InOrder
  <2>4. OutOrder' BY <1>2, <2>1, <2>2 DEF WriterTakes, OutOrder
  <2>5. Counted'
    <3>1. UNCHANGED <<arrived, queued, inDrops, outDrops, refused, socket, recv, taken, written>>
      BY <1>2, <2>1, <2>2 DEF WriterTakes, input
    <3>2. Len(send') = Len(send) - 1 /\ InHand' = 1 /\ InHand = 0
      BY <1>2, <2>1, <2>2 DEF WriterTakes, input, InHand
    <3> HIDE DEF ConnInv, ConnTypeOK
    <3> QED BY <1>a, <3>1, <3>2 DEF Counted
  <2>6. ConnTypeOK' BY <1>2, <2>1, <2>2 DEF WriterTakes, input
  <2> QED BY <1>0, <2>3, <2>4, <2>5, <2>6
<1>3. CASE Write
  <2>1. hand \in Nat \ {0} /\ hand' = 0 /\ send' = send BY <1>3 DEF Write, OutOrder
  <2>2. InOrder' BY <1>3 DEF Write, input, InOrder
  <2>3. CASE written' = Append(written, hand) /\ refused' = refused
    <3>1. /\ Increasing(Append(written, hand)) /\ UpTo(Append(written, hand), queued)
          /\ Below(Append(written, hand), send)
      BY <2>1, AppendInOrder, AppendBelow, AppendUpTo DEF OutOrder
    <3>2. OutOrder' BY <1>3, <2>1, <2>3, <3>1 DEF Write, OutOrder
    <3>3. Counted'
      <4>1. UNCHANGED <<arrived, queued, inDrops, outDrops, socket, recv, taken, send>>
        BY <1>3, <2>1, <2>3 DEF Write, input
      <4>2. InHand' = 0 /\ InHand = 1 /\ Len(written') = Len(written) + 1 /\ refused' = refused
        BY <1>3, <2>1, <2>3 DEF Write, input, InHand
      <4> HIDE DEF ConnInv, ConnTypeOK
      <4> QED BY <1>a, <4>1, <4>2 DEF Counted
    <3>4. ConnTypeOK' BY <1>3, <2>1, <2>3 DEF Write, input
    <3> QED BY <1>0, <2>2, <3>2, <3>3, <3>4
  <2>4. CASE written' = written /\ refused' = refused + 1
    <3>1. OutOrder' BY <1>3, <2>1, <2>4 DEF Write, OutOrder
    <3>2. Counted'
      <4>1. UNCHANGED <<arrived, queued, inDrops, outDrops, socket, recv, taken, send>>
        BY <1>3, <2>1, <2>4 DEF Write, input
      <4>2. InHand' = 0 /\ InHand = 1 /\ written' = written /\ refused' = refused + 1
        BY <1>3, <2>1, <2>4 DEF Write, input, InHand
      <4> HIDE DEF ConnInv, ConnTypeOK
      <4> QED BY <1>a, <4>1, <4>2 DEF Counted
    <3>3. ConnTypeOK' BY <1>3, <2>1, <2>4 DEF Write, input
    <3> QED BY <1>0, <2>2, <3>1, <3>2, <3>3
  <2> QED BY <1>3, <2>3, <2>4 DEF Write
<1> QED BY <1>1, <1>2, <1>3

(* Every other step leaves the queues and the counters alone.              *)
LEMMA NextInv == ConnInv /\ [ConnNext]_connVars => ConnInv'
<1> SUFFICES ASSUME ConnInv, [ConnNext]_connVars PROVE ConnInv'
  OBVIOUS
<1>1. CASE newConn \/ WriterEnds
  <2>1. UNCHANGED <<input, output>> /\ writer' \in {"select", "ended"} /\ writer # "write"
    BY <1>1 DEF newConn, WriterEnds, ConnInv, ConnTypeOK, Started
  <2>2. Started' BY <1>1 DEF newConn, WriterEnds, ConnInv, Started
  <2>3. (InOrder /\ OutOrder)' BY <2>1 DEF input, output, ConnInv, InOrder, OutOrder
  <2>4. Counted' BY <2>1 DEF input, output, ConnInv, Counted, InHand
  <2>5. ConnTypeOK' BY <2>1 DEF input, output, ConnInv, ConnTypeOK
  <2> QED BY <2>2, <2>3, <2>4, <2>5 DEF ConnInv
<1>2. CASE \/ ReadCheck \/ ReadTimesOut \/ ReadFails \/ UNCHANGED connVars
           \/ \E c \in Closers : CloseCalled(c) \/ Closing(c)
  <2>1. UNCHANGED <<input, output, writer>>
    BY <1>2 DEF ReadCheck, ReadTimesOut, ReadFails, connVars, CloseCalled, Closing, CloseCancels,
                CloseSocket, CloseWaits, CloseReturns
  <2>2. Started'
    BY <1>2 DEF ReadCheck, ReadTimesOut, ReadFails, connVars, CloseCalled, Closing, CloseCancels,
                CloseSocket, CloseWaits, CloseReturns, ConnInv, Started
  <2>3. (InOrder /\ OutOrder)' BY <2>1 DEF input, output, ConnInv, InOrder, OutOrder
  <2>4. Counted' BY <2>1 DEF input, output, ConnInv, Counted, InHand
  <2>5. ConnTypeOK' BY <2>1 DEF input, output, ConnInv, ConnTypeOK
  <2> QED BY <2>2, <2>3, <2>4, <2>5 DEF ConnInv
<1> QED BY <1>1, <1>2, InputKeepsInv, OutputKeepsInv DEF ConnNext, Reading, Writing

(* The inductive invariant holds throughout.                               *)
THEOREM ConnInvariant == ConnSpec => []ConnInv
BY InitInv, NextInv, PTL DEF ConnSpec
-----------------------------------------------------------------------------
(* Whatever is dropped under load, packets leave the transport in the      *)
(* order they came and none twice (transport.go: readLoop, writeLoop).     *)
THEOREM QueuesKeepOrder == ConnSpec => []OrderKept
<1>1. ConnInv => OrderKept
  <2> SUFFICES ASSUME ConnInv PROVE OrderKept
    OBVIOUS
  <2> USE DEF ConnInv, ConnTypeOK, InOrder
  <2>1. Increasing(taken \o recv) BY ConcatInOrder
  <2>2. Below(taken \o recv, socket) BY ConcatBelow
  <2>3. taken \o recv \in Seq(Nat \ {0}) OBVIOUS
  <2>4. Increasing((taken \o recv) \o socket) BY <2>1, <2>2, <2>3, ConcatInOrder
  <2> QED BY <2>4 DEF OrderKept, OutOrder
<1> QED BY <1>1, ConnInvariant, PTL

(* Every packet is on its way, delivered, or counted as a drop, except for *)
(* those whose write fails (transport.go: Send, Stats).                    *)
THEOREM StatisticsAccount == ConnSpec => []DropsAreCounted
<1>1. ConnInv => DropsAreCounted
  <2> SUFFICES ASSUME ConnInv PROVE DropsAreCounted
    OBVIOUS
  <2>1. Len(socket \o recv \o taken \o send) = Len(socket) + Len(recv) + Len(taken) + Len(send)
    BY DEF ConnInv, ConnTypeOK
  <2> QED BY <2>1 DEF ConnInv, ConnTypeOK, Counted, InHand, DropsAreCounted, Stats
<1> QED BY <1>1, ConnInvariant, PTL
(* Close, as its callers see it: the first runs it and the others wait for *)
(* him, and how far he is says what has been closed.                       *)
Told == closer[closing]
CloseInv == /\ closer \in [Closers -> {"idle", "cancel", "close", "wait", "block", "done"}]
            /\ reader \in {"none", "check", "read", "ended"}
            /\ closing \in Closers \cup {Nobody}
            /\ \A c \in Closers : /\ closer[c] \in {"cancel", "close", "wait"} => closing = c
                                  /\ closer[c] \in {"block", "done"} => closing # Nobody
                                  /\ closer[c] = "done" => Told = "done"
            /\ closing # Nobody => /\ Owned
                                   /\ Told \in {"cancel", "close", "wait", "done"}
                                   /\ Told # "cancel" => ctxDone
                                   /\ Told \in {"wait", "done"} => ~open
                                   /\ Told = "done" => reader = "ended" /\ writer = "ended"

(* Every step keeps it.                                                    *)
LEMMA CloseInvHolds == ConnSpec => []CloseInv
<1> USE TransportAssumption
<1>1. ConnInit => CloseInv
  BY DEF ConnInit, CloseInv, Owned, Told
<1>2. CloseInv /\ [ConnNext]_connVars => CloseInv'
  <2> SUFFICES ASSUME CloseInv, [ConnNext]_connVars PROVE CloseInv'
    OBVIOUS
  <2> USE DEF CloseInv, Told, Owned
  <2>1. CASE newConn
    BY <2>1 DEF newConn
  <2>2. CASE Arrive \/ Take \/ Send \/ WriterTakes \/ Write \/ UNCHANGED connVars
    BY <2>2 DEF Arrive, Take, Send, WriterTakes, Write, connVars, ends
  <2>3. CASE Reading \/ WriterEnds
    BY <2>3 DEF Reading, ReadCheck, ReadPacket, ReadTimesOut, ReadFails, WriterEnds, ends
  <2>4. ASSUME NEW c \in Closers, CloseCalled(c) PROVE CloseInv'
    BY <2>4 DEF CloseCalled
  <2>5. ASSUME NEW c \in Closers, Closing(c) PROVE CloseInv'
    <3>1. CASE CloseCancels(c)  BY <3>1 DEF CloseCancels
    <3>2. CASE CloseSocket(c)   BY <3>2 DEF CloseSocket
    <3>3. CASE CloseWaits(c)    BY <3>3 DEF CloseWaits
    <3>4. CASE CloseReturns(c)  BY <3>4 DEF CloseReturns
    <3> QED BY <2>5, <3>1, <3>2, <3>3, <3>4 DEF Closing
  <2> QED BY <2>1, <2>2, <2>3, <2>4, <2>5 DEF ConnNext, Writing
<1> QED BY <1>1, <1>2, PTL DEF ConnSpec

(* CloseIsFinal (transport.go: Close, with once.Do and wg.Wait): for any   *)
(* number of callers, whoever has returned finds the connection closed.    *)
THEOREM CloseReturnsLast == ConnSpec => []CloseIsFinal
<1>1. ConnInv /\ CloseInv => CloseIsFinal
  BY TransportAssumption DEF ConnInv, OutOrder, CloseInv, Told, CloseIsFinal
<1> QED BY <1>1, ConnInvariant, CloseInvHolds, PTL

(* CloseWaitsForEnding: the waits of Close are for goroutines that are on  *)
(* their way out, and never in a circle (transport.go: Close).             *)
THEOREM CloseWaitsRightly == ConnSpec => []CloseWaitsForEnding
<1>1. CloseInv => CloseWaitsForEnding
  BY TransportAssumption DEF CloseInv, Told, CloseWaitsForEnding
<1> QED BY <1>1, CloseInvHolds, PTL

(* NothingAfterClose: the network and the owner, who may still receive and *)
(* send, cannot move a connection that is closed (transport.go: Close).    *)
THEOREM ClosedStaysClosed == ConnSpec => NothingAfterClose
<1>1. CloseIsFinal /\ CloseInv /\ [ConnNext]_connVars
        => [(\E c \in Closers : closer[c] = "done")
               => UNCHANGED <<arrived, socket, written, refused, inDrops, open, reader, writer>>]_connVars
  <2> SUFFICES ASSUME CloseIsFinal, CloseInv, ConnNext, NEW c \in Closers, closer[c] = "done"
               PROVE  UNCHANGED <<arrived, socket, written, refused, inDrops, open, reader, writer>>
    OBVIOUS
  <2>1. ~open /\ reader = "ended" /\ writer = "ended"
    BY DEF CloseIsFinal
  <2>2. CASE Take \/ Send \/ Writing \/ WriterEnds
    BY <2>1, <2>2 DEF Take, Send, Writing, WriterTakes, Write, WriterEnds, input, output, ends
  <2>3. CASE newConn \/ Arrive \/ Reading
    BY <2>1, <2>3 DEF newConn, Arrive, Reading, ReadCheck, ReadPacket, ReadTimesOut, ReadFails
  <2>4. ASSUME NEW d \in Closers, CloseCalled(d) \/ Closing(d)
        PROVE  UNCHANGED <<arrived, socket, written, refused, inDrops, open, reader, writer>>
    <3>1. closer[d] # "close"
      BY DEF CloseInv, Told
    <3> QED BY <2>4, <3>1 DEF CloseCalled, Closing, CloseCancels, CloseSocket, CloseWaits, CloseReturns, input, output
  <2> QED BY <2>2, <2>3, <2>4 DEF ConnNext
<1> QED BY <1>1, CloseReturnsLast, CloseInvHolds, PTL DEF ConnSpec, NothingAfterClose
-----------------------------------------------------------------------------
(* Nothing else is needed of what a packet consists of.                    *)
IsSeq(s) == s \in Seq({s[i] : i \in DOMAIN s})

(* A sequence over any set is one, and has its length and elements.        *)
LEMMA SeqIsSeq ==
    ASSUME NEW S, NEW s \in Seq(S)
    PROVE  IsSeq(s)
<1>1. Len(s) \in Nat /\ DOMAIN s = 1..Len(s) /\ s \in [1..Len(s) -> S]
  BY LenProperties
<1>2. s \in [1..Len(s) -> {s[i] : i \in DOMAIN s}]
  BY <1>1
<1> QED BY <1>1, <1>2, SeqDef DEF IsSeq

(* What a concatenation consists of.                                       *)
LEMMA Joined ==
    ASSUME NEW s, NEW t, IsSeq(s), IsSeq(t)
    PROVE  /\ IsSeq(s \o t) /\ Len(s) \in Nat /\ Len(t) \in Nat
           /\ Len(s \o t) = Len(s) + Len(t)
           /\ \A i \in 1..Len(s) : (s \o t)[i] = s[i]
           /\ \A i \in 1..Len(t) : (s \o t)[Len(s) + i] = t[i]
<1> DEFINE S == {s[i] : i \in DOMAIN s} \cup {t[i] : i \in DOMAIN t}
<1>1. s \in Seq(S) /\ t \in Seq(S)
  BY SeqMonotonic DEF IsSeq
<1> HIDE DEF S
<1>2. Len(s) \in Nat /\ Len(t) \in Nat
  BY <1>1, LenProperties
<1>3. /\ s \o t \in Seq(S)
      /\ Len(s \o t) = Len(s) + Len(t)
      /\ \A i \in 1..(Len(s) + Len(t)) : (s \o t)[i] = IF i <= Len(s) THEN s[i] ELSE t[i - Len(s)]
  BY <1>1, ConcatProperties
<1>4. IsSeq(s \o t)
  BY <1>3, SeqIsSeq
<1>5. ASSUME NEW i \in 1..Len(s) PROVE (s \o t)[i] = s[i]
  <2>1. i \in 1..(Len(s) + Len(t)) /\ i <= Len(s)
    BY <1>2
  <2> QED BY <1>3, <2>1
<1>6. ASSUME NEW i \in 1..Len(t) PROVE (s \o t)[Len(s) + i] = t[i]
  <2>1. Len(s) + i \in 1..(Len(s) + Len(t)) /\ ~(Len(s) + i <= Len(s)) /\ Len(s) + i - Len(s) = i
    BY <1>2
  <2> QED BY <1>3, <2>1
<1> QED BY <1>2, <1>3, <1>4, <1>5, <1>6

(* Its length alone.                                                       *)
LEMMA JoinedLength ==
    ASSUME NEW s, NEW t, IsSeq(s), IsSeq(t)
    PROVE  IsSeq(s \o t) /\ Len(s \o t) = Len(s) + Len(t)
BY Joined

(* And of a part.                                                          *)
LEMMA Part ==
    ASSUME NEW s, IsSeq(s), NEW m \in Nat \ {0}, NEW n \in Nat, n <= Len(s)
    PROVE  /\ IsSeq(SubSeq(s, m, n))
           /\ Len(SubSeq(s, m, n)) = IF m <= n THEN n - m + 1 ELSE 0
           /\ \A i \in 1..Len(SubSeq(s, m, n)) : SubSeq(s, m, n)[i] = s[m + i - 1]
<1> DEFINE S == {s[i] : i \in DOMAIN s}
           p == SubSeq(s, m, n)
<1>1. s \in Seq(S) /\ Len(s) \in Nat
  BY LenProperties DEF IsSeq
<1> HIDE DEF S
<1>2. \A i \in m..n : s[i] \in S
  BY <1>1, ElementOfSeq
<1>3. /\ p \in Seq(S) /\ Len(p) = IF m <= n THEN n - m + 1 ELSE 0
      /\ \A i \in 1..(n - m + 1) : p[i] = s[m + i - 1]
  BY <1>2, SubSeqProperties
<1> HIDE DEF p
<1>4. \A i \in 1..Len(p) : p[i] = s[m + i - 1]
  BY <1>3
<1>5. IsSeq(p)
  BY <1>3, SeqIsSeq
<1> QED BY <1>3, <1>4, <1>5 DEF p

(* Two sequences with the same elements are the same.                      *)
LEMMA SameElements ==
    ASSUME NEW s, NEW t, IsSeq(s), IsSeq(t), Len(s) = Len(t), \A i \in 1..Len(s) : s[i] = t[i]
    PROVE  s = t
<1> DEFINE S == {s[i] : i \in DOMAIN s} \cup {t[i] : i \in DOMAIN t}
<1>1. s \in Seq(S) /\ t \in Seq(S)
  BY SeqMonotonic DEF IsSeq
<1> HIDE DEF S
<1> QED BY <1>1, SeqEqual

(* A sequence of one and of two.                                           *)
LEMMA Pair ==
    ASSUME NEW a, NEW b
    PROVE  /\ IsSeq(<<a>>) /\ Len(<<a>>) = 1 /\ <<a>>[1] = a
           /\ IsSeq(<<a, b>>) /\ Len(<<a, b>>) = 2 /\ <<a, b>>[1] = a /\ <<a, b>>[2] = b
<1>1. <<a>> \in Seq({a}) /\ <<a, b>> \in Seq({a, b})
  OBVIOUS
<1>2. IsSeq(<<a>>) /\ IsSeq(<<a, b>>)
  BY <1>1, SeqIsSeq
<1> QED BY <1>2

(* s is what b carries after its first n elements.                         *)
Carries(b, n, s) == n + Len(s) <= Len(b) /\ \A i \in 1..Len(s) : b[n + i] = s[i]

(* A packet carries the pieces it is put together from, and all that they  *)
(* carry.                                                                  *)
LEMMA JoinedCarries ==
    ASSUME NEW s, NEW t, IsSeq(s), IsSeq(t)
    PROVE  /\ Carries(s \o t, 0, s) /\ Carries(s \o t, Len(s), t)
           /\ \A u : \A n \in Nat : IsSeq(u) /\ Carries(s, n, u) => Carries(s \o t, n, u)
<1>1. /\ IsSeq(s \o t) /\ Len(s) \in Nat /\ Len(t) \in Nat
      /\ Len(s \o t) = Len(s) + Len(t)
      /\ \A i \in 1..Len(s) : (s \o t)[i] = s[i]
      /\ \A i \in 1..Len(t) : (s \o t)[Len(s) + i] = t[i]
  BY Joined
<1>2. Carries(s \o t, 0, s)
  BY <1>1 DEF Carries
<1>3. Carries(s \o t, Len(s), t)
  BY <1>1 DEF Carries
<1>4. ASSUME NEW u, NEW n \in Nat, IsSeq(u), Carries(s, n, u)
      PROVE  Carries(s \o t, n, u)
  <2>1. Len(u) \in Nat
    BY <1>4, LenProperties DEF IsSeq
  <2>2. n + Len(u) <= Len(s) /\ \A i \in 1..Len(u) : s[n + i] = u[i]
    BY <1>4 DEF Carries
  <2>3. \A i \in 1..Len(u) : n + i \in 1..Len(s)
    BY <1>1, <2>1, <2>2
  <2>4. \A i \in 1..Len(u) : (s \o t)[n + i] = u[i]
    BY <1>1, <2>2, <2>3
  <2>5. n + Len(u) <= Len(s \o t)
    BY <1>1, <2>1, <2>2
  <2> QED BY <2>4, <2>5 DEF Carries
<1> QED BY <1>2, <1>3, <1>4

(* The two halves of a number below b squared, and the number again.       *)
LEMMA Halves ==
    ASSUME NEW b \in Nat \ {0}, NEW v \in 0..(b * b - 1)
    PROVE  /\ v \div b \in 0..(b - 1) /\ v % b \in 0..(b - 1)
           /\ (v \div b) % b = v \div b /\ (v % b) % b = v % b
           /\ (v \div b) * b + (v % b) = v
<1> DEFINE q == v \div b
           r == v % b
<1>1. b * b \in Nat /\ v \in Nat /\ v < b * b
  OBVIOUS
<1>2. q \in Nat /\ r \in 0..(b - 1) /\ v = b * q + r
  BY <1>1
<1> HIDE DEF q, r
<1>3. q < b
  <2> SUFFICES ASSUME b <= q PROVE FALSE
    BY <1>2
  <2>1. PICK d \in Nat : q = b + d
    <3>1. q - b \in Nat /\ q = b + (q - b)
      BY <1>2
    <3> QED BY <3>1
  <2>2. b * d \in Nat /\ b * q = b * b + b * d
    BY <2>1
  <2>3. b * q \in Int
    BY <1>2
  <2> HIDE DEF q, r
  <2> QED BY <1>1, <1>2, <2>2, <2>3
<1>4. q \in 0..(b - 1)
  BY <1>2, <1>3
<1>5. \A x \in 0..(b - 1) : x % b = x
  OBVIOUS
<1>6. q * b = b * q
  BY <1>2
<1>7. q * b + r = v
  BY <1>2, <1>6, Zenon
<1>8. q % b = q /\ r % b = r
  BY <1>2, <1>4, <1>5
<1> QED BY <1>2, <1>4, <1>7, <1>8, Zenon DEF q, r

(* The sizes of the integer types are.                                     *)
LEMMA Spans == Bytes \in Nat \ {0} /\ Span16 \in Nat \ {0} /\ Span32 \in Nat \ {0} /\ Span64 \in Nat \ {0}
<1>1. \A x \in Nat \ {0} : x * x \in Nat \ {0}
  OBVIOUS
<1>2. Bytes \in Nat \ {0}
  BY ObfuscationAssumption
<1>3. Span16 \in Nat \ {0}
  BY <1>1, <1>2 DEF Span16
<1>4. Span32 \in Nat \ {0}
  BY <1>1, <1>3 DEF Span32
<1>5. Span64 \in Nat \ {0}
  BY <1>1, <1>4 DEF Span64
<1> QED BY <1>2, <1>3, <1>4, <1>5

(* The number read where one was put is that number: two bytes; ...        *)
LEMMA Reads16 ==
    ASSUME NEW b, NEW n \in Nat, NEW v \in 0..(Span16 - 1), Carries(b, n, PutUint16(v))
    PROVE  Uint16(b, n) = v
<1>1. Bytes \in Nat \ {0} /\ v \in 0..(Bytes * Bytes - 1)
  BY Spans DEF Span16
<1>2. /\ (v \div Bytes) % Bytes = v \div Bytes
      /\ (v \div Bytes) * Bytes + (v % Bytes) = v
  BY <1>1, Halves
<1>3. /\ Len(PutUint16(v)) = 2 /\ PutUint16(v)[1] = (v \div Bytes) % Bytes
      /\ PutUint16(v)[2] = v % Bytes
  BY DEF PutUint16
<1> DEFINE q == v \div Bytes
           r == v % Bytes
<1>4. b[n + 1] = q /\ b[n + 2] = r
  BY <1>2, <1>3 DEF Carries
<1>5. q * Bytes + r = v
  BY <1>2
<1> HIDE DEF q, r
<1> QED BY <1>4, <1>5 DEF Uint16

(* The bytes of a number are as many as its type has: two, ...              *)
LEMMA Put16 == ASSUME NEW v PROVE IsSeq(PutUint16(v)) /\ Len(PutUint16(v)) = 2
BY Pair DEF PutUint16

(* ... four, ...                                                           *)
LEMMA Put32 == ASSUME NEW v PROVE IsSeq(PutUint32(v)) /\ Len(PutUint32(v)) = 4
<1> DEFINE hi == PutUint16(v \div Span16)
           lo == PutUint16(v % Span16)
<1>1. IsSeq(hi) /\ IsSeq(lo) /\ Len(hi) = 2 /\ Len(lo) = 2
  BY Put16
<1>2. PutUint32(v) = hi \o lo
  BY DEF PutUint32
<1> HIDE DEF hi, lo
<1>3. IsSeq(hi \o lo) /\ Len(hi \o lo) = Len(hi) + Len(lo)
  BY <1>1, Joined
<1> QED BY <1>1, <1>2, <1>3

(* Whoever carries two pieces joined carries either.                        *)
LEMMA CarriesBoth ==
    ASSUME NEW b, NEW n \in Nat, NEW s, NEW t, IsSeq(s), IsSeq(t), Carries(b, n, s \o t), Len(b) \in Nat
    PROVE  Carries(b, n, s) /\ Carries(b, n + Len(s), t)
<1>1. /\ Len(s) \in Nat /\ Len(t) \in Nat
      /\ Len(s \o t) = Len(s) + Len(t)
      /\ \A i \in 1..Len(s) : (s \o t)[i] = s[i]
      /\ \A i \in 1..Len(t) : (s \o t)[Len(s) + i] = t[i]
  BY Joined
<1>2. n + Len(s \o t) <= Len(b) /\ \A i \in 1..Len(s \o t) : b[n + i] = (s \o t)[i]
  BY DEF Carries
<1>3. \A i \in 1..Len(s) : b[n + i] = s[i]
  BY <1>1, <1>2
<1>4. ASSUME NEW i \in 1..Len(t) PROVE b[n + Len(s) + i] = t[i]
  <2>1. Len(s) + i \in 1..Len(s \o t) /\ n + (Len(s) + i) = n + Len(s) + i
    BY <1>1
  <2> QED BY <1>1, <1>2, <2>1
<1> QED BY <1>1, <1>2, <1>3, <1>4 DEF Carries

(* ... four bytes are read where they were put, ...                         *)
LEMMA Reads32 ==
    ASSUME NEW b, NEW n \in Nat, NEW v \in 0..(Span32 - 1), Carries(b, n, PutUint32(v)), Len(b) \in Nat
    PROVE  Uint32(b, n) = v
<1>1. Span16 \in Nat \ {0} /\ v \in 0..(Span16 * Span16 - 1)
  BY Spans DEF Span32
<1>2. /\ v \div Span16 \in 0..(Span16 - 1) /\ v % Span16 \in 0..(Span16 - 1)
      /\ (v \div Span16) * Span16 + (v % Span16) = v
  BY <1>1, Halves
<1>3. Carries(b, n, PutUint16(v \div Span16)) /\ Carries(b, n + 2, PutUint16(v % Span16))
  <2> DEFINE hi == PutUint16(v \div Span16)
             lo == PutUint16(v % Span16)
  <2>1. IsSeq(hi) /\ IsSeq(lo) /\ Len(hi) = 2
    BY Put16
  <2>2. Carries(b, n, hi \o lo)
    BY DEF PutUint32
  <2> HIDE DEF hi, lo
  <2>3. Carries(b, n, hi) /\ Carries(b, n + 2, lo)
    BY <2>1, <2>2, CarriesBoth
  <2> QED BY <2>3 DEF hi, lo
<1> DEFINE q == v \div Span16
           r == v % Span16
<1>4. Uint16(b, n) = q /\ Uint16(b, n + 2) = r
  BY <1>2, <1>3, Reads16
<1>5. q * Span16 + r = v
  BY <1>2
<1> HIDE DEF q, r
<1> QED BY <1>4, <1>5 DEF Uint32

(* ... and eight.                                                          *)
LEMMA Put64 == ASSUME NEW v PROVE IsSeq(PutUint64(v)) /\ Len(PutUint64(v)) = 8
<1> DEFINE hi == PutUint32(v \div Span32)
           lo == PutUint32(v % Span32)
<1>1. IsSeq(hi) /\ IsSeq(lo) /\ Len(hi) = 4 /\ Len(lo) = 4
  BY Put32
<1>2. PutUint64(v) = hi \o lo
  BY DEF PutUint64
<1> HIDE DEF hi, lo
<1>3. IsSeq(hi \o lo) /\ Len(hi \o lo) = Len(hi) + Len(lo)
  BY <1>1, Joined
<1> QED BY <1>1, <1>2, <1>3

(* ... and all eight.                                                       *)
LEMMA Reads64 ==
    ASSUME NEW b, NEW n \in Nat, NEW v \in 0..(Span64 - 1), Carries(b, n, PutUint64(v)), Len(b) \in Nat
    PROVE  Uint64(b, n) = v
<1>1. Span32 \in Nat \ {0} /\ v \in 0..(Span32 * Span32 - 1)
  BY Spans DEF Span64
<1>2. /\ v \div Span32 \in 0..(Span32 - 1) /\ v % Span32 \in 0..(Span32 - 1)
      /\ (v \div Span32) * Span32 + (v % Span32) = v
  BY <1>1, Halves
<1>3. Carries(b, n, PutUint32(v \div Span32)) /\ Carries(b, n + 4, PutUint32(v % Span32))
  <2> DEFINE hi == PutUint32(v \div Span32)
             lo == PutUint32(v % Span32)
  <2>1. IsSeq(hi) /\ IsSeq(lo) /\ Len(hi) = 4
    BY Put32
  <2>2. Carries(b, n, hi \o lo)
    BY DEF PutUint64
  <2> HIDE DEF hi, lo
  <2>3. Carries(b, n, hi) /\ Carries(b, n + 4, lo)
    BY <2>1, <2>2, CarriesBoth
  <2> QED BY <2>3 DEF hi, lo
<1> DEFINE q == v \div Span32
           r == v % Span32
<1>4. Uint32(b, n) = q /\ Uint32(b, n + 4) = r
  BY <1>2, <1>3, Reads32
<1>5. q * Span32 + r = v
  BY <1>2
<1> HIDE DEF q, r
<1> QED BY <1>4, <1>5 DEF Uint64

(* The remainder of a small negative number.                               *)
LEMMA ModNegative ==
    ASSUME NEW m \in Nat \ {0}, NEW t \in Int, 0 - m <= t, t < 0
    PROVE  t % m = t + m
<1> DEFINE q == t \div m
           r == t % m
<1>1. q \in Int /\ r \in 0..(m - 1) /\ t = m * q + r
  OBVIOUS
<1> HIDE DEF q, r
<1>2. m * q \in Int
  BY <1>1
<1>3. ~(q >= 0)
  <2>1. q \in Nat => m * q \in Nat
    OBVIOUS
  <2> DEFINE x == m * q
  <2>2. x \in Int /\ t = x + r /\ (q \in Nat => x \in Nat)
    BY <1>1, <1>2, <2>1
  <2> HIDE DEF x
  <2> QED BY <1>1, <2>2
<1>4. ~(q < 0 - 1)
  <2> SUFFICES ASSUME q < 0 - 1 PROVE FALSE
    OBVIOUS
  <2>1. PICK d \in Nat : q = 0 - 2 - d
    <3>1. 0 - 2 - q \in Nat /\ q = 0 - 2 - (0 - 2 - q)
      BY <1>1
    <3> QED BY <3>1
  <2>2. m * d \in Nat /\ m * q = 0 - 2 * m - m * d
    BY <2>1
  <2> DEFINE x == m * q
             y == m * d
  <2>3. y \in Nat /\ x = 0 - 2 * m - y /\ t = x + r
    BY <1>1, <2>2
  <2> HIDE DEF x, y
  <2> QED BY <1>1, <2>3
<1>5. q = 0 - 1
  BY <1>1, <1>3, <1>4
<1>6. m * q = 0 - m
  BY <1>5
<1> QED BY <1>1, <1>6 DEF r

(* A conversion to uint64 and back gives the same int64.                   *)
LEMMA SignedUnsigned ==
    ASSUME NEW t \in Int, 0 - (Span64 \div 2) <= t, t < Span64 \div 2
    PROVE  Unsigned(t) \in 0..(Span64 - 1) /\ Signed(Unsigned(t)) = t /\ Signed(t) = t
<1> DEFINE S == Span64
           h == Span64 \div 2
<1>1. S \in Nat \ {0} /\ h \in Nat /\ 2 * h <= S /\ S <= 2 * h + 1
  BY Spans
<1> HIDE DEF S, h
<1>2. 0 - h <= t /\ t < h
  BY DEF h
<1>3. t % S = IF t >= 0 THEN t ELSE t + S
  <2>1. CASE t >= 0
    <3>1. t \in 0..(S - 1)
      BY <1>1, <1>2, <2>1
    <3> QED BY <1>1, <2>1, <3>1
  <2>2. CASE t < 0
    <3>1. 0 - S <= t
      BY <1>1, <1>2
    <3>2. t % S = t + S
      BY <1>1, <2>2, <3>1, ModNegative
    <3> QED BY <2>2, <3>2
  <2> QED BY <2>1, <2>2
<1>4. t % S \in 0..(S - 1)
  BY <1>1, <1>2, <1>3
<1>5. (t % S) % S = t % S
  BY <1>1, <1>4
<1>6. IF t % S >= h THEN (t % S) - S = t ELSE t % S = t
  BY <1>1, <1>2, <1>3
<1> QED BY <1>4, <1>5, <1>6 DEF Unsigned, Signed, S, h

(* A header is HeaderSize bytes long, ...                                  *)
LEMMA HeaderLength ==
    ASSUME NEW h
    PROVE  IsSeq(EncodeHeader(h)) /\ Len(EncodeHeader(h)) = HeaderSize
<1> DEFINE a == <<h.version, h.type>>
           b == PutUint32(h.sessionID)
           c == PutUint64(h.seq)
           d == PutUint64(Unsigned(h.time))
           e == PutUint64(h.flags)
<1>1. /\ IsSeq(a) /\ IsSeq(b) /\ IsSeq(c) /\ IsSeq(d) /\ IsSeq(e)
      /\ Len(a) = 2 /\ Len(b) = 4 /\ Len(c) = 8 /\ Len(d) = 8 /\ Len(e) = 8
  BY Pair, Put32, Put64
<1>2. EncodeHeader(h) = a \o b \o c \o d \o e
  BY DEF EncodeHeader
<1> HIDE DEF a, b, c, d, e
<1> DEFINE ab == a \o b
           abc == ab \o c
           abcd == abc \o d
<1>3. IsSeq(ab) /\ Len(ab) = Len(a) + Len(b)
  BY <1>1, JoinedLength, Zenon
<1>4. IsSeq(abc) /\ Len(abc) = Len(ab) + Len(c)
  BY <1>1, <1>3, JoinedLength, Zenon
<1>5. IsSeq(abcd) /\ Len(abcd) = Len(abc) + Len(d)
  BY <1>1, <1>4, JoinedLength, Zenon
<1>6. IsSeq(abcd \o e) /\ Len(abcd \o e) = Len(abcd) + Len(e)
  BY <1>1, <1>5, JoinedLength, Zenon
<1>7. EncodeHeader(h) = abcd \o e
  BY <1>2
<1> HIDE DEF ab, abc, abcd
<1> QED BY <1>1, <1>3, <1>4, <1>5, <1>6, <1>7 DEF HeaderSize

(* ... and what begins with the bytes of a header decodes to it.           *)
LEMMA HeaderRead ==
    ASSUME NEW type, NEW sid \in 0..(Span32 - 1), NEW seq \in 0..(Span64 - 1),
           NEW t \in Int, 0 - (Span64 \div 2) <= t, t < Span64 \div 2,
           NEW w, IsSeq(w), Carries(w, 0, EncodeHeader(NewHeader(type, sid, seq, t)))
    PROVE  DecodeHeader(w) = NewHeader(type, sid, seq, t)
<1> DEFINE h == NewHeader(type, sid, seq, t)
           a == <<Version, type>>
           b == PutUint32(sid)
           c == PutUint64(seq)
           d == PutUint64(Unsigned(t))
           e == PutUint64(0)
<1>1. /\ IsSeq(a) /\ IsSeq(b) /\ IsSeq(c) /\ IsSeq(d) /\ IsSeq(e)
      /\ Len(a) = 2 /\ Len(b) = 4 /\ Len(c) = 8 /\ Len(d) = 8 /\ Len(e) = 8
      /\ a[1] = Version /\ a[2] = type
  BY Pair, Put32, Put64
<1>2. EncodeHeader(h) = a \o b \o c \o d \o e
  BY DEF EncodeHeader, NewHeader
<1>3. Len(w) \in Nat
  BY LenProperties DEF IsSeq
<1>4. Len(w) >= HeaderSize
  <2>1. 0 + Len(EncodeHeader(h)) <= Len(w)
    BY DEF Carries
  <2> HIDE DEF h
  <2>2. Len(EncodeHeader(h)) = HeaderSize
    BY HeaderLength
  <2> QED BY <1>3, <2>1, <2>2 DEF HeaderSize
<1>5. Carries(w, 0, a \o b \o c \o d \o e)
  BY <1>2
<1> HIDE DEF a, b, c, d, e
<1> DEFINE ab == a \o b
           abc == ab \o c
           abcd == abc \o d
<1>6. /\ IsSeq(ab) /\ IsSeq(abc) /\ IsSeq(abcd)
      /\ 0 + Len(a) = 2 /\ 0 + Len(ab) = 6 /\ 0 + Len(abc) = 14 /\ 0 + Len(abcd) = 22
  <2>1. /\ IsSeq(ab) /\ IsSeq(abc) /\ IsSeq(abcd)
        /\ Len(ab) = 6 /\ Len(abc) = 14 /\ Len(abcd) = 22
    <3>1. IsSeq(ab) /\ Len(ab) = Len(a) + Len(b)
      BY <1>1, JoinedLength, Zenon
    <3>2. IsSeq(abc) /\ Len(abc) = Len(ab) + Len(c)
      BY <1>1, <3>1, JoinedLength, Zenon
    <3>3. IsSeq(abcd) /\ Len(abcd) = Len(abc) + Len(d)
      BY <1>1, <3>2, JoinedLength, Zenon
    <3> HIDE DEF ab, abc, abcd
    <3> QED BY <1>1, <3>1, <3>2, <3>3
  <2> QED BY <1>1, <2>1
<1>7. Carries(w, 0, abcd \o e)
  BY <1>5
<1> HIDE DEF abcd
<1>8. Carries(w, 0, abcd) /\ Carries(w, 0 + Len(abcd), e)
  BY <1>1, <1>3, <1>6, <1>7, CarriesBoth
<1>9. Carries(w, 0, abc \o d)
  BY <1>8 DEF abcd
<1> HIDE DEF abc
<1>10. Carries(w, 0, abc) /\ Carries(w, 0 + Len(abc), d)
  BY <1>1, <1>3, <1>6, <1>9, CarriesBoth
<1>11. Carries(w, 0, ab \o c)
  BY <1>10 DEF abc
<1> HIDE DEF ab
<1>12. Carries(w, 0, ab) /\ Carries(w, 0 + Len(ab), c)
  BY <1>1, <1>3, <1>6, <1>11, CarriesBoth
<1>21. Carries(w, 0, a) /\ Carries(w, 0 + Len(a), b)
  BY <1>1, <1>3, <1>12, CarriesBoth DEF ab
<1>22. Carries(w, 0, a) /\ Carries(w, 2, b) /\ Carries(w, 6, c) /\ Carries(w, 14, d) /\ Carries(w, 22, e)
  BY <1>6, <1>8, <1>10, <1>12, <1>21
<1>13. w[1] = Version /\ w[2] = type
  <2>1. \A i \in 1..Len(a) : w[0 + i] = a[i]
    BY <1>22 DEF Carries
  <2> QED BY <1>1, <2>1
<1>14. Uint32(w, 2) = sid
  BY <1>3, <1>22, Reads32 DEF b
<1>15. Uint64(w, 6) = seq
  BY <1>3, <1>22, Reads64 DEF c
<1>16. Unsigned(t) \in 0..(Span64 - 1) /\ Signed(Unsigned(t)) = t
  BY SignedUnsigned
<1>17. Uint64(w, 14) = Unsigned(t)
  BY <1>3, <1>22, <1>16, Reads64 DEF d
<1>18. 0 \in 0..(Span64 - 1)
  BY Spans
<1>19. Uint64(w, 22) = 0
  BY <1>3, <1>22, <1>18, Reads64 DEF e
<1>20. DecodeHeader(w) = [version |-> w[1], type |-> w[2], sessionID |-> Uint32(w, 2), seq |-> Uint64(w, 6),
                          time |-> Signed(Uint64(w, 14)), flags |-> Uint64(w, 22)]
  BY <1>3, <1>4, <1>13 DEF DecodeHeader, HeaderSize
<1> QED BY <1>13, <1>14, <1>15, <1>16, <1>17, <1>19, <1>20, Zenon DEF NewHeader

(* A mask applied twice is undone.                                         *)
LEMMA MaskTwice ==
    ASSUME NEW s \in Seq(Byte)
    PROVE  Mask(s) \in Seq(Byte) /\ Len(Mask(s)) = Len(s) /\ Mask(Mask(s)) = s
<1> DEFINE K(i) == Key[((i - 1) % Len(Key)) + 1]
<1>1. Len(Key) \in Nat \ {0}
  BY ObfuscationAssumption, EmptySeq
<1>2. ASSUME NEW i \in Nat \ {0} PROVE K(i) \in Byte
  <2>1. (i - 1) % Len(Key) \in 0..(Len(Key) - 1)
    BY <1>1
  <2>2. ((i - 1) % Len(Key)) + 1 \in 1..Len(Key)
    BY <1>1, <2>1
  <2> QED BY <2>2, ObfuscationAssumption, ElementOfSeq
<1> HIDE DEF K
<1>3. Len(s) \in Nat /\ \A i \in 1..Len(s) : i \in Nat \ {0} /\ s[i] \in Byte
  BY LenProperties, ElementOfSeq
<1>4. \A u : Mask(u) = [i \in 1..Len(u) |-> ByteXor(u[i], K(i))]
  BY DEF Mask, K
<1>5. \A i \in 1..Len(s) : ByteXor(s[i], K(i)) \in Byte /\ ByteXor(ByteXor(s[i], K(i)), K(i)) = s[i]
  BY <1>2, <1>3, ObfuscationAssumption
<1>6. Mask(s) \in [1..Len(s) -> Byte]
  BY <1>4, <1>5
<1>7. Mask(s) \in Seq(Byte) /\ Len(Mask(s)) = Len(s)
  BY <1>3, <1>6, SeqDef
<1>8. \A i \in 1..Len(s) : Mask(s)[i] = ByteXor(s[i], K(i))
  BY <1>4
<1>9. Mask(Mask(s)) = [i \in 1..Len(s) |-> s[i]]
  BY <1>4, <1>5, <1>7, <1>8
<1>10. s = [i \in 1..Len(s) |-> s[i]]
  BY LenProperties
<1> QED BY <1>7, <1>9, <1>10

(* Whatever is done to a packet at one end is undone at the other          *)
(* (transport.go: obfuscate, deobfuscate).                                 *)
LEMMA Deobfuscated ==
    ASSUME NEW s \in Seq(Byte), NEW pad \in Seq(Byte), Len(pad) <= PaddingMaxBytes, NEW headerXOR
    PROVE  /\ WellFormed(Obfuscated(s, pad, headerXOR))
           /\ Payload(Obfuscated(s, pad, headerXOR), headerXOR) = s
<1> DEFINE m == XOR(s, headerXOR)
           one == <<Len(pad) % Bytes>>
           w == one \o pad \o m
<1>1. m \in Seq(Byte) /\ XOR(m, headerXOR) = s
  BY MaskTwice DEF XOR
<1>2. Len(pad) \in Nat /\ Len(pad) % Bytes = Len(pad)
  BY ObfuscationAssumption, LenProperties
<1>3. Obfuscated(s, pad, headerXOR) = w
  BY DEF Obfuscated
<1>4. IsSeq(m) /\ IsSeq(pad) /\ IsSeq(one) /\ Len(one) = 1 /\ one[1] = Len(pad)
  BY <1>1, <1>2, SeqIsSeq, Pair
<1> HIDE DEF m, one
<1> DEFINE top == one \o pad
<1>5. IsSeq(top) /\ Len(top) = 1 + Len(pad) /\ top[1] = Len(pad)
  <2>1. /\ IsSeq(top) /\ Len(top) = Len(one) + Len(pad)
        /\ \A i \in 1..Len(one) : top[i] = one[i]
    BY <1>4, Joined
  <2> QED BY <1>4, <2>1
<1> HIDE DEF top
<1>6. /\ IsSeq(w) /\ Len(m) \in Nat /\ Len(w) = 1 + Len(pad) + Len(m) /\ w[1] = Len(pad)
      /\ \A i \in 1..Len(m) : w[1 + Len(pad) + i] = m[i]
  <2>1. /\ IsSeq(top \o m) /\ Len(top \o m) = Len(top) + Len(m) /\ Len(m) \in Nat
        /\ \A i \in 1..Len(top) : (top \o m)[i] = top[i]
        /\ \A i \in 1..Len(m) : (top \o m)[Len(top) + i] = m[i]
    BY <1>4, <1>5, Joined
  <2>2. w = top \o m
    BY DEF top
  <2> HIDE DEF w
  <2>3. 1 \in 1..Len(top)
    BY <1>2, <1>5
  <2> QED BY <1>2, <1>5, <2>1, <2>2, <2>3
<1> HIDE DEF w
<1>7. WellFormed(w)
  BY <1>2, <1>6 DEF WellFormed
<1>8. SubSeq(w, 2 + Len(pad), Len(w)) = m
  <2> DEFINE p == SubSeq(w, 2 + Len(pad), Len(w))
  <2>1. 2 + Len(pad) \in Nat \ {0} /\ Len(w) \in Nat
    BY <1>2, <1>6
  <2>2. /\ IsSeq(p) /\ Len(p) = IF 2 + Len(pad) <= Len(w) THEN Len(w) - (2 + Len(pad)) + 1 ELSE 0
        /\ \A i \in 1..Len(p) : p[i] = w[2 + Len(pad) + i - 1]
    BY <1>6, <2>1, Part
  <2> HIDE DEF p
  <2>3. Len(p) = Len(m)
    BY <1>2, <1>6, <2>2
  <2>4. ASSUME NEW i \in 1..Len(p) PROVE p[i] = m[i]
    <3>1. 2 + Len(pad) + i - 1 = 1 + Len(pad) + i
      BY <1>2, <1>6, <2>3
    <3> QED BY <1>6, <2>2, <2>3, <3>1
  <2>5. p = m
    BY <1>4, <2>2, <2>3, <2>4, SameElements
  <2> QED BY <2>5 DEF p
<1>9. Payload(w, headerXOR) = s
  BY <1>1, <1>6, <1>8 DEF Payload
<1> QED BY <1>3, <1>7, <1>9

(* Whatever the packet and the padding, between two ends with the same     *)
(* configuration.                                                          *)
LEMMA EveryRoundTrip == RoundTrip
<1> SUFFICES ASSUME NEW s \in Strings(MaxLen), NEW pad \in Strings(PaddingMaxBytes),
                    NEW cfg \in ObfuscationConfigs
             PROVE  /\ Through(cfg, cfg, s, pad) = s
                    /\ cfg.enabled => WellFormed(Obfuscated(s, pad, cfg.headerXOR))
  BY DEF RoundTrip
<1>1. \A n \in Nat : \A x \in Strings(n) : x \in Seq(Byte) /\ Len(x) <= n
  BY SeqDef DEF Strings
<1>2. s \in Seq(Byte) /\ pad \in Seq(Byte) /\ Len(pad) <= PaddingMaxBytes
  BY <1>1, ObfuscationAssumption
<1>3. /\ WellFormed(Obfuscated(s, pad, cfg.headerXOR))
      /\ Payload(Obfuscated(s, pad, cfg.headerXOR), cfg.headerXOR) = s
  BY <1>2, Deobfuscated
<1> QED BY <1>3 DEF Through

(* A packet, its header and its body.                                      *)
LEMMA Built ==
    ASSUME NEW h, NEW c, IsSeq(c)
    PROVE  /\ IsSeq(BuildPacket(h, c)) /\ BuildPacket(h, c) # <<>>
           /\ Len(c) \in Nat /\ Len(BuildPacket(h, c)) = HeaderSize + Len(c)
           /\ \A i \in 1..Len(c) : BuildPacket(h, c)[HeaderSize + i] = c[i]
           /\ Carries(BuildPacket(h, c), 0, EncodeHeader(h))
           /\ SubSeq(BuildPacket(h, c), 1, HeaderSize) = EncodeHeader(h)
           /\ Body(BuildPacket(h, c)) = c
<1> DEFINE e == EncodeHeader(h)
           w == e \o c
<1>0. HeaderSize \in Nat \ {0}
  BY DEF HeaderSize
<1>1. IsSeq(e) /\ Len(e) = HeaderSize
  BY HeaderLength
<1>2. BuildPacket(h, c) = w
  BY DEF BuildPacket
<1> HIDE DEF e
<1>3. /\ IsSeq(w) /\ Len(c) \in Nat /\ Len(w) = Len(e) + Len(c)
      /\ \A i \in 1..Len(e) : w[i] = e[i]
      /\ \A i \in 1..Len(c) : w[Len(e) + i] = c[i]
  BY <1>1, Joined
<1>4. Carries(w, 0, e)
  BY <1>1, JoinedCarries
<1> HIDE DEF w
<1>5. Len(w) = HeaderSize + Len(c)
  BY <1>1, <1>3
<1>6. w # <<>>
  BY <1>0, <1>3, <1>5
<1>7. SubSeq(w, 1, HeaderSize) = e
  <2> DEFINE p == SubSeq(w, 1, HeaderSize)
  <2>1. 1 \in Nat \ {0} /\ HeaderSize <= Len(w)
    BY <1>0, <1>3, <1>5
  <2>2. /\ IsSeq(p) /\ Len(p) = IF 1 <= HeaderSize THEN HeaderSize - 1 + 1 ELSE 0
        /\ \A i \in 1..Len(p) : p[i] = w[1 + i - 1]
    BY <1>0, <1>3, <2>1, Part
  <2> HIDE DEF p
  <2>3. Len(p) = HeaderSize
    BY <1>0, <2>2
  <2>4. \A i \in 1..Len(p) : p[i] = e[i]
    BY <1>0, <1>1, <1>3, <2>2, <2>3
  <2>5. p = e
    BY <1>1, <2>2, <2>3, <2>4, SameElements
  <2> QED BY <2>5 DEF p
<1>8. Body(w) = c
  <2> DEFINE p == SubSeq(w, HeaderSize + 1, Len(w))
  <2>1. HeaderSize + 1 \in Nat \ {0} /\ Len(w) \in Nat
    BY <1>0, <1>3, <1>5
  <2>2. /\ IsSeq(p) /\ Len(p) = IF HeaderSize + 1 <= Len(w) THEN Len(w) - (HeaderSize + 1) + 1 ELSE 0
        /\ \A i \in 1..Len(p) : p[i] = w[HeaderSize + 1 + i - 1]
    BY <1>3, <2>1, Part
  <2> HIDE DEF p
  <2>3. Len(p) = Len(c)
    BY <1>0, <1>3, <1>5, <2>2
  <2>4. ASSUME NEW i \in 1..Len(p) PROVE p[i] = c[i]
    <3>1. HeaderSize + 1 + i - 1 = HeaderSize + i /\ i \in 1..Len(c)
      BY <1>0, <2>3
    <3> QED BY <1>1, <1>3, <2>2, <3>1
  <2>5. p = c
    BY <2>2, <2>3, <2>4, SameElements
  <2> QED BY <2>5 DEF p, Body
<1>9. \A i \in 1..Len(c) : w[HeaderSize + i] = c[i]
  BY <1>1, <1>3
<1> QED BY <1>2, <1>3, <1>4, <1>5, <1>6, <1>7, <1>8, <1>9, Zenon DEF e

(* Its header can be read again.                                           *)
LEMMA PacketDecodes ==
    ASSUME NEW type, NEW sid \in 0..(Span32 - 1), NEW t \in Int,
           0 - (Span64 \div 2) <= t, t < Span64 \div 2, NEW c, IsSeq(c)
    PROVE  DecodeHeader(BuildPacket(NewHeader(type, sid, 0, t), c)) = NewHeader(type, sid, 0, t)
<1> DEFINE h == NewHeader(type, sid, 0, t)
           w == BuildPacket(h, c)
<1>1. IsSeq(w) /\ Carries(w, 0, EncodeHeader(h))
  BY Built
<1>2. 0 \in 0..(Span64 - 1)
  BY Spans
<1> HIDE DEF w
<1>3. DecodeHeader(w) = h
  BY <1>1, <1>2, HeaderRead
<1> QED BY <1>3 DEF w

(* The numbers in this model's packets fit their fields.                   *)
LEMMA SmallNumbers ==
    /\ 0 \in 0..(Span32 - 1) /\ 0 \in 0..(Span64 - 1) /\ SessionID \in 0..(Span32 - 1) /\ MTU \in 0..(Span16 - 1)
    /\ 0 - (Span64 \div 2) <= 0 /\ 0 < Span64 \div 2
<1>1. \A x \in Nat : x >= 6 => x * x \in Nat /\ x * x >= 36
  <2> SUFFICES ASSUME NEW x \in Nat, x >= 6 PROVE x * x \in Nat /\ x * x >= 36
    OBVIOUS
  <2>1. PICK d \in Nat : x = 6 + d
    <3>1. x - 6 \in Nat /\ x = 6 + (x - 6)
      OBVIOUS
    <3> QED BY <3>1
  <2>2. d * d \in Nat /\ x * x = 36 + 12 * d + d * d
    BY <2>1
  <2> QED BY <2>2
<1>2. Bytes \in Nat /\ Bytes >= 6
  BY KxAssumption, ObfuscationAssumption DEF TypeData
<1>3. Span16 \in Nat /\ Span16 >= 36
  BY <1>1, <1>2 DEF Span16
<1>4. Span32 \in Nat /\ Span32 >= 36
  BY <1>1, <1>3 DEF Span32
<1>5. Span64 \in Nat /\ Span64 >= 36
  BY <1>1, <1>4 DEF Span64
<1> QED BY <1>3, <1>4, <1>5 DEF SessionID, MTU

(* The fields of ACCEPT are read where they were put.                      *)
LEMMA AcceptRead ==
    DecodeAccept(EncodeAccept(SessionID, VirtualIP, MTU))
        = [sessionID |-> SessionID, virtualIP |-> VirtualIP, mtu |-> MTU]
<1> DEFINE a == PutUint32(SessionID)
           b == VirtualIP
           c == PutUint16(MTU)
           ab == a \o b
           w == ab \o c
<1>1. IsSeq(a) /\ IsSeq(c) /\ Len(a) = 4 /\ Len(c) = 2
  BY Put32, Put16
<1>2. IsSeq(b) /\ Len(b) = 4
  <2>1. b \in Seq(Nat) /\ Len(b) = 4
    BY DEF VirtualIP
  <2> QED BY <2>1, SeqIsSeq
<1> HIDE DEF a, b, c
<1>3. IsSeq(ab) /\ Len(ab) = Len(a) + Len(b)
  BY <1>1, <1>2, JoinedLength, Zenon
<1>4. IsSeq(w) /\ Len(w) = Len(ab) + Len(c)
  BY <1>1, <1>3, JoinedLength, Zenon
<1>5. Carries(ab, 0, a) /\ Carries(ab, Len(a), b)
  BY <1>1, <1>2, JoinedCarries
<1>6. /\ Carries(w, Len(ab), c)
      /\ \A u : \A n \in Nat : IsSeq(u) /\ Carries(ab, n, u) => Carries(w, n, u)
  BY <1>1, <1>3, JoinedCarries
<1>7. 0 \in Nat /\ Len(a) \in Nat
  BY <1>1
<1>8. Carries(w, 0, a) /\ Carries(w, Len(a), b)
  BY <1>1, <1>2, <1>5, <1>6, <1>7, Zenon
<1> HIDE DEF ab, w
<1>9. Len(w) = 10 /\ Len(w) \in Nat /\ Len(ab) = 8
  BY <1>1, <1>2, <1>3, <1>4
<1>10. Uint32(w, 0) = SessionID
  BY <1>8, <1>9, SmallNumbers, Reads32 DEF a
<1>11. Uint16(w, 8) = MTU
  BY <1>6, <1>9, SmallNumbers, Reads16 DEF c
<1>12. SubSeq(w, 5, 8) = b
  <2> DEFINE p == SubSeq(w, 5, 8)
  <2>1. 5 \in Nat \ {0} /\ 8 \in Nat /\ 8 <= Len(w)
    BY <1>9
  <2>2. IsSeq(p) /\ Len(p) = (IF 5 <= 8 THEN 8 - 5 + 1 ELSE 0) /\ \A i \in 1..Len(p) : p[i] = w[5 + i - 1]
    BY <1>4, <2>1, Part
  <2> HIDE DEF p
  <2>3. Len(p) = Len(b)
    BY <1>2, <2>2
  <2>4. \A i \in 1..Len(b) : w[4 + i] = b[i]
    BY <1>1, <1>8 DEF Carries
  <2>5. ASSUME NEW i \in 1..Len(p) PROVE p[i] = b[i]
    <3>1. 5 + i - 1 = 4 + i /\ i \in 1..Len(b)
      BY <1>2, <2>3
    <3> QED BY <2>2, <2>4, <3>1
  <2>6. p = b
    BY <1>2, <2>2, <2>3, <2>5, SameElements
  <2> QED BY <2>6 DEF p
<1>13. EncodeAccept(SessionID, VirtualIP, MTU) = w
  BY DEF EncodeAccept, a, b, c, ab, w
<1>14. DecodeAccept(w) = [sessionID |-> Uint32(w, 0), virtualIP |-> SubSeq(w, 5, 8), mtu |-> Uint16(w, 8)]
  BY <1>9 DEF DecodeAccept
<1> QED BY <1>10, <1>11, <1>12, <1>13, <1>14, Zenon DEF b

(* The payload of ACCEPT is a sequence.                                    *)
LEMMA AcceptIsSeq == IsSeq(EncodeAccept(SessionID, VirtualIP, MTU))
<1>1. IsSeq(PutUint32(SessionID)) /\ IsSeq(PutUint16(MTU))
  BY Put32, Put16
<1>2. VirtualIP \in Seq(Nat)
  BY DEF VirtualIP
<1>3. IsSeq(VirtualIP)
  BY <1>2, SeqIsSeq
<1>4. IsSeq(PutUint32(SessionID) \o VirtualIP)
  BY <1>1, <1>3, JoinedLength, Zenon
<1> QED BY <1>1, <1>4, JoinedLength, Zenon DEF EncodeAccept

(* And the frame of a DATA packet.                                         *)
LEMMA FrameRead ==
    ASSUME NEW ip, IsSeq(ip), Len(ip) < Span16
    PROVE  Unframed(Framed(ip)) = [ip |-> ip]
<1> DEFINE a == PutUint16(Len(ip))
           w == a \o ip
<1>0. IsSeq(a)
  BY Put16
<1>1. Len(a) = 2
  BY Put16
<1>2. Len(ip) \in Nat /\ Len(ip) \in 0..(Span16 - 1)
  <2>1. Len(ip) \in Nat
    BY LenProperties DEF IsSeq
  <2> QED BY <2>1, Spans
<1> HIDE DEF a
<1>3. /\ IsSeq(w) /\ Len(w) = Len(a) + Len(ip)
      /\ \A i \in 1..Len(ip) : w[Len(a) + i] = ip[i]
  BY <1>0, Joined
<1>4. Carries(w, 0, a)
  BY <1>0, JoinedCarries
<1> HIDE DEF w
<1>5. Uint16(w, 0) = Len(ip)
  BY <1>2, <1>4, Reads16 DEF a
<1>6. Len(w) = 2 + Len(ip)
  BY <1>1, <1>3
<1>7. SubSeq(w, 3, 2 + Len(ip)) = ip
  <2> DEFINE p == SubSeq(w, 3, 2 + Len(ip))
  <2>1. 3 \in Nat \ {0} /\ 2 + Len(ip) \in Nat /\ 2 + Len(ip) <= Len(w)
    BY <1>2, <1>6
  <2>2. /\ IsSeq(p) /\ Len(p) = IF 3 <= 2 + Len(ip) THEN 2 + Len(ip) - 3 + 1 ELSE 0
        /\ \A i \in 1..Len(p) : p[i] = w[3 + i - 1]
    BY <1>3, <2>1, Part
  <2> HIDE DEF p
  <2>3. Len(p) = Len(ip)
    BY <1>2, <2>2
  <2>4. ASSUME NEW i \in 1..Len(p) PROVE p[i] = ip[i]
    <3>1. 3 + i - 1 = 2 + i /\ i \in 1..Len(ip)
      BY <1>2, <2>3
    <3> QED BY <1>1, <1>3, <2>2, <3>1
  <2>5. p = ip
    BY <2>2, <2>3, <2>4, SameElements
  <2> QED BY <2>5 DEF p
<1>8. Framed(ip) = w
  BY DEF Framed, w, a
<1>9. ~(Len(w) < 2 \/ Uint16(w, 0) + 2 > Len(w))
  BY <1>2, <1>5, <1>6
<1>10. Unframed(w) = [ip |-> SubSeq(w, 3, 2 + Uint16(w, 0))]
  BY <1>9, Zenon DEF Unframed
<1> QED BY <1>5, <1>7, <1>8, <1>10, Zenon

(* Clocks that differ by no more than half the range are compared without  *)
(* wrapping (server/main.go: handleInbound).                               *)
LEMMA TimelyIsClose ==
    ASSUME NEW now \in Int, NEW time \in Int, NEW skew \in Nat,
           skew = IF now < time THEN time - now ELSE now - time, skew < Span64 \div 2
    PROVE  Timely(now, time, Tolerance) <=> skew <= Tolerance
<1> DEFINE h == Span64 \div 2
           d == now - time
<1>1. h \in Nat /\ d \in Int /\ 0 - d \in Int
  BY Spans
<1>2. 0 - h <= d /\ d < h /\ 0 - h <= 0 - d /\ 0 - d < h
  BY <1>1
<1>3. Signed(d) = d /\ Signed(0 - d) = 0 - d
  <2> HIDE DEF d
  <2> QED BY <1>1, <1>2, SignedUnsigned
<1>4. Abs(Signed(d)) = skew
  <2>1. Abs(d) = skew
    BY <1>3 DEF Abs
  <2> QED BY <1>3, <2>1
<1>5. Timely(now, time, Tolerance) <=> ~(Abs(Signed(d)) > Tolerance)
  BY DEF Timely
<1> QED BY <1>4, <1>5, KxAssumption
-----------------------------------------------------------------------------
(* What either end knows, by where it is.                                  *)
ClientFits ==
    /\ client.at \in {"hello", "challenge", "accept", "connected", "sent", "failed"}
    /\ "key" \in DOMAIN client <=> client.at = "accept"
    /\ "session" \in DOMAIN client <=> client.at \in {"connected", "sent"}
    /\ "frame" \in DOMAIN client <=> client.at = "sent"
    /\ client.at = "sent" => client.frame \in IPPackets /\ client.time \in Clocks
    /\ client.at = "failed" =>
           /\ client.was.at \in {"challenge", "accept"} /\ "session" \notin DOMAIN client.was
           /\ "key" \in DOMAIN client.was <=> client.was.at = "accept"

ServerFits ==
    /\ server.at \in {"hello", "auth", "accepted", "idle", "failed"}
    /\ "session" \in DOMAIN server <=> server.at \in {"accepted", "idle"}
    /\ "tun" \in DOMAIN server <=> server.at = "idle"
    /\ server.at \in {"accepted", "idle"} =>
           server.session = NewSession(server.session.key, SessionID, "chacha20")
    /\ server.at = "idle" => server.clock \in Clocks

(* Where one end is, there the other can be.                               *)
InStep ==
    /\ client.at = "hello" => server.at = "hello" /\ wire = <<>>
    /\ client.at = "challenge" => server.at \in {"hello", "auth", "failed"}
    /\ client.at \in {"connected", "sent"} => server.at \in {"accepted", "idle"}
    /\ server.at = "auth" => client.at \in {"challenge", "accept", "failed"}
    /\ server.at = "accepted" => client.at \in {"accept", "connected", "sent", "failed"}
    /\ server.at = "idle" => client.at = "sent"

(* And which packet is under way between them, whatever became of it.      *)
OnTheWay ==
    wire # <<>> =>
        /\ IsSeq(wire)
        /\ \/ /\ sent.type = TypeHello
              /\ client.at \in {"challenge", "failed"} /\ server.at = "hello"
           \/ /\ sent.type = TypeChallenge
              /\ client.at \in {"challenge", "failed"} /\ server.at \in {"auth", "failed"}
           \/ /\ sent.type = TypeAuth
              /\ client.at \in {"accept", "failed"} /\ server.at \in {"auth", "failed"}
           \/ /\ sent.type = TypeAccept
              /\ client.at \in {"accept", "failed"} /\ server.at = "accepted"
           \/ /\ sent.type = TypeData
              /\ client.at = "sent" /\ server.at = "accepted"

(* What is left of the HMAC and of the token in an AUTH is the client's,   *)
(* also when it no longer waits for the verdict.                           *)
Noise == [noise |-> TRUE]
AuthIsClients ==
    wire # <<>> /\ sent.type = TypeAuth =>
        /\ Answered(client).at = "accept"
        /\ Len(wire) > HeaderSize =>
               wire[HeaderSize + 1] = Noise \/ wire[HeaderSize + 1].mac = Answered(client).key
        /\ Len(wire) > HeaderSize + 1 => wire[HeaderSize + 2].plain = Answered(client).token

AcceptIsServers ==
    wire # <<>> /\ sent.type = TypeAccept /\ damage = 0 =>
        wire = BuildPacket(sent, EncodeAccept(SessionID, VirtualIP, MTU))

(* And what is left of a sealed frame.                                     *)
Frame == Sealed(client.session, 0, Framed(client.frame), EncodeHeader(sent))
DataIsClients ==
    wire # <<>> /\ sent.type = TypeData =>
        /\ sent = NewHeader(TypeData, client.session.id, 0, client.time)
        /\ Len(wire) > HeaderSize =>
               wire[HeaderSize + 1] = Noise \/ <<wire[HeaderSize + 1]>> = Frame
        /\ damage = 0 => wire = BuildPacket(sent, Frame)

HeaderIsSent == wire # <<>> /\ damage = 0 => DecodeHeader(wire) = sent

(* The client has the key of an end that accepted it.                      *)
KeysAgree ==
    /\ server.at \in {"accepted", "idle"} /\ client.at = "accept" =>
           server.session.key = client.key /\ server.token = client.token
    /\ client.at \in {"connected", "sent"} =>
           /\ client.session = NewSession(server.session.key, client.session.id, "chacha20")
           /\ server.token = client.token
           /\ damage = 0 => client.session.id = SessionID /\ client.ip = VirtualIP /\ client.mtu = MTU

KxInv == /\ damage \in Nat /\ ClientFits /\ ServerFits /\ InStep /\ OnTheWay
         /\ AuthIsClients /\ AcceptIsServers /\ DataIsClients
         /\ HeaderIsSent /\ KeysAgree /\ FrameArrives

(* Nothing is claimed of a packet that is not there, ...                   *)
LEMMA NothingUnderWay ==
    ASSUME wire' = <<>>
    PROVE  OnTheWay' /\ AuthIsClients' /\ AcceptIsServers' /\ DataIsClients' /\ HeaderIsSent'
BY DEF OnTheWay, AuthIsClients, AcceptIsServers, DataIsClients, HeaderIsSent

(* ... nor of a frame before both ends are through with it.                *)
LEMMA NoFrameYet ==
    ASSUME ClientFits', ServerFits', client'.at # "sent" \/ server'.at # "idle"
    PROVE  FrameArrives'
BY DEF ClientFits, ServerFits, FrameArrives

(* An end that fails remembers what it was.                                *)
LEMMA ClientGivesUp ==
    ASSUME ClientFits, client.at \in {"challenge", "accept"}, client' = Fails(client)
    PROVE  ClientFits' /\ client'.at = "failed" /\ Answered(client)' = client /\ Answered(client) = client
<1>1. client'.at = "failed" /\ client'.was = client /\ DOMAIN client' = {"at", "was"}
  BY DEF Fails
<1>2. /\ "session" \notin DOMAIN client
      /\ "key" \in DOMAIN client <=> client.at = "accept"
  BY DEF ClientFits
<1>3. ClientFits'
  BY <1>1, <1>2 DEF ClientFits
<1> QED BY <1>1, <1>3 DEF Answered

(* A change of one element.                                                *)
LEMMA Changed ==
    ASSUME NEW s, IsSeq(s), NEW k \in 1..Len(s), NEW e, NEW u, u = [s EXCEPT ![k] = e]
    PROVE  /\ IsSeq(u) /\ Len(u) = Len(s) /\ u[k] = e
           /\ \A i \in 1..Len(s) : i # k => u[i] = s[i]
<1> DEFINE S == {s[i] : i \in DOMAIN s} \cup {e}
<1>1. s \in Seq(S) /\ e \in S
  BY SeqMonotonic DEF IsSeq
<1> HIDE DEF S
<1>2. u \in Seq(S) /\ Len(u) = Len(s) /\ \A j \in 1..Len(s) : u[j] = IF j = k THEN e ELSE s[j]
  BY <1>1, ExceptSeq
<1>3. IsSeq(u)
  BY <1>2, SeqIsSeq
<1> QED BY <1>2, <1>3

(* Damage shortens a packet or changes a byte; of the body of an AUTH or a *)
(* DATA it leaves what was there, or noise.                                *)
LEMMA DamagedIs ==
    ASSUME wire # <<>>, IsSeq(wire), Damage
    PROVE  /\ IsSeq(wire') /\ Len(wire) \in Nat /\ Len(wire') \in Nat /\ Len(wire') <= Len(wire)
           /\ damage' = damage + 1 /\ client' = client /\ server' = server /\ sent' = sent
           /\ sent.type \in {TypeAuth, TypeData} /\ Len(wire') > HeaderSize =>
                  wire'[HeaderSize + 1] \in {Noise, wire[HeaderSize + 1]}
           /\ Len(wire') > HeaderSize + 1 => wire'[HeaderSize + 2] = wire[HeaderSize + 2]
<1>0. Len(wire) \in Nat
  BY LenProperties DEF IsSeq
<1>1. damage' = damage + 1 /\ client' = client /\ server' = server /\ sent' = sent
  BY DEF Damage
<1>2. CASE \E n \in {1, HeaderSize - 1, HeaderSize, Len(wire) - 1} :
              n < Len(wire) /\ wire' = SubSeq(wire, 1, n)
  <2>1. PICK n \in {1, HeaderSize - 1, HeaderSize, Len(wire) - 1} :
              n < Len(wire) /\ wire' = SubSeq(wire, 1, n)
    BY <1>2
  <2>2. Len(wire) > 0
    BY <1>0, EmptySeq DEF IsSeq
  <2>3. n \in Nat /\ n <= Len(wire) /\ 1 \in Nat \ {0}
    BY <1>0, <2>1, <2>2 DEF HeaderSize
  <2>4. /\ IsSeq(wire') /\ Len(wire') = (IF 1 <= n THEN n - 1 + 1 ELSE 0)
        /\ \A i \in 1..Len(wire') : wire'[i] = wire[1 + i - 1]
    BY <2>1, <2>3, Part
  <2>5. Len(wire') = n
    BY <2>3, <2>4
  <2>6. \A i \in 1..n : wire'[i] = wire[i]
    BY <2>3, <2>4, <2>5
  <2> QED BY <1>0, <1>1, <2>3, <2>4, <2>5, <2>6 DEF HeaderSize
<1>3. CASE \E i \in {2, 6, 14, 22, HeaderSize + 1} :
              /\ i <= Len(wire)
              /\ wire' = [wire EXCEPT ![i] = IF i > HeaderSize /\ sent.type \in {TypeAuth, TypeData}
                                             THEN [noise |-> TRUE] ELSE (@ + 1) % Bytes]
  <2>1. PICK k \in {2, 6, 14, 22, HeaderSize + 1} :
              /\ k <= Len(wire)
              /\ wire' = [wire EXCEPT ![k] = IF k > HeaderSize /\ sent.type \in {TypeAuth, TypeData}
                                             THEN [noise |-> TRUE] ELSE (wire[k] + 1) % Bytes]
    BY <1>3
  <2> DEFINE e == IF k > HeaderSize /\ sent.type \in {TypeAuth, TypeData}
                  THEN [noise |-> TRUE] ELSE (wire[k] + 1) % Bytes
  <2>2. k \in 1..Len(wire) /\ k # HeaderSize + 2 /\ (k = HeaderSize + 1 => k > HeaderSize)
    BY <1>0, <2>1 DEF HeaderSize
  <2>3. k = HeaderSize + 1 /\ sent.type \in {TypeAuth, TypeData} => e = Noise
    BY <2>2 DEF Noise
  <2>4. wire' = [wire EXCEPT ![k] = e]
    BY <2>1
  <2> HIDE DEF e
  <2>5. /\ IsSeq(wire') /\ Len(wire') = Len(wire)
        /\ \A i \in 1..Len(wire) : i # k => wire'[i] = wire[i]
        /\ wire'[k] = e
    <3>1. k \in 1..Len(wire)
      BY <2>2
    <3>2. IsSeq(wire')
      BY <3>1, <2>4, Changed
    <3>3. Len(wire') = Len(wire)
      BY <3>1, <2>4, Changed
    <3>4. \A i \in 1..Len(wire) : i # k => wire'[i] = wire[i]
      BY <3>1, <2>4, Changed
    <3>5. wire'[k] = e
      BY <3>1, <2>4, Changed
    <3> QED BY <3>2, <3>3, <3>4, <3>5
  <2>6. Len(wire) > HeaderSize => HeaderSize + 1 \in 1..Len(wire)
    BY <1>0 DEF HeaderSize
  <2>7. Len(wire) > HeaderSize + 1 => HeaderSize + 2 \in 1..Len(wire)
    BY <1>0 DEF HeaderSize
  <2> QED BY <1>0, <1>1, <2>2, <2>3, <2>5, <2>6, <2>7
<1> QED BY <1>2, <1>3 DEF Damage

(* Damage keeps the invariant.                                             *)
LEMMA DamageKeeps ==
    ASSUME KxInv, Damage
    PROVE  KxInv'
<1>1. wire # <<>> /\ IsSeq(wire) /\ damage \in Nat
  BY DEF Damage, KxInv, OnTheWay
<1>2. /\ IsSeq(wire') /\ Len(wire) \in Nat /\ Len(wire') \in Nat /\ Len(wire') <= Len(wire)
      /\ damage' = damage + 1 /\ client' = client /\ server' = server /\ sent' = sent
      /\ sent.type \in {TypeAuth, TypeData} /\ Len(wire') > HeaderSize =>
             wire'[HeaderSize + 1] \in {Noise, wire[HeaderSize + 1]}
      /\ Len(wire') > HeaderSize + 1 => wire'[HeaderSize + 2] = wire[HeaderSize + 2]
  BY <1>1, DamagedIs
<1>3. damage' \in Nat /\ damage' # 0
  BY <1>1, <1>2
<1>4. ClientFits' /\ ServerFits'
  BY <1>2 DEF KxInv, ClientFits, ServerFits
<1>5. InStep'
  BY <1>1, <1>2 DEF KxInv, InStep
<1>6. OnTheWay'
  BY <1>1, <1>2 DEF KxInv, OnTheWay
<1>7. AcceptIsServers' /\ HeaderIsSent'
  BY <1>3 DEF AcceptIsServers, HeaderIsSent
<1>0. HeaderSize \in Nat
  BY DEF HeaderSize
<1>8. AuthIsClients'
  <2> DEFINE c == Answered(client)
  <2> SUFFICES ASSUME sent.type = TypeAuth
               PROVE  /\ c.at = "accept"
                      /\ Len(wire') > HeaderSize =>
                             wire'[HeaderSize + 1] = Noise \/ wire'[HeaderSize + 1].mac = c.key
                      /\ Len(wire') > HeaderSize + 1 => wire'[HeaderSize + 2].plain = c.token
    BY <1>2 DEF AuthIsClients, Answered
  <2>1. /\ c.at = "accept"
        /\ Len(wire) > HeaderSize =>
              wire[HeaderSize + 1] = Noise \/ wire[HeaderSize + 1].mac = c.key
        /\ Len(wire) > HeaderSize + 1 => wire[HeaderSize + 2].plain = c.token
    BY <1>1 DEF KxInv, AuthIsClients
  <2>2. ASSUME Len(wire') > HeaderSize
        PROVE  wire'[HeaderSize + 1] = Noise \/ wire'[HeaderSize + 1].mac = c.key
    <3>1. Len(wire) > HeaderSize
      BY <1>0, <1>2, <2>2
    <3>2. wire'[HeaderSize + 1] = Noise \/ wire'[HeaderSize + 1] = wire[HeaderSize + 1]
      BY <1>2, <2>2
    <3> QED BY <2>1, <3>1, <3>2
  <2>3. ASSUME Len(wire') > HeaderSize + 1 PROVE wire'[HeaderSize + 2].plain = c.token
    <3>1. Len(wire) > HeaderSize + 1
      BY <1>0, <1>2, <2>3
    <3> QED BY <1>2, <2>1, <2>3, <3>1
  <2> QED BY <2>1, <2>2, <2>3
<1>9. DataIsClients'
  <2> SUFFICES ASSUME sent.type = TypeData
               PROVE  /\ sent = NewHeader(TypeData, client.session.id, 0, client.time)
                      /\ Len(wire') > HeaderSize =>
                             wire'[HeaderSize + 1] = Noise \/ <<wire'[HeaderSize + 1]>> = Frame
    BY <1>2, <1>3 DEF DataIsClients, Frame
  <2>1. /\ sent = NewHeader(TypeData, client.session.id, 0, client.time)
        /\ Len(wire) > HeaderSize =>
               wire[HeaderSize + 1] = Noise \/ <<wire[HeaderSize + 1]>> = Frame
    BY <1>1 DEF KxInv, DataIsClients
  <2>2. ASSUME Len(wire') > HeaderSize
        PROVE  wire'[HeaderSize + 1] = Noise \/ <<wire'[HeaderSize + 1]>> = Frame
    <3>1. Len(wire) > HeaderSize
      BY <1>0, <1>2, <2>2
    <3>2. wire'[HeaderSize + 1] = Noise \/ wire'[HeaderSize + 1] = wire[HeaderSize + 1]
      BY <1>2, <2>2
    <3> QED BY <2>1, <3>1, <3>2
  <2> QED BY <2>1, <2>2
<1>10. KeysAgree'
  BY <1>2, <1>3 DEF KxInv, KeysAgree
<1>11. FrameArrives'
  BY <1>2, <1>3 DEF KxInv, FrameArrives, Skew
<1> QED BY <1>3, <1>4, <1>5, <1>6, <1>7, <1>8, <1>9, <1>10, <1>11 DEF KxInv

(* An end that gives up, or a packet that is lost, leaves nothing to claim.*)
LEMMA GivingUpKeeps ==
    ASSUME KxInv, WaitsEnd \/ Drop
    PROVE  KxInv'
<1>1. CASE Drop
  <2>1. wire' = <<>> /\ UNCHANGED <<client, server, sent, damage>>
    BY <1>1 DEF Drop
  <2>2. damage' \in Nat /\ ClientFits' /\ ServerFits'
    BY <2>1 DEF KxInv, ClientFits, ServerFits
  <2>3. InStep' /\ KeysAgree' /\ FrameArrives'
    BY <2>1 DEF KxInv, InStep, KeysAgree, FrameArrives, Skew
  <2> QED BY <2>1, <2>2, <2>3, NothingUnderWay DEF KxInv
<1>2. CASE WaitsEnd
  <2>1. CASE /\ client.at \in {"challenge", "accept"} /\ client' = Fails(client)
             /\ UNCHANGED <<server, wire, sent, damage>>
    <3>1. ClientFits' /\ client'.at = "failed"
      BY <2>1, ClientGivesUp DEF KxInv
    <3>2. damage' \in Nat /\ ServerFits'
      BY <2>1 DEF KxInv, ServerFits
    <3>3. InStep' /\ KeysAgree'
      BY <2>1, <3>1 DEF KxInv, InStep, KeysAgree
    <3>4. OnTheWay'
      BY <2>1, <3>1 DEF KxInv, OnTheWay, InStep
    <3>5. AuthIsClients' /\ AcceptIsServers' /\ HeaderIsSent'
      BY <2>1, <3>1 DEF KxInv, AuthIsClients, AcceptIsServers, HeaderIsSent, Answered, Fails
    <3>6. DataIsClients'
      BY <2>1, <3>1, <3>4 DEF DataIsClients, OnTheWay, TypeHello, TypeChallenge, TypeAuth, TypeAccept, TypeData
    <3>7. FrameArrives'
      BY <3>1, <3>2, NoFrameYet
    <3> QED BY <3>1, <3>2, <3>3, <3>4, <3>5, <3>6, <3>7 DEF KxInv
  <2>2. CASE /\ server.at = "auth" /\ server' = Fails(server)
             /\ UNCHANGED <<client, wire, sent, damage>>
    <3>1. ServerFits' /\ server'.at = "failed"
      BY <2>2 DEF ServerFits, Fails
    <3>2. damage' \in Nat /\ ClientFits'
      BY <2>2 DEF KxInv, ClientFits
    <3>3. InStep' /\ KeysAgree'
      BY <2>2, <3>1 DEF KxInv, InStep, KeysAgree
    <3>4. OnTheWay'
      BY <2>2, <3>1 DEF KxInv, OnTheWay
    <3>5. AuthIsClients' /\ AcceptIsServers' /\ HeaderIsSent' /\ DataIsClients'
      BY <2>2, <3>1 DEF KxInv, AuthIsClients, AcceptIsServers, HeaderIsSent, DataIsClients, Frame, Answered
    <3>6. FrameArrives'
      BY <3>1, <3>2, NoFrameYet
    <3> QED BY <3>1, <3>2, <3>3, <3>4, <3>5, <3>6 DEF KxInv
  <2> QED BY <1>2, <2>1, <2>2 DEF WaitsEnd
<1> QED BY <1>1, <1>2

(* Which packet arrives where; the type it was sent with decides, not the  *)
(* one it now shows.                                                       *)
LEMMA Awaited ==
    ASSUME KxInv
    PROVE  /\ server.at = "hello" /\ Arrived(TypeHello) => sent.type = TypeHello
           /\ client.at = "challenge" /\ Arrived(TypeChallenge) => sent.type = TypeChallenge
           /\ server.at = "auth" /\ Arrived(TypeAuth) => sent.type = TypeAuth
           /\ client.at = "accept" /\ Arrived(TypeAccept) => sent.type = TypeAccept
           /\ server.at = "accepted" /\ Arrived(TypeData) => sent.type = TypeData
BY DEF KxInv, OnTheWay, Arrived, ToServer, TypeHello, TypeChallenge, TypeAuth, TypeAccept, TypeData

(* A packet that is put on the wire can be read, if its header fits.       *)
LEMMA PutKeeps ==
    ASSUME NEW type, NEW sid, NEW t \in Int, 0 - (Span64 \div 2) <= t, t < Span64 \div 2, NEW c, IsSeq(c),
           Puts(NewHeader(type, sid, 0, t), c), damage' = 0 => sid \in 0..(Span32 - 1)
    PROVE  /\ wire' # <<>> /\ IsSeq(wire') /\ sent'.type = type /\ HeaderIsSent'
           /\ Len(c) \in Nat /\ Len(wire') = HeaderSize + Len(c)
           /\ \A i \in 1..Len(c) : wire'[HeaderSize + i] = c[i]
<1>1. wire' = BuildPacket(NewHeader(type, sid, 0, t), c) /\ sent' = NewHeader(type, sid, 0, t)
  BY DEF Puts
<1>2. /\ wire' # <<>> /\ IsSeq(wire') /\ Len(c) \in Nat /\ Len(wire') = HeaderSize + Len(c)
      /\ \A i \in 1..Len(c) : wire'[HeaderSize + i] = c[i]
  BY <1>1, Built
<1>3. sent'.type = type
  BY <1>1 DEF NewHeader
<1>4. HeaderIsSent'
  BY <1>1, PacketDecodes DEF HeaderIsSent
<1> QED BY <1>2, <1>3, <1>4

(* A public key is KeySize bytes, whichever they are.                      *)
LEMMA PublicIsSeq == ASSUME NEW priv PROVE IsSeq(Public(priv))
<1> DEFINE e(i) == (Power(Base, priv) \div Bytes^(KeySize - i)) % Bytes
           u == [i \in 1..KeySize |-> e(i)]
           S == {e(i) : i \in 1..KeySize}
<1>1. Public(priv) = u
  BY DEF Public, ToBytes
<1>2. u \in [1..KeySize -> S]
  OBVIOUS
<1>3. KeySize \in Nat
  BY KxAssumption
<1> HIDE DEF S, u
<1>4. u \in Seq(S)
  BY <1>2, <1>3, SeqDef
<1> QED BY <1>1, <1>4, SeqIsSeq DEF u

(* The client's first packet (handshake.go: ClientHandshake).              *)
LEMMA HelloKeeps ==
    ASSUME KxInv, SendHello
    PROVE  KxInv'
<1>1. PICK k \in Scalars, t \in Clocks :
          /\ client' = [at |-> "challenge", priv |-> Clamp(k)]
          /\ Puts(NewHeader(TypeHello, 0, 0, t), EncodeHello(Public(Clamp(k))))
  BY DEF SendHello
<1>2. client.at = "hello" /\ server.at = "hello" /\ UNCHANGED <<server, damage>>
  BY DEF SendHello, KxInv, InStep
<1>3. IsSeq(EncodeHello(Public(Clamp(k))))
  <2>1. IsSeq(Public(Clamp(k)))
    BY PublicIsSeq
  <2> QED BY <2>1 DEF EncodeHello
<1>4. t \in Int /\ 0 - (Span64 \div 2) <= t /\ t < Span64 \div 2
  BY KxAssumption
<1>5. wire' # <<>> /\ IsSeq(wire') /\ sent'.type = TypeHello /\ HeaderIsSent'
  BY <1>1, <1>3, <1>4, SmallNumbers, PutKeeps
<1>6. ClientFits' /\ client'.at = "challenge"
  BY <1>1 DEF ClientFits
<1>7. damage' \in Nat /\ ServerFits' /\ server'.at = "hello"
  BY <1>2 DEF KxInv, ServerFits
<1>8. InStep' /\ KeysAgree' /\ OnTheWay'
  BY <1>5, <1>6, <1>7 DEF InStep, KeysAgree, OnTheWay
<1>9. AuthIsClients' /\ AcceptIsServers' /\ DataIsClients'
  BY <1>5, <1>6 DEF AuthIsClients, AcceptIsServers, DataIsClients, TypeHello, TypeAuth, TypeAccept, TypeData
<1>10. FrameArrives'
  BY <1>6, <1>7, NoFrameYet
<1> QED BY <1>5, <1>6, <1>7, <1>8, <1>9, <1>10 DEF KxInv

(* The server's answer (handshake.go: ServerHandshake, steps 1 to 4).      *)
LEMMA ChallengeKeeps ==
    ASSUME KxInv, ReceiveHello
    PROVE  KxInv'
<1>1. server.at = "hello" /\ Arrived(TypeHello) /\ UNCHANGED <<client, damage>>
  BY DEF ReceiveHello
<1>2. client.at \in {"challenge", "failed"}
  BY <1>1, Awaited DEF KxInv, OnTheWay, Arrived, TypeHello, TypeChallenge, TypeAuth, TypeAccept, TypeData
<1>3. damage' \in Nat /\ ClientFits' /\ client'.at = client.at
  BY <1>1 DEF KxInv, ClientFits
<1>4. CASE server' = Fails(server) /\ wire' = <<>>
  <2>1. ServerFits' /\ server'.at = "failed"
    BY <1>4 DEF ServerFits, Fails
  <2>2. InStep' /\ KeysAgree' /\ FrameArrives'
    BY <1>2, <1>3, <2>1, NoFrameYet DEF InStep, KeysAgree
  <2> QED BY <1>3, <1>4, <2>1, <2>2, NothingUnderWay DEF KxInv
<1>5. CASE \E k \in Scalars, ch \in Challenges :
               LET secret == SharedSecret(Clamp(k), DecodeHello(Body(wire)).pub)
               IN  /\ server' = IF secret = 0 THEN Fails(server)
                                ELSE [at |-> "auth", challenge |-> ch,
                                      key |-> DeriveSessionKey(secret, ch)]
                   /\ Puts(NewHeader(TypeChallenge, 0, 0, 0), EncodeChallenge(Public(Clamp(k)), ch))
  <2>1. PICK k \in Scalars, ch \in Challenges :
               LET secret == SharedSecret(Clamp(k), DecodeHello(Body(wire)).pub)
               IN  /\ server' = IF secret = 0 THEN Fails(server)
                                ELSE [at |-> "auth", challenge |-> ch,
                                      key |-> DeriveSessionKey(secret, ch)]
                   /\ Puts(NewHeader(TypeChallenge, 0, 0, 0), EncodeChallenge(Public(Clamp(k)), ch))
    BY <1>5
  <2>2. ServerFits' /\ server'.at \in {"auth", "failed"}
    BY <2>1 DEF ServerFits, Fails
  <2>3. IsSeq(EncodeChallenge(Public(Clamp(k)), ch))
    <3>1. IsSeq(Public(Clamp(k))) /\ IsSeq(ch)
      BY PublicIsSeq, SeqIsSeq, KxAssumption
    <3> QED BY <3>1, Joined DEF EncodeChallenge
  <2>4. wire' # <<>> /\ IsSeq(wire') /\ sent'.type = TypeChallenge /\ HeaderIsSent'
    BY <2>1, <2>3, SmallNumbers, PutKeeps
  <2>5. InStep' /\ KeysAgree' /\ OnTheWay'
    BY <1>2, <1>3, <2>2, <2>4 DEF InStep, KeysAgree, OnTheWay
  <2>6. AuthIsClients' /\ AcceptIsServers' /\ DataIsClients'
    BY <2>4 DEF AuthIsClients, AcceptIsServers, DataIsClients, TypeChallenge, TypeAuth, TypeAccept, TypeData
  <2>7. FrameArrives'
    BY <1>3, <2>2, NoFrameYet
  <2> QED BY <1>3, <2>2, <2>4, <2>5, <2>6, <2>7 DEF KxInv
<1> QED BY <1>4, <1>5 DEF ReceiveHello

(* The client's HMAC and its token (ClientHandshake, from step 3 on).      *)
LEMMA AuthKeeps ==
    ASSUME KxInv, ReceiveChallenge
    PROVE  KxInv'
<1>1. client.at = "challenge" /\ Arrived(TypeChallenge) /\ UNCHANGED <<server, damage>>
  BY DEF ReceiveChallenge
<1>2. server.at \in {"auth", "failed"}
  BY <1>1, Awaited DEF KxInv, OnTheWay, Arrived, TypeHello, TypeChallenge, TypeAuth, TypeAccept, TypeData
<1>3. damage' \in Nat /\ ServerFits' /\ server'.at = server.at
  BY <1>1 DEF KxInv, ServerFits
<1>4. CASE client' = Fails(client) /\ wire' = <<>>
  <2>1. ClientFits' /\ client'.at = "failed"
    BY <1>1, <1>4, ClientGivesUp DEF KxInv
  <2>2. InStep' /\ KeysAgree' /\ FrameArrives'
    BY <1>2, <1>3, <2>1, NoFrameYet DEF InStep, KeysAgree
  <2> QED BY <1>3, <1>4, <2>1, <2>2, NothingUnderWay DEF KxInv
<1>5. CASE \E key, challenge : \E token \in Tokens :
               LET enc == Sealed(NewSession(key, 0, "chacha20"), 0, token, challenge)
               IN  /\ client' = [at |-> "accept", key |-> key, token |-> token]
                   /\ Puts(NewHeader(TypeAuth, 0, 0, 0), EncodeAuth(HMACSign(key, challenge \o enc), enc))
  <2>1. PICK key, challenge, token :
               LET enc == Sealed(NewSession(key, 0, "chacha20"), 0, token, challenge)
               IN  /\ client' = [at |-> "accept", key |-> key, token |-> token]
                   /\ Puts(NewHeader(TypeAuth, 0, 0, 0), EncodeAuth(HMACSign(key, challenge \o enc), enc))
    BY <1>5
  <2> DEFINE enc == Sealed(NewSession(key, 0, "chacha20"), 0, token, challenge)
             mac == HMACSign(key, challenge \o enc)
             c == mac \o enc
  <2>2. /\ IsSeq(enc) /\ Len(enc) = 1 /\ enc[1].plain = token
        /\ IsSeq(mac) /\ Len(mac) = 1 /\ mac[1].mac = key
    BY Pair DEF Sealed, HMACSign
  <2>3. client' = [at |-> "accept", key |-> key, token |-> token] /\ Puts(NewHeader(TypeAuth, 0, 0, 0), c)
    BY <2>1 DEF EncodeAuth
  <2> HIDE DEF enc, mac
  <2>4. /\ IsSeq(c) /\ Len(c) = Len(mac) + Len(enc)
        /\ \A i \in 1..Len(mac) : c[i] = mac[i]
        /\ \A i \in 1..Len(enc) : c[Len(mac) + i] = enc[i]
    <3>1. IsSeq(mac) /\ IsSeq(enc)
      BY <2>2
    <3> QED BY <3>1, Joined
  <2> HIDE DEF c
  <2>5. Len(c) = 2 /\ c[1].mac = key /\ c[2].plain = token
    BY <2>2, <2>4
  <2>6. /\ wire' # <<>> /\ IsSeq(wire') /\ sent'.type = TypeAuth /\ HeaderIsSent'
        /\ Len(wire') = HeaderSize + Len(c)
        /\ \A i \in 1..Len(c) : wire'[HeaderSize + i] = c[i]
    BY <2>3, <2>4, SmallNumbers, PutKeeps
  <2>7. ClientFits' /\ client'.at = "accept" /\ client'.key = key /\ client'.token = token
    BY <2>3 DEF ClientFits
  <2>8. InStep' /\ KeysAgree' /\ OnTheWay'
    BY <1>2, <1>3, <2>6, <2>7 DEF InStep, KeysAgree, OnTheWay
  <2>9. AuthIsClients'
    BY <2>5, <2>6, <2>7 DEF AuthIsClients, Answered
  <2>10. AcceptIsServers' /\ DataIsClients'
    BY <2>6 DEF AcceptIsServers, DataIsClients, TypeAuth, TypeAccept, TypeData
  <2>11. FrameArrives'
    BY <1>3, <2>7, NoFrameYet
  <2> QED BY <1>3, <2>6, <2>7, <2>8, <2>9, <2>10, <2>11 DEF KxInv
<1> QED BY <1>4, <1>5 DEF ReceiveChallenge

(* The body of a packet, whatever is left of it.                           *)
LEMMA BodyIs ==
    ASSUME NEW w, IsSeq(w)
    PROVE  /\ IsSeq(Body(w)) /\ Len(w) \in Nat
           /\ Len(Body(w)) = IF HeaderSize < Len(w) THEN Len(w) - HeaderSize ELSE 0
           /\ \A i \in 1..Len(Body(w)) : Body(w)[i] = w[HeaderSize + i]
<1> DEFINE p == SubSeq(w, HeaderSize + 1, Len(w))
<1>1. HeaderSize \in Nat /\ HeaderSize + 1 \in Nat \ {0} /\ Len(w) \in Nat /\ Len(w) <= Len(w)
  BY LenProperties DEF IsSeq, HeaderSize
<1>2. /\ IsSeq(p) /\ Len(p) = IF HeaderSize + 1 <= Len(w) THEN Len(w) - (HeaderSize + 1) + 1 ELSE 0
      /\ \A i \in 1..Len(p) : p[i] = w[HeaderSize + 1 + i - 1]
  BY <1>1, Part
<1>3. Body(w) = p
  BY DEF Body
<1> HIDE DEF p
<1>4. Len(p) = (IF HeaderSize < Len(w) THEN Len(w) - HeaderSize ELSE 0) /\ Len(p) \in Nat
  BY <1>1, <1>2
<1>5. ASSUME NEW i \in 1..Len(p) PROVE p[i] = w[HeaderSize + i]
  <2>1. HeaderSize + 1 + i - 1 = HeaderSize + i
    BY <1>1, <1>4
  <2> QED BY <1>2, <2>1
<1> QED BY <1>1, <1>2, <1>3, <1>4, <1>5

(* What the server reads of an AUTH that is long enough.                   *)
LEMMA AuthRead ==
    ASSUME NEW w, IsSeq(w), ~IsErr(DecodeAuth(Body(w)))
    PROVE  /\ Len(w) > HeaderSize /\ DecodeAuth(Body(w)).hmac[1] = w[HeaderSize + 1]
           /\ Len(DecodeAuth(Body(w)).token) = 1 =>
                  /\ Len(w) > HeaderSize + 1
                  /\ DecodeAuth(Body(w)).token[1] = w[HeaderSize + 2]
<1> DEFINE b == Body(w)
           mac == SubSeq(b, 1, 1)
           tok == SubSeq(b, 2, Len(b))
<1>0. HeaderSize \in Nat
  BY DEF HeaderSize
<1>1. /\ IsSeq(b) /\ Len(w) \in Nat
      /\ Len(b) = IF HeaderSize < Len(w) THEN Len(w) - HeaderSize ELSE 0
      /\ \A i \in 1..Len(b) : b[i] = w[HeaderSize + i]
  BY BodyIs
<1>2. ~(Len(b) < 1)
  BY DEF DecodeAuth, IsErr, TooShort, HMACSize
<1>3. DecodeAuth(b).hmac = mac /\ DecodeAuth(b).token = tok
  BY <1>2 DEF DecodeAuth, HMACSize
<1>4. Len(b) \in Nat /\ 1 <= Len(b) /\ Len(b) = Len(w) - HeaderSize /\ Len(w) > HeaderSize
  BY <1>0, <1>1, <1>2
<1>5. 1 \in Nat \ {0} /\ 2 \in Nat \ {0} /\ 1 \in Nat /\ Len(b) <= Len(b)
  BY <1>4
<1>6. /\ IsSeq(mac) /\ Len(mac) = (IF 1 <= 1 THEN 1 - 1 + 1 ELSE 0)
      /\ \A i \in 1..Len(mac) : mac[i] = b[1 + i - 1]
  BY <1>1, <1>4, <1>5, Part
<1>7. /\ IsSeq(tok) /\ Len(tok) = (IF 2 <= Len(b) THEN Len(b) - 2 + 1 ELSE 0)
      /\ \A i \in 1..Len(tok) : tok[i] = b[2 + i - 1]
  BY <1>1, <1>4, <1>5, Part
<1> HIDE DEF b, mac, tok
<1>8. mac[1] = b[1]
  BY <1>6
<1>9. b[1] = w[HeaderSize + 1]
  BY <1>1, <1>4
<1>10. ASSUME Len(tok) = 1 PROVE Len(b) = 2 /\ tok[1] = b[2]
  BY <1>4, <1>7, <1>10
<1>11. ASSUME Len(b) = 2 PROVE b[2] = w[HeaderSize + 2] /\ Len(w) > HeaderSize + 1
  <2>1. 2 \in 1..Len(b) /\ Len(w) > HeaderSize + 1
    BY <1>0, <1>1, <1>4, <1>11
  <2> QED BY <1>1, <2>1
<1> QED BY <1>3, <1>4, <1>8, <1>9, <1>10, <1>11 DEF b

(* What the server accepts of it is what the client answered with.         *)
LEMMA AcceptsTheOffer ==
    ASSUME KxInv, ReceiveAuth, server' = ServerResult(server.key, DecodeAuth(Body(wire))),
           ~IsErr(DecodeAuth(Body(wire))),
           DecodeAuth(Body(wire)).hmac =
               HMACSign(server.key, server.challenge \o DecodeAuth(Body(wire)).token),
           Opens(NewSession(server.key, 0, "chacha20"), 0, DecodeAuth(Body(wire)).token, server.challenge)
    PROVE  /\ Answered(client).at = "accept"
           /\ server'.session.key = Answered(client).key /\ server'.token = Answered(client).token
<1> DEFINE auth == DecodeAuth(Body(wire))
           c == Answered(client)
<1>1. sent.type = TypeAuth /\ wire # <<>> /\ IsSeq(wire)
  BY Awaited DEF KxInv, OnTheWay, Arrived, ReceiveAuth
<1>2. /\ Len(wire) > HeaderSize /\ auth.hmac[1] = wire[HeaderSize + 1]
      /\ Len(auth.token) = 1 => Len(wire) > HeaderSize + 1 /\ auth.token[1] = wire[HeaderSize + 2]
  BY <1>1, AuthRead
<1>3. Len(auth.token) = 1
  BY DEF Opens
<1>4. auth.hmac[1] = [mac |-> server.key, of |-> server.challenge \o auth.token]
  BY DEF HMACSign
<1>5. server'.token = auth.token[1].plain /\ server'.session.key = server.key
  BY DEF ServerResult, NewSession
<1> HIDE DEF auth
<1>6. /\ c.at = "accept"
      /\ wire[HeaderSize + 1] = Noise \/ wire[HeaderSize + 1].mac = c.key
      /\ wire[HeaderSize + 2].plain = c.token
  BY <1>1, <1>2, <1>3 DEF KxInv, AuthIsClients
<1>7. wire[HeaderSize + 1].mac = server.key /\ wire[HeaderSize + 1] # Noise
  <2> DEFINE e == wire[HeaderSize + 1]
             m == server.challenge \o auth.token
  <2>1. e = [mac |-> server.key, of |-> m]
    BY <1>2, <1>4
  <2> HIDE DEF e, m
  <2>2. e.mac = server.key /\ DOMAIN e = {"mac", "of"} /\ DOMAIN Noise = {"noise"}
    BY <2>1 DEF Noise
  <2> QED BY <2>2 DEF e
<1>8. server.key = c.key
  BY <1>6, <1>7
<1> QED BY <1>2, <1>3, <1>5, <1>6, <1>8

(* The server's verdict on it (ServerHandshake, from step 5 on).           *)
LEMMA AuthVerdictKeeps ==
    ASSUME KxInv, ReceiveAuth
    PROVE  KxInv'
<1> DEFINE auth == DecodeAuth(Body(wire))
           tmp  == NewSession(server.key, 0, "chacha20")
<1>1. server.at = "auth" /\ Arrived(TypeAuth) /\ UNCHANGED <<client, damage>>
  BY DEF ReceiveAuth
<1>2. /\ sent.type = TypeAuth /\ wire # <<>> /\ IsSeq(wire) /\ client.at \in {"accept", "failed"}
  BY <1>1, Awaited DEF KxInv, OnTheWay, Arrived, TypeHello, TypeChallenge, TypeAuth, TypeAccept, TypeData
<1>3. damage' \in Nat /\ ClientFits' /\ client'.at = client.at
  BY <1>1 DEF KxInv, ClientFits
<1>4. CASE server' = Fails(server) /\ wire' = <<>>
  <2>1. ServerFits' /\ server'.at = "failed"
    BY <1>4 DEF ServerFits, Fails
  <2>2. InStep' /\ KeysAgree' /\ FrameArrives'
    BY <1>2, <1>3, <2>1, NoFrameYet DEF InStep, KeysAgree
  <2> QED BY <1>3, <1>4, <2>1, <2>2, NothingUnderWay DEF KxInv
<1>5. CASE /\ ~IsErr(auth)
           /\ auth.hmac = HMACSign(server.key, server.challenge \o auth.token)
           /\ Opens(tmp, 0, auth.token, server.challenge)
           /\ server' = ServerResult(server.key, auth)
           /\ Puts(NewHeader(TypeAccept, SessionID, 0, 0), EncodeAccept(SessionID, VirtualIP, MTU))
  <2>1. /\ Len(wire) > HeaderSize /\ auth.hmac[1] = wire[HeaderSize + 1]
        /\ Len(auth.token) = 1 => Len(wire) > HeaderSize + 1 /\ auth.token[1] = wire[HeaderSize + 2]
    BY <1>2, <1>5, AuthRead
  <2>2. Len(auth.token) = 1
    BY <1>5 DEF Opens
  <2>3. auth.hmac[1] = [mac |-> server.key, of |-> server.challenge \o auth.token]
    BY <1>5 DEF HMACSign
  <2>4. /\ server'.at = "accepted" /\ server'.token = auth.token[1].plain
        /\ server'.session = NewSession(server.key, SessionID, "chacha20")
        /\ ServerFits'
    BY <1>5 DEF ServerResult, ServerFits, NewSession
  <2>5. Puts(NewHeader(TypeAccept, SessionID, 0, 0), EncodeAccept(SessionID, VirtualIP, MTU))
    BY <1>5
  <2> HIDE DEF auth
  <2>6. client.at = "accept" => server'.session.key = client.key /\ server'.token = client.token
    BY <1>1, <1>5, AcceptsTheOffer DEF Answered, auth, tmp
  <2>7. KeysAgree'
    BY <1>1, <1>2, <2>6 DEF KeysAgree
  <2>8. IsSeq(EncodeAccept(SessionID, VirtualIP, MTU))
    BY AcceptIsSeq
  <2>9. wire' # <<>> /\ IsSeq(wire') /\ sent'.type = TypeAccept /\ HeaderIsSent'
    BY <2>5, <2>8, SmallNumbers, PutKeeps
  <2>10. InStep' /\ OnTheWay'
    BY <1>2, <1>3, <2>4, <2>9 DEF InStep, OnTheWay
  <2>11. AuthIsClients' /\ DataIsClients'
    BY <2>9 DEF AuthIsClients, DataIsClients, TypeAuth, TypeAccept, TypeData
  <2>12. AcceptIsServers'
    BY <2>5 DEF AcceptIsServers, Puts
  <2>13. FrameArrives'
    BY <1>3, <2>4, <1>2, NoFrameYet
  <2> QED BY <1>3, <2>4, <2>7, <2>9, <2>10, <2>11, <2>12, <2>13 DEF KxInv
<1> QED BY <1>4, <1>5 DEF ReceiveAuth

(* The client reads what it was given (ClientHandshake, step 7).           *)
LEMMA AcceptKeeps ==
    ASSUME KxInv, ReceiveAccept
    PROVE  KxInv'
<1> DEFINE ap == DecodeAccept(Body(wire))
<1>1. client.at = "accept" /\ Arrived(TypeAccept) /\ wire' = <<>> /\ UNCHANGED <<server, sent, damage>>
  BY DEF ReceiveAccept
<1>2. /\ sent.type = TypeAccept /\ wire # <<>> /\ server.at = "accepted"
  BY <1>1, Awaited DEF KxInv, OnTheWay, Arrived, TypeHello, TypeChallenge, TypeAuth, TypeAccept, TypeData
<1>3. damage' \in Nat /\ ServerFits' /\ server'.at = "accepted"
  BY <1>1, <1>2 DEF KxInv, ServerFits
<1>4. CASE IsErr(ap) /\ client' = Fails(client)
  <2>1. ClientFits' /\ client'.at = "failed"
    BY <1>1, <1>4, ClientGivesUp DEF KxInv
  <2>2. InStep' /\ KeysAgree' /\ FrameArrives'
    BY <1>3, <2>1, NoFrameYet DEF InStep, KeysAgree
  <2> QED BY <1>1, <1>3, <2>1, <2>2, NothingUnderWay DEF KxInv
<1>5. CASE ~IsErr(ap) /\ client' = ClientResult(client.key, client.token, ap)
  <2>1. /\ client'.at = "connected" /\ client'.token = client.token /\ ClientFits'
        /\ client'.ip = ap.virtualIP /\ client'.mtu = ap.mtu
        /\ client'.session = NewSession(client.key, ap.sessionID, "chacha20")
    BY <1>5 DEF ClientResult, ClientFits
  <2>2. server.session.key = client.key /\ server.token = client.token
    BY <1>1, <1>2 DEF KxInv, KeysAgree
  <2>3. client'.session.id = ap.sessionID
    BY <2>1 DEF NewSession
  <2>4. damage = 0 => ap.sessionID = SessionID /\ ap.virtualIP = VirtualIP /\ ap.mtu = MTU
    <3>1. ASSUME damage = 0 PROVE Body(wire) = EncodeAccept(SessionID, VirtualIP, MTU)
      BY <1>2, <3>1, AcceptIsSeq, Built DEF KxInv, AcceptIsServers
    <3> QED BY <3>1, AcceptRead
  <2> HIDE DEF ap
  <2>5. client'.session = NewSession(server'.session.key, client'.session.id, "chacha20")
    BY <1>1, <2>1, <2>2, <2>3
  <2>6. server'.token = client'.token
    BY <1>1, <2>1, <2>2
  <2>7. damage' = 0 => client'.session.id = SessionID /\ client'.ip = VirtualIP /\ client'.mtu = MTU
    BY <1>1, <2>1, <2>3, <2>4
  <2>8. KeysAgree'
    BY <2>1, <2>5, <2>6, <2>7 DEF KeysAgree
  <2>9. InStep' /\ FrameArrives'
    BY <1>3, <2>1, NoFrameYet DEF InStep
  <2> QED BY <1>1, <1>3, <2>1, <2>8, <2>9, NothingUnderWay DEF KxInv
<1> QED BY <1>4, <1>5 DEF ReceiveAccept

(* What opens is of the session, and under the header it was sealed with.  *)
LEMMA OpenedIs ==
    ASSUME KxInv, server.at = "accepted", wire # <<>>, sent.type = TypeData, NEW seq,
           Opens(server.session, seq, Body(wire), SubSeq(wire, 1, HeaderSize))
    PROVE  Body(wire)[1].plain = Framed(client.frame) /\ DecodeHeader(wire) = sent
<1> DEFINE b == Body(wire)
<1>1. /\ sent = NewHeader(TypeData, client.session.id, 0, client.time)
      /\ Len(wire) > HeaderSize =>
             wire[HeaderSize + 1] = Noise \/ <<wire[HeaderSize + 1]>> = Frame
      /\ client.at = "sent" /\ IsSeq(wire) /\ client.time \in Clocks
      /\ server.session = NewSession(server.session.key, SessionID, "chacha20")
  BY DEF KxInv, DataIsClients, OnTheWay, ClientFits, ServerFits,
         TypeHello, TypeChallenge, TypeAuth, TypeAccept, TypeData
<1>0. HeaderSize \in Nat
  BY DEF HeaderSize
<1>2. /\ IsSeq(b) /\ Len(wire) \in Nat
      /\ Len(b) = IF HeaderSize < Len(wire) THEN Len(wire) - HeaderSize ELSE 0
      /\ \A i \in 1..Len(b) : b[i] = wire[HeaderSize + i]
  BY <1>1, BodyIs
<1>3. /\ Len(b) = 1 /\ "by" \in DOMAIN b[1]
      /\ b[1].by = server.session /\ b[1].ad = SubSeq(wire, 1, HeaderSize)
  BY DEF Opens
<1> HIDE DEF b
<1>4. Len(wire) > HeaderSize /\ Len(wire) >= HeaderSize
  <2>1. Len(b) # 0
    BY <1>3
  <2>2. HeaderSize < Len(wire)
    BY <1>2, <2>1
  <2> QED BY <1>0, <1>2, <2>2
<1>5. b[1] = wire[HeaderSize + 1]
  <2>1. 1 \in 1..Len(b)
    BY <1>3
  <2> QED BY <1>2, <2>1
<1>6. wire[HeaderSize + 1] # Noise
  BY <1>3, <1>5 DEF Noise
<1>7. <<b[1]>> = Frame
  BY <1>1, <1>4, <1>5, <1>6
<1>8. b[1] = [by |-> client.session, nonce |-> DeriveNonce(client.session.id, 0),
              plain |-> Framed(client.frame), ad |-> EncodeHeader(sent)]
  BY <1>7 DEF Frame, Sealed
<1>9. SubSeq(wire, 1, HeaderSize) = EncodeHeader(sent) /\ client.session = server.session
  BY <1>3, <1>8
<1>10. client.session.id = SessionID
  BY <1>1, <1>9 DEF NewSession
<1>11. Carries(wire, 0, EncodeHeader(sent))
  <2> DEFINE p == SubSeq(wire, 1, HeaderSize)
  <2>1. 1 \in Nat \ {0}
    OBVIOUS
  <2>2. /\ IsSeq(p) /\ Len(p) = IF 1 <= HeaderSize THEN HeaderSize - 1 + 1 ELSE 0
        /\ \A i \in 1..Len(p) : p[i] = wire[1 + i - 1]
    BY <1>0, <1>1, <1>4, <2>1, Part
  <2> HIDE DEF p
  <2>3. Len(p) = HeaderSize
    BY <2>2 DEF HeaderSize
  <2>4. \A i \in 1..Len(p) : wire[0 + i] = p[i]
    BY <1>0, <2>2, <2>3
  <2>5. Carries(wire, 0, p)
    BY <1>0, <1>2, <1>4, <2>2, <2>3, <2>4 DEF Carries
  <2> QED BY <1>9, <2>5 DEF p
<1>12. client.time \in Int /\ 0 - (Span64 \div 2) <= client.time /\ client.time < Span64 \div 2
  BY <1>1, KxAssumption
<1>13. sent = NewHeader(TypeData, SessionID, 0, client.time)
  BY <1>1, <1>10
<1>14. Carries(wire, 0, EncodeHeader(NewHeader(TypeData, SessionID, 0, client.time)))
  BY <1>11, <1>13
<1>15. DecodeHeader(wire) = NewHeader(TypeData, SessionID, 0, client.time)
  BY <1>1, <1>12, <1>14, SmallNumbers, HeaderRead
<1> QED BY <1>8, <1>13, <1>15 DEF b

(* The first IP packet of a session is sealed (desktop/main.go:            *)
(* runDataLoop).                                                           *)
LEMMA SendFrameKeeps ==
    ASSUME KxInv, SendFrame
    PROVE  KxInv'
<1>1. PICK ip \in IPPackets, t \in Clocks :
          LET h == NewHeader(TypeData, client.session.id, 0, t)
          IN  /\ client' = HasSent(ip, t)
              /\ Puts(h, Sealed(client.session, 0, Framed(ip), EncodeHeader(h)))
  BY DEF SendFrame
<1>2. client.at = "connected" /\ server.at = "accepted" /\ UNCHANGED <<server, damage>>
  BY DEF SendFrame, KxInv, InStep
<1> DEFINE h == NewHeader(TypeData, client.session.id, 0, t)
           c == Sealed(client.session, 0, Framed(ip), EncodeHeader(h))
<1>3. /\ client'.at = "sent" /\ client'.session = client.session /\ client'.token = client.token
      /\ client'.ip = client.ip /\ client'.mtu = client.mtu
      /\ client'.frame = ip /\ client'.time = t /\ ClientFits'
  BY <1>1 DEF HasSent, ClientFits
<1>4. damage' \in Nat /\ ServerFits' /\ server'.at = "accepted"
  BY <1>2 DEF KxInv, ServerFits
<1>5. IsSeq(c) /\ Len(c) = 1 /\ c = <<c[1]>>
  BY Pair DEF Sealed
<1>6. t \in Int /\ 0 - (Span64 \div 2) <= t /\ t < Span64 \div 2
  BY KxAssumption
<1>7. damage' = 0 => client.session.id \in 0..(Span32 - 1)
  BY <1>2, SmallNumbers DEF KxInv, KeysAgree
<1>8. Puts(NewHeader(TypeData, client.session.id, 0, t), c)
  BY <1>1
<1>9. sent' = h /\ wire' = BuildPacket(h, c)
  BY <1>8 DEF Puts
<1>10. c = Frame'
  BY <1>3, <1>9 DEF Frame
<1> HIDE DEF c
<1>11. /\ wire' # <<>> /\ IsSeq(wire') /\ sent'.type = TypeData /\ HeaderIsSent'
       /\ \A i \in 1..Len(c) : wire'[HeaderSize + i] = c[i]
  BY <1>5, <1>6, <1>7, <1>8, PutKeeps
<1>12. wire'[HeaderSize + 1] = c[1]
  <2>1. 1 \in 1..Len(c)
    BY <1>5
  <2> QED BY <1>11, <2>1
<1>13. DataIsClients'
  BY <1>3, <1>5, <1>9, <1>10, <1>12 DEF DataIsClients
<1>14. InStep' /\ OnTheWay'
  BY <1>2, <1>3, <1>4, <1>11 DEF InStep, OnTheWay
<1>15. AuthIsClients' /\ AcceptIsServers'
  BY <1>11 DEF AuthIsClients, AcceptIsServers, TypeAuth, TypeAccept, TypeData
<1>16. KeysAgree'
  BY <1>2, <1>3 DEF KxInv, KeysAgree
<1>17. FrameArrives'
  BY <1>3, <1>4, NoFrameYet
<1> QED BY <1>3, <1>4, <1>11, <1>13, <1>14, <1>15, <1>16, <1>17 DEF KxInv

(* The server opens it (server/main.go: handleInbound).                    *)
LEMMA ReceiveFrameKeeps ==
    ASSUME KxInv, ReceiveFrame
    PROVE  KxInv'
<1> DEFINE h  == DecodeHeader(wire)
           ad == SubSeq(wire, 1, HeaderSize)
           fine(now) == Timely(now, h.time, Tolerance) /\ Opens(server.session, h.seq, Body(wire), ad)
           tun(now)  == IF fine(now) THEN Unframed(Body(wire)[1].plain) ELSE TooShort
<1>1. PICK now \in Clocks : server' = HasSeen(tun(now), now)
  BY DEF ReceiveFrame
<1>2. server.at = "accepted" /\ Arrived(TypeData) /\ wire' = <<>> /\ UNCHANGED <<client, sent, damage>>
  BY DEF ReceiveFrame
<1>3. sent.type = TypeData /\ wire # <<>> /\ client.at = "sent"
  BY <1>2, Awaited DEF KxInv, OnTheWay, Arrived, TypeHello, TypeChallenge, TypeAuth, TypeAccept, TypeData
<1>4. /\ server'.at = "idle" /\ server'.session = server.session /\ server'.token = server.token
      /\ server'.clock = now /\ server'.tun = tun(now)
      /\ "session" \in DOMAIN server' /\ "tun" \in DOMAIN server'
  BY <1>1 DEF HasSeen
<1>5. ServerFits' /\ damage' \in Nat /\ ClientFits' /\ client'.at = "sent"
  BY <1>2, <1>3, <1>4 DEF KxInv, ServerFits, ClientFits
<1>6. InStep' /\ KeysAgree'
  BY <1>2, <1>3, <1>4 DEF KxInv, InStep, KeysAgree
<1>7. client.frame \in IPPackets /\ client.time \in Clocks
  BY <1>3 DEF KxInv, ClientFits
<1>8. now \in Int /\ client.time \in Int
  BY <1>7, KxAssumption
<1> DEFINE skew == IF now < client.time THEN client.time - now ELSE now - client.time
<1>9. skew \in Nat /\ Skew' = skew
  BY <1>2, <1>4, <1>8 DEF Skew
<1>10. Unframed(Framed(client.frame)) = [ip |-> client.frame]
  <2>1. client.frame \in Seq(Byte) /\ Len(client.frame) < Span16
    BY <1>7, KxAssumption
  <2> QED BY <2>1, SeqIsSeq, FrameRead
<1>11. Tolerance \in Nat /\ Tolerance < Span64 \div 2
  BY KxAssumption
<1>12. skew < Span64 \div 2 => (Timely(now, client.time, Tolerance) <=> skew <= Tolerance)
  <2> HIDE DEF skew
  <2> QED BY <1>8, <1>9, TimelyIsClose DEF skew
<1>13. CASE fine(now)
  <2>1. Body(wire)[1].plain = Framed(client.frame) /\ h = sent
    BY <1>2, <1>3, <1>13, OpenedIs
  <2>2. tun(now) = [ip |-> client.frame]
    BY <1>10, <1>13, <2>1
  <2>3. h.time = client.time
    BY <1>3, <2>1 DEF KxInv, DataIsClients, NewHeader
  <2>4. Timely(now, client.time, Tolerance)
    BY <1>13, <2>3
  <2> HIDE DEF tun, skew
  <2>5. ~IsErr(server'.tun) /\ server'.tun.ip = client'.frame
    BY <1>2, <1>4, <2>2 DEF IsErr
  <2>6. FrameArrives'
    BY <1>9, <1>12, <2>4, <2>5 DEF FrameArrives
  <2> QED BY <1>2, <1>5, <1>6, <2>6, NothingUnderWay DEF KxInv
<1>14. CASE ~fine(now)
  <2>1. IsErr(server'.tun)
    <3>1. server'.tun = TooShort
      BY <1>4, <1>14
    <3>2. IsErr(TooShort)
      BY DEF IsErr, TooShort
    <3>3. IsErr(server'.tun) = IsErr(TooShort)
      BY <3>1, Zenon DEF IsErr
    <3> QED BY <3>2, <3>3, Zenon
  <2>2. ~(damage' = 0 /\ Skew' <= Tolerance)
    <3> SUFFICES ASSUME damage = 0, skew <= Tolerance PROVE FALSE
      BY <1>2, <1>9
    <3>1. wire = BuildPacket(sent, Frame) /\ h = sent
      BY <1>3 DEF KxInv, DataIsClients, HeaderIsSent
    <3>2. IsSeq(Frame)
      BY Pair DEF Frame, Sealed
    <3>3. Body(wire) = Frame /\ ad = EncodeHeader(sent)
      BY <3>1, <3>2, Built
    <3>4. h.time = client.time /\ h.seq = 0
      BY <1>3, <3>1 DEF KxInv, DataIsClients, NewHeader
    <3>5. client.session = server.session
      <4>1. client.session = NewSession(server.session.key, client.session.id, "chacha20")
            /\ client.session.id = SessionID
        BY <1>3 DEF KxInv, KeysAgree
      <4>2. server.session = NewSession(server.session.key, SessionID, "chacha20")
        BY <1>2 DEF KxInv, ServerFits
      <4> QED BY <4>1, <4>2
    <3>6. Opens(server.session, h.seq, Body(wire), ad)
      <4>1. Opens(client.session, 0, Frame, EncodeHeader(sent))
        BY Pair DEF Opens, Frame, Sealed
      <4> QED BY <3>3, <3>4, <3>5, <4>1
    <3>7. Timely(now, h.time, Tolerance)
      <4> HIDE DEF skew
      <4>1. skew < Span64 \div 2
        BY <1>9, <1>11, Spans
      <4> QED BY <1>12, <3>4, <4>1
    <3> QED BY <1>14, <3>6, <3>7
  <2>3. FrameArrives'
    BY <2>1, <2>2 DEF FrameArrives
  <2> QED BY <1>2, <1>5, <1>6, <2>3, NothingUnderWay DEF KxInv
<1> QED BY <1>13, <1>14

(* The exchange is what either end makes of it, whatever is damaged.       *)
THEOREM KxInvariant == KxSpec => []KxInv
<1>1. KxInit => KxInv
  <2> SUFFICES ASSUME KxInit PROVE KxInv
    OBVIOUS
  <2>1. client = [at |-> "hello"] /\ server = [at |-> "hello"] /\ wire = <<>> /\ damage = 0
    BY DEF KxInit
  <2>2. ClientFits /\ ServerFits
    BY <2>1 DEF ClientFits, ServerFits
  <2>3. InStep /\ KeysAgree /\ FrameArrives
    BY <2>1 DEF InStep, KeysAgree, FrameArrives
  <2>4. OnTheWay /\ AuthIsClients /\ AcceptIsServers /\ DataIsClients /\ HeaderIsSent
    BY <2>1 DEF OnTheWay, AuthIsClients, AcceptIsServers, DataIsClients, HeaderIsSent
  <2> QED BY <2>1, <2>2, <2>3, <2>4 DEF KxInv
<1>2. KxInv /\ [KxNext]_kxVars => KxInv'
  <2> SUFFICES ASSUME KxInv, [KxNext]_kxVars PROVE KxInv'
    OBVIOUS
  <2>1. CASE UNCHANGED kxVars
    <3>1. client' = client /\ server' = server /\ wire' = wire /\ sent' = sent /\ damage' = damage
      BY <2>1 DEF kxVars
    <3>2. damage' \in Nat /\ ClientFits' /\ ServerFits' /\ InStep' /\ OnTheWay'
      BY <3>1 DEF KxInv, ClientFits, ServerFits, InStep, OnTheWay
    <3>3. AuthIsClients' /\ AcceptIsServers' /\ DataIsClients' /\ HeaderIsSent'
      BY <3>1 DEF KxInv, AuthIsClients, AcceptIsServers, DataIsClients, HeaderIsSent, Frame, Answered
    <3>4. KeysAgree' /\ FrameArrives'
      BY <3>1 DEF KxInv, KeysAgree, FrameArrives, Skew
    <3> QED BY <3>2, <3>3, <3>4 DEF KxInv
  <2>2. CASE SendHello
    BY <2>2, HelloKeeps
  <2>3. CASE ReceiveHello
    BY <2>3, ChallengeKeeps
  <2>4. CASE ReceiveChallenge
    BY <2>4, AuthKeeps
  <2>5. CASE ReceiveAuth
    BY <2>5, AuthVerdictKeeps
  <2>6. CASE ReceiveAccept
    BY <2>6, AcceptKeeps
  <2>7. CASE SendFrame
    BY <2>7, SendFrameKeeps
  <2>8. CASE ReceiveFrame
    BY <2>8, ReceiveFrameKeeps
  <2>9. CASE Drop \/ WaitsEnd
    BY <2>9, GivingUpKeeps
  <2>10. CASE Damage
    BY <2>10, DamageKeeps
  <2> QED BY <2>1, <2>2, <2>3, <2>4, <2>5, <2>6, <2>7, <2>8, <2>9, <2>10 DEF KxNext
<1> QED BY <1>1, <1>2, PTL DEF KxSpec

(* Two ends that are through the handshake have the same session, and each *)
(* what the other meant it to have (handshake.go).                         *)
THEOREM SessionsAgree == KxSpec => []ExchangeAgrees
<1>1. KxInv => ExchangeAgrees
  <2> SUFFICES ASSUME KxInv PROVE ExchangeAgrees
    OBVIOUS
  <2>1. ASSUME "session" \in DOMAIN server, "key" \in DOMAIN client
        PROVE  server.session.key = client.key /\ server.token = client.token
    BY <2>1 DEF KxInv, ClientFits, ServerFits, KeysAgree
  <2>2. ASSUME "session" \in DOMAIN client, damage = 0
        PROVE  /\ client.session = server.session /\ server.token = client.token
               /\ client.ip = VirtualIP /\ client.mtu = MTU
    <3>1. client.at \in {"connected", "sent"} /\ server.at \in {"accepted", "idle"}
      BY <2>2 DEF KxInv, ClientFits, InStep
    <3>2. server.session = NewSession(server.session.key, SessionID, "chacha20")
      BY <3>1 DEF KxInv, ServerFits
    <3>3. /\ client.session = NewSession(server.session.key, client.session.id, "chacha20")
          /\ server.token = client.token
          /\ client.session.id = SessionID /\ client.ip = VirtualIP /\ client.mtu = MTU
      BY <2>2, <3>1 DEF KxInv, KeysAgree
    <3> QED BY <3>2, <3>3
  <2> QED BY <2>1, <2>2 DEF ExchangeAgrees
<1> QED BY <1>1, KxInvariant, PTL

(* An undamaged packet decodes to the header it was built from, and would  *)
(* come through obfuscation as it is (protocol.go: EncodeHeader,           *)
(* DecodeHeader; transport.go: obfuscate, deobfuscate).                    *)
THEOREM UndamagedIsRead == KxSpec => []WireIsReadable
<1>1. KxInv => WireIsReadable
  BY EveryRoundTrip DEF KxInv, HeaderIsSent, WireIsReadable
<1> QED BY <1>1, KxInvariant, PTL

(* The first IP packet of a session arrives as it was, or does not arrive: *)
(* damaged, or with a clock off by more than the tolerance (desktop/       *)
(* main.go: runDataLoop, server/main.go: handleInbound).                   *)
THEOREM FirstFrameArrives == KxSpec => []FrameArrives
<1>1. KxInv => FrameArrives
  BY DEF KxInv
<1> QED BY <1>1, KxInvariant, PTL

(* An end that gives up has offered what it had, or accepted nothing.      *)
LEMMA GivingUpAgrees ==
    ASSUME KxInv,
           \/ client.at \in {"challenge", "accept"} /\ client' = Fails(client) /\ server' = server
           \/ server.at \in {"hello", "auth"} /\ server' = Fails(server) /\ client' = client
    PROVE  UNCHANGED Agreed!agreementVars
<1>1. CASE client.at \in {"challenge", "accept"} /\ client' = Fails(client) /\ server' = server
  <2>1. Answered(client)' = Answered(client)
    BY <1>1, ClientGivesUp DEF KxInv
  <2>2. "session" \notin DOMAIN client /\ "session" \notin DOMAIN client'
    BY <1>1 DEF KxInv, ClientFits, Fails
  <2> QED BY <1>1, <2>1, <2>2 DEF OfferMade, OfferAccepted, Agreed!agreementVars
<1>2. CASE server.at \in {"hello", "auth"} /\ server' = Fails(server) /\ client' = client
  <2>1. "session" \notin DOMAIN server /\ "session" \notin DOMAIN server'
    BY <1>2 DEF KxInv, ServerFits, Fails
  <2> QED BY <1>2, <2>1 DEF OfferMade, OfferAccepted, Answered, Agreed!agreementVars
<1> QED BY <1>1, <1>2

(* An AUTH is the client's offer (handshake.go: ClientHandshake).          *)
LEMMA ChallengeAgrees ==
    ASSUME KxInv, ReceiveChallenge
    PROVE  [Agreed!AgreementNext]_(Agreed!agreementVars)
<1>1. client.at = "challenge" /\ server' = server
  BY DEF ReceiveChallenge
<1>2. CASE client' = Fails(client)
  BY <1>1, <1>2, GivingUpAgrees
<1>3. CASE \E key, token : client' = [at |-> "accept", key |-> key, token |-> token]
  <2>1. PICK key, token : client' = [at |-> "accept", key |-> key, token |-> token]
    BY <1>3
  <2>2. OfferMade = {}
    <3>1. Answered(client) = client
      BY <1>1 DEF Answered
    <3>2. "key" \notin DOMAIN client /\ "session" \notin DOMAIN client
      BY <1>1 DEF KxInv, ClientFits
    <3> QED BY <3>1, <3>2 DEF OfferMade
  <2>3. OfferMade' = {[key |-> key, token |-> token]}
    BY <2>1 DEF OfferMade, Answered
  <2>4. OfferAccepted' = OfferAccepted
    BY <1>1 DEF OfferAccepted
  <2>5. ("session" \in DOMAIN client)' = ("session" \in DOMAIN client)
    BY <1>1, <2>1 DEF KxInv, ClientFits
  <2> QED BY <2>2, <2>3, <2>4, <2>5 DEF Agreed!AgreementNext, Agreed!Offers
<1> QED BY <1>2, <1>3 DEF ReceiveChallenge

(* The server accepts that offer (handshake.go: ServerHandshake).          *)
LEMMA AuthAgrees ==
    ASSUME KxInv, ReceiveAuth
    PROVE  [Agreed!AgreementNext]_(Agreed!agreementVars)
<1> DEFINE auth == DecodeAuth(Body(wire))
           c == Answered(client)
<1>1. server.at = "auth" /\ client' = client
  BY DEF ReceiveAuth
<1>2. CASE server' = Fails(server)
  BY <1>1, <1>2, GivingUpAgrees
<1>3. CASE /\ ~IsErr(auth)
           /\ auth.hmac = HMACSign(server.key, server.challenge \o auth.token)
           /\ Opens(NewSession(server.key, 0, "chacha20"), 0, auth.token, server.challenge)
           /\ server' = ServerResult(server.key, auth)
  <2>1. c.at = "accept" /\ server'.session.key = c.key /\ server'.token = c.token
    BY <1>3, AcceptsTheOffer
  <2>2. "key" \in DOMAIN c
    BY <1>1, <2>1 DEF KxInv, ClientFits, InStep, Answered
  <2>3. OfferMade = {[key |-> c.key, token |-> c.token]} /\ OfferMade' = OfferMade
    BY <1>1, <2>2 DEF OfferMade, Answered
  <2>4. OfferAccepted = {}
    BY <1>1 DEF KxInv, ServerFits, OfferAccepted
  <2>5. OfferAccepted' = {[key |-> c.key, token |-> c.token]}
    <3>1. "session" \in DOMAIN server'
      BY <1>3 DEF ServerResult
    <3> QED BY <2>1, <3>1 DEF OfferAccepted
  <2> QED BY <1>1, <2>3, <2>4, <2>5 DEF Agreed!AgreementNext, Agreed!Accepts
<1> QED BY <1>2, <1>3 DEF ReceiveAuth

(* And only then the client is through.                                    *)
LEMMA AcceptAgrees ==
    ASSUME KxInv, ReceiveAccept
    PROVE  [Agreed!AgreementNext]_(Agreed!agreementVars)
<1> DEFINE ap == DecodeAccept(Body(wire))
<1>1. client.at = "accept" /\ Arrived(TypeAccept) /\ server' = server
  BY DEF ReceiveAccept
<1>2. server.at = "accepted"
  BY <1>1, Awaited DEF KxInv, OnTheWay, Arrived, TypeHello, TypeChallenge, TypeAuth, TypeAccept, TypeData
<1>3. CASE client' = Fails(client)
  BY <1>1, <1>3, GivingUpAgrees
<1>4. CASE client' = ClientResult(client.key, client.token, ap)
  <2>1. /\ client'.at = "connected" /\ client'.token = client.token
        /\ client'.session.key = client.key
        /\ "key" \notin DOMAIN client' /\ "session" \in DOMAIN client'
    BY <1>4 DEF ClientResult, NewSession
  <2>2. OfferMade = {[key |-> client.key, token |-> client.token]}
    BY <1>1 DEF KxInv, ClientFits, OfferMade, Answered
  <2>3. OfferMade' = {[key |-> client.key, token |-> client.token]}
    BY <2>1 DEF OfferMade, Answered
  <2>4. OfferAccepted # {} /\ OfferAccepted' = OfferAccepted
    BY <1>1, <1>2 DEF KxInv, ServerFits, OfferAccepted
  <2>5. ("session" \in DOMAIN client)' = TRUE
    BY <2>1
  <2> QED BY <2>2, <2>3, <2>4, <2>5 DEF Agreed!AgreementNext, Agreed!Joins
<1> QED BY <1>3, <1>4 DEF ReceiveAccept

(* The other steps are none of the agreement's.                            *)
LEMMA OthersAgree ==
    ASSUME KxInv, SendHello \/ ReceiveHello \/ SendFrame \/ ReceiveFrame
    PROVE  UNCHANGED Agreed!agreementVars
<1>1. CASE SendHello
  <2>1. client.at = "hello" /\ server' = server
    BY <1>1 DEF SendHello
  <2>2. \E priv : client' = [at |-> "challenge", priv |-> priv]
    BY <1>1 DEF SendHello
  <2>3. "key" \notin DOMAIN client /\ "session" \notin DOMAIN client
    BY <2>1 DEF KxInv, ClientFits
  <2>4. "key" \notin DOMAIN client' /\ "session" \notin DOMAIN client' /\ client'.at = "challenge"
    BY <2>2
  <2>5. OfferMade = {} /\ OfferMade' = {}
    BY <2>1, <2>3, <2>4 DEF OfferMade, Answered
  <2> QED BY <2>1, <2>3, <2>4, <2>5 DEF OfferAccepted, Agreed!agreementVars
<1>2. CASE ReceiveHello
  <2>1. server.at = "hello" /\ client' = client
    BY <1>2 DEF ReceiveHello
  <2>2. CASE server' = Fails(server)
    BY <2>1, <2>2, GivingUpAgrees
  <2>3. CASE \E ch, key : server' = [at |-> "auth", challenge |-> ch, key |-> key]
    <3>1. "session" \notin DOMAIN server /\ "session" \notin DOMAIN server'
      BY <2>1, <2>3 DEF KxInv, ServerFits
    <3> QED BY <2>1, <3>1 DEF OfferMade, OfferAccepted, Answered, Agreed!agreementVars
  <2> QED BY <1>2, <2>2, <2>3 DEF ReceiveHello
<1>3. CASE SendFrame
  <2>1. client.at = "connected" /\ server' = server /\ \E ip, t : client' = HasSent(ip, t)
    BY <1>3 DEF SendFrame
  <2>2. "key" \notin DOMAIN client /\ "session" \in DOMAIN client
    BY <2>1 DEF KxInv, ClientFits
  <2>3. /\ "key" \notin DOMAIN client' /\ "session" \in DOMAIN client' /\ client'.at = "sent"
        /\ client'.session = client.session /\ client'.token = client.token
    BY <2>1 DEF HasSent
  <2>4. OfferMade' = OfferMade
    BY <2>1, <2>2, <2>3 DEF OfferMade, Answered
  <2> QED BY <2>1, <2>2, <2>3, <2>4 DEF OfferAccepted, Agreed!agreementVars
<1>4. CASE ReceiveFrame
  <2>1. server.at = "accepted" /\ client' = client /\ \E tun, now : server' = HasSeen(tun, now)
    BY <1>4 DEF ReceiveFrame
  <2>2. "session" \in DOMAIN server
    BY <2>1 DEF KxInv, ServerFits
  <2>3. /\ "session" \in DOMAIN server'
        /\ server'.session = server.session /\ server'.token = server.token
    BY <2>1 DEF HasSeen
  <2>4. OfferAccepted' = OfferAccepted
    BY <2>2, <2>3 DEF OfferAccepted
  <2> QED BY <2>1, <2>4 DEF OfferMade, Answered, Agreed!agreementVars
<1> QED BY <1>1, <1>2, <1>3, <1>4

(* ImplementsAgreement: the server accepts what the client offered it or   *)
(* nothing, and the client is through only after that, whatever becomes of *)
(* the packets and whoever has given up (handshake.go: ClientHandshake,    *)
(* ServerHandshake).                                                       *)
THEOREM ExchangeImplementsAgreement == KxSpec => ImplementsAgreement
<1>1. KxInit => Agreed!AgreementInit
  BY DEF KxInit, Agreed!AgreementInit, OfferMade, OfferAccepted, Answered
<1>2. KxInv /\ [KxNext]_kxVars => [Agreed!AgreementNext]_(Agreed!agreementVars)
  <2> SUFFICES ASSUME KxInv, [KxNext]_kxVars PROVE [Agreed!AgreementNext]_(Agreed!agreementVars)
    OBVIOUS
  <2>1. CASE UNCHANGED kxVars \/ Drop \/ Damage
    <3>1. client' = client /\ server' = server
      BY <2>1 DEF kxVars, Drop, Damage
    <3> QED BY <3>1 DEF OfferMade, OfferAccepted, Answered, Agreed!agreementVars
  <2>2. CASE SendHello \/ ReceiveHello \/ SendFrame \/ ReceiveFrame
    BY <2>2, OthersAgree
  <2>3. CASE ReceiveChallenge
    BY <2>3, ChallengeAgrees
  <2>4. CASE ReceiveAuth
    BY <2>4, AuthAgrees
  <2>5. CASE ReceiveAccept
    BY <2>5, AcceptAgrees
  <2>6. CASE WaitsEnd
    <3>1. UNCHANGED Agreed!agreementVars
      BY <2>6, GivingUpAgrees DEF WaitsEnd
    <3> QED BY <3>1
  <2> QED BY <2>1, <2>2, <2>3, <2>4, <2>5, <2>6 DEF KxNext
<1> QED BY <1>1, <1>2, KxInvariant, PTL DEF KxSpec, ImplementsAgreement, Agreed!AgreementSpec
=============================================================================
