---------------------------- MODULE ReplayWindow ----------------------------
(***************************************************************************)
(* One direction of an encryption.Session: the sender's Seal counter and   *)
(* the receiver's Open with its ReplayWindow (core/encryption).  UDP may   *)
(* lose, duplicate, reorder and damage packets, so any sealed packet may   *)
(* reach Open at any time and any number of times.  Each session is opened *)
(* by a single goroutine (the server's dispatchLoop, a client's receive    *)
(* goroutine), so a whole Open is one step.                                *)
(***************************************************************************)
EXTENDS Naturals

CONSTANTS WordBits,     \* bits of a bitmap word (64 in the code)
          WindowSize,   \* argument of NewReplayWindow (256 in the code)
          SeqSpace,     \* size of the sequence space: uint64 wraps at 2^64
          MaxSeq        \* bound: the largest sequence number sealed

ASSUME WindowAssumption == /\ WordBits \in Nat \ {0}
                           /\ WindowSize \in Nat \ {0}
                           /\ SeqSpace \in Nat
                           /\ MaxSeq \in Nat
                           /\ MaxSeq < SeqSpace

VARIABLES sendSeq,      \* Session.sendSeq of the peer that seals
          maxSeen,      \* ReplayWindow.maxSeen
          bitmap,       \* ReplayWindow.bitmap: the set bits of each word
          opened,       \* history: how often Open has returned each number
          result        \* what the last Open returned

vars == <<sendSeq, maxSeen, bitmap, opened, result>>

Seqs  == 0..MaxSeq
Words == (WindowSize + WordBits - 1) \div WordBits
Bits  == 0..(WordBits - 1)

TypeOK == /\ sendSeq \in 0..(MaxSeq + 1)
          /\ maxSeen \in Seqs
          /\ bitmap \in [0..(Words - 1) -> SUBSET Bits]
          /\ opened \in [Seqs -> Nat]
          /\ result \in {"none", "ok", "window exceeded", "replay", "decrypt failed"}
-----------------------------------------------------------------------------
Word(idx) == idx \div WordBits
Bit(idx)  == idx % WordBits

(* A mutant: one slot more is taken to be in the window.                   *)
TooOldOffByOne(s) == (s + WindowSize) % SeqSpace < maxSeen

(* seqNum + size is uint64 arithmetic: it wraps.                           *)
TooOld(s) == (s + WindowSize) % SeqSpace <= maxSeen

Seen(s) == /\ s <= maxSeen
           /\ Word(maxSeen - s) < Words
           /\ Bit(maxSeen - s) \in bitmap[Word(maxSeen - s)]

(* The bits of one word after << k and >> k.                               *)
ShiftUp(word, k)   == {b \in Bits : b >= k /\ b - k \in word}
ShiftDown(word, k) == {b \in Bits : b + k \in word}

(* A mutant: the shift forgets the carry between words.                    *)
ShiftedWithoutCarry(n) ==
    [i \in 0..(Words - 1) |->
        IF n >= WindowSize \/ i < n \div WordBits THEN {}
        ELSE ShiftUp(bitmap[i - (n \div WordBits)], n % WordBits)]

(* The loop runs from the highest word down and reads only words at or     *)
(* below the one it writes, so every word is computed from the old bitmap. *)
Shifted(n) ==
    LET words == n \div WordBits
        bits  == n % WordBits
    IN  IF n >= WindowSize
        THEN [i \in 0..(Words - 1) |-> {}]
        ELSE [i \in 0..(Words - 1) |->
                IF i < words THEN {}
                ELSE ShiftUp(bitmap[i - words], bits) \cup
                     (IF bits > 0 /\ i > words
                      THEN ShiftDown(bitmap[i - words - 1], WordBits - bits)
                      ELSE {})]

Advanced(s) == IF s > maxSeen THEN Shifted(s - maxSeen) ELSE bitmap

(* A mutant: the window moves and its bits stay.                           *)
MarkWithoutShift(s) ==
    LET top == IF s > maxSeen THEN s ELSE maxSeen
    IN  /\ maxSeen' = top
        /\ bitmap' = [bitmap EXCEPT ![Word(top - s)] = @ \cup {Bit(top - s)}]

(* Mark: shift so that s is the newest slot if it is ahead, then set the   *)
(* bit of s when its word exists.                                          *)
Mark(s) ==
    LET top  == IF s > maxSeen THEN s ELSE maxSeen
        word == Word(top - s)
        map  == Advanced(s)
    IN  /\ maxSeen' = top
        /\ bitmap' = IF word < Words
                     THEN [map EXCEPT ![word] = @ \cup {Bit(top - s)}]
                     ELSE map
-----------------------------------------------------------------------------
Init == /\ sendSeq = 0
        /\ maxSeen = 0
        /\ bitmap = [i \in 0..(Words - 1) |-> {}]
        /\ opened = [s \in Seqs |-> 0]
        /\ result = "none"

Seal == /\ sendSeq <= MaxSeq
        /\ sendSeq' = sendSeq + 1
        /\ UNCHANGED <<maxSeen, bitmap, opened, result>>

Rejected(why) == /\ result' = why
                 /\ UNCHANGED <<sendSeq, maxSeen, bitmap, opened>>

(* Open of a packet numbered s, genuine or damaged on the way.  Decryption *)
(* succeeds on genuine packets only, and only those are marked.            *)
Open(s, genuine) ==
    /\ genuine => s < sendSeq
    /\ \/ /\ TooOld(s)
          /\ Rejected("window exceeded")
       \/ /\ ~TooOld(s)
          /\ Seen(s)
          /\ Rejected("replay")
       \/ /\ ~TooOld(s)
          /\ ~Seen(s)
          /\ ~genuine
          /\ Rejected("decrypt failed")
       \/ /\ ~TooOld(s)
          /\ ~Seen(s)
          /\ genuine
          /\ Mark(s)
          /\ opened' = [opened EXCEPT ![s] = @ + 1]
          /\ result' = "ok"
          /\ UNCHANGED sendSeq

Next == Seal \/ \E s \in Seqs, genuine \in BOOLEAN : Open(s, genuine)

Spec == Init /\ [][Next]_vars
-----------------------------------------------------------------------------
Accepted == {s \in Seqs : opened[s] > 0}

(* No packet is delivered twice, however the network duplicates and        *)
(* reorders it (Session.Open's replay protection).                         *)
AtMostOnce == \A s \in Seqs : opened[s] <= 1

(* The bitmap is exactly the recent past: the slot idx below maxSeen is    *)
(* set if and only if that sequence number was accepted, so neither the    *)
(* word shift nor its carry ever loses, invents or moves a bit.            *)
BitmapExact ==
    \A s \in Seqs : (s <= maxSeen /\ maxSeen < s + WindowSize)
                        => (Seen(s) <=> opened[s] > 0)

(* maxSeen is the highest number accepted; an early packet that failed to  *)
(* decrypt has not moved the window.                                       *)
MaxSeenIsAccepted == /\ \A s \in Accepted : s <= maxSeen
                     /\ Accepted # {} => maxSeen \in Accepted

(* As long as no number is within WindowSize of the wrap, the bitmap       *)
(* implements the window of SlidingWindow: it rejects nothing but damaged, *)
(* repeated and too old packets.                                           *)
Window == INSTANCE SlidingWindow
             WITH sealed   <- sendSeq,
                  accepted <- Accepted,
                  verdict  <- IF result = "none" THEN "none"
                              ELSE IF result = "ok" THEN "accepted" ELSE "rejected"

ImplementsWindow == Window!Spec
=============================================================================
