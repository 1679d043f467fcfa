------------------------- MODULE ReplayWindowProofs -------------------------
(***************************************************************************)
(* What a session promises its packets, proved for every size and traffic. *)
(* ReplayWindow: the bitmap is the abstract window, which accepts a number *)
(* once.  DataPlane: its windows are such ones, and with the network       *)
(* between them its two ends are a tunnel.                                 *)
(***************************************************************************)
EXTENDS ReplayWindow, DataPlane, Integers, TLAPS

(* Multiples of the word size are at least a word apart.                   *)
LEMMA MulMonotone ==
    ASSUME NEW w \in Nat, NEW a \in Int, NEW b \in Int, a < b
    PROVE  w * a + w <= w * b
<1>1. w * (b - a - 1) >= 0
  <2>1. b - a - 1 \in Nat
    OBVIOUS
  <2>2. \A x, y \in Nat : x * y >= 0
    OBVIOUS
  <2> QED BY <2>1, <2>2
<1>2. w * (b - a - 1) = w * b - w * a - w
  OBVIOUS
<1> QED BY <1>1, <1>2

(* A slot is its word times WordBits plus its bit.                         *)
LEMMA DivMod ==
    ASSUME NEW a \in Nat
    PROVE  /\ a \div WordBits \in Nat
           /\ a % WordBits \in 0..(WordBits - 1)
           /\ a = WordBits * (a \div WordBits) + (a % WordBits)
BY WindowAssumption

(* That decomposition is unique.                                           *)
LEMMA DivModUnique ==
    ASSUME NEW a \in Nat, NEW q \in Nat, NEW r \in 0..(WordBits - 1),
           a = WordBits * q + r
    PROVE  a \div WordBits = q /\ a % WordBits = r
<1> DEFINE d == a \div WordBits
           m == a % WordBits
<1>1. d \in Nat /\ m \in 0..(WordBits - 1) /\ a = WordBits * d + m
  BY DivMod
<1>0. WordBits \in Nat
  BY WindowAssumption
<1> HIDE DEF d, m
<1>2. ~ (d < q)
  <2> SUFFICES ASSUME d < q PROVE FALSE
    OBVIOUS
  <2>1. WordBits * d + WordBits <= WordBits * q
    BY <1>1, <1>0, MulMonotone
  <2> DEFINE x == WordBits * d
             y == WordBits * q
  <2>2. x \in Int /\ y \in Int
    BY <1>1, <1>0
  <2> HIDE DEF x, y
  <2>3. a = x + m /\ a = y + r /\ x + WordBits <= y
    BY <1>1, <2>1 DEF x, y
  <2> QED BY <2>2, <2>3, <1>1, <1>0
<1>3. ~ (q < d)
  <2> SUFFICES ASSUME q < d PROVE FALSE
    OBVIOUS
  <2>1. WordBits * q + WordBits <= WordBits * d
    BY <1>1, <1>0, MulMonotone
  <2> DEFINE x == WordBits * d
             y == WordBits * q
  <2>2. x \in Int /\ y \in Int
    BY <1>1, <1>0
  <2> HIDE DEF x, y
  <2>3. a = x + m /\ a = y + r /\ y + WordBits <= x
    BY <1>1, <2>1 DEF x, y
  <2> QED BY <2>2, <2>3, <1>1, <1>0
<1>4. d = q
  BY <1>1, <1>2, <1>3
<1>5. m = r
  BY <1>1, <1>4, <1>0
<1> QED BY <1>4, <1>5 DEF d, m

-----------------------------------------------------------------------------
(* The bitmap of NewReplayWindow has a word for every slot of the window.  *)
LEMMA WordsFacts ==
    /\ Words \in Nat
    /\ \A idx \in Nat : idx < WindowSize => Word(idx) < Words
<1> DEFINE top == WindowSize + WordBits - 1
<1>0. WordBits \in Nat \ {0} /\ WindowSize \in Nat \ {0}
  BY WindowAssumption
<1>1. top \in Nat
  BY <1>0
<1>2. /\ Words \in Nat
      /\ top % WordBits \in 0..(WordBits - 1)
      /\ top = WordBits * Words + (top % WordBits)
  BY <1>1, DivMod DEF Words
<1>3. ASSUME NEW idx \in Nat, idx < WindowSize
      PROVE  Word(idx) < Words
  <2>1. /\ Word(idx) \in Nat
        /\ idx % WordBits \in 0..(WordBits - 1)
        /\ idx = WordBits * Word(idx) + (idx % WordBits)
    BY DivMod DEF Word
  <2> SUFFICES ASSUME Words <= Word(idx) PROVE FALSE
    BY <1>2, <2>1
  <2> DEFINE x == WordBits * Word(idx)
             y == WordBits * Words
  <2>2. x \in Int /\ y \in Int
    BY <2>1, <1>0, <1>2
  <2>3. y <= x
    <3>1. CASE Words = Word(idx)
      BY <3>1, <2>2
    <3>2. CASE Words < Word(idx)
      <4>1. y + WordBits <= x
        BY <3>2, <1>0, <1>2, <2>1, MulMonotone
      <4> QED BY <4>1, <2>2, <1>0
    <3> QED BY <3>1, <3>2, <1>2, <2>1
  <2>4. idx >= x
    BY <2>1, <2>2, <1>0
  <2>5. y >= WindowSize
    BY <1>0, <1>2, <2>2
  <2> HIDE DEF x, y
  <2> QED BY <2>2, <2>3, <2>4, <2>5, <1>0, <1>3
<1> QED BY <1>2, <1>3

(* Every slot has a word and a bit.                                        *)
LEMMA WordBitRange ==
    ASSUME NEW idx \in Nat
    PROVE  Word(idx) \in Nat /\ Bit(idx) \in Bits
BY DivMod DEF Word, Bit, Bits

(* Shifting the words moves every slot n places: the bit that a slot shows *)
(* after the shift is the one that the slot n below it showed before.      *)
LEMMA ShiftMovesSlots ==
    ASSUME NEW n \in Nat, n < WindowSize,
           bitmap \in [0..(Words - 1) -> SUBSET Bits],
           NEW idx \in Nat, Word(idx) < Words
    PROVE  Bit(idx) \in Shifted(n)[Word(idx)]
              <=> /\ idx >= n
                  /\ Bit(idx - n) \in bitmap[Word(idx - n)]
<1> DEFINE i == Word(idx)
           b == Bit(idx)
           w == n \div WordBits
           k == n % WordBits
<1>0. WordBits \in Nat \ {0} /\ WindowSize \in Nat \ {0} /\ Words \in Nat
  BY WindowAssumption, WordsFacts
<1>1. i \in Nat /\ b \in 0..(WordBits - 1) /\ idx = WordBits * i + b
  BY DivMod DEF Word, Bit
<1>2. w \in Nat /\ k \in 0..(WordBits - 1) /\ n = WordBits * w + k
  BY DivMod
<1>3. Shifted(n)[i] = IF i < w THEN {}
                      ELSE ShiftUp(bitmap[i - w], k) \cup
                           (IF k > 0 /\ i > w
                            THEN ShiftDown(bitmap[i - w - 1], WordBits - k)
                            ELSE {})
  BY <1>0, <1>1 DEF Shifted
<1> HIDE DEF i, b, w, k
<1>4. /\ WordBits * i \in Int /\ WordBits * w \in Int
      /\ WordBits * (i - w) = WordBits * i - WordBits * w
      /\ WordBits * (i - w - 1) = WordBits * i - WordBits * w - WordBits
  <2>1. i \in Int /\ w \in Int /\ WordBits \in Int
    BY <1>0, <1>1, <1>2
  <2>2. \A p, x, y \in Int : p * (x - y) = p * x - p * y /\ p * x \in Int
    OBVIOUS
  <2>3. \A p, x, y \in Int : p * (x - y - 1) = p * x - p * y - p
    OBVIOUS
  <2> QED BY <2>1, <2>2, <2>3
<1>5. \A j \in 0..(Words - 1) : \A c \in bitmap[j] : c \in 0..(WordBits - 1)
  BY DEF Bits
<1>6. CASE i < w
  <2>1. WordBits * i + WordBits <= WordBits * w
    BY <1>6, <1>0, <1>1, <1>2, MulMonotone
  <2>2. idx < n
    BY <2>1, <1>0, <1>1, <1>2, <1>4
  <2> QED BY <2>2, <1>3, <1>6 DEF i, b
<1>7. CASE i >= w /\ b >= k
  <2>1. /\ i - w \in Nat /\ b - k \in 0..(WordBits - 1)
        /\ idx - n \in Nat
        /\ idx - n = WordBits * (i - w) + (b - k)
    <3>1. i - w \in Nat /\ b - k \in 0..(WordBits - 1)
      BY <1>7, <1>0, <1>1, <1>2
    <3>2. WordBits * (i - w) \in Nat
      BY <3>1, <1>0
    <3> QED BY <3>1, <3>2, <1>0, <1>1, <1>2, <1>4
  <2>2. Word(idx - n) = i - w /\ Bit(idx - n) = b - k
    BY <2>1, DivModUnique DEF Word, Bit
  <2>3. b \in ShiftUp(bitmap[i - w], k) <=> b - k \in bitmap[i - w]
    BY <1>7, <1>1 DEF ShiftUp, Bits
  <2>4. (k > 0 /\ i > w) => b \notin ShiftDown(bitmap[i - w - 1], WordBits - k)
    <3> SUFFICES ASSUME k > 0, i > w,
                        b + (WordBits - k) \in bitmap[i - w - 1]
                 PROVE  FALSE
      BY DEF ShiftDown
    <3>1. i - w - 1 \in 0..(Words - 1)
      BY <1>0, <1>1, <1>2 DEF i
    <3>2. b + (WordBits - k) \in 0..(WordBits - 1)
      BY <3>1, <1>5
    <3> QED BY <3>2, <1>7, <1>0, <1>1, <1>2
  <2>5. idx >= n
    BY <2>1, <1>1, <1>2
  <2> QED BY <2>2, <2>3, <2>4, <2>5, <1>3, <1>7, <1>1, <1>2 DEF i, b
<1>8. CASE i = w /\ b < k
  <2>1. idx < n
    BY <1>8, <1>0, <1>1, <1>2, <1>4
  <2>2. b \notin ShiftUp(bitmap[i - w], k)
    BY <1>8, <1>1, <1>2 DEF ShiftUp
  <2> QED BY <2>1, <2>2, <1>3, <1>8, <1>1, <1>2 DEF i, b
<1>9. CASE i > w /\ b < k
  <2>1. /\ i - w - 1 \in Nat /\ b + (WordBits - k) \in 0..(WordBits - 1)
        /\ idx - n \in Nat
        /\ idx - n = WordBits * (i - w - 1) + (b + (WordBits - k))
    <3>1. i - w - 1 \in Nat /\ b + (WordBits - k) \in 0..(WordBits - 1)
      BY <1>9, <1>0, <1>1, <1>2
    <3>2. WordBits * (i - w - 1) \in Nat
      BY <3>1, <1>0
    <3> QED BY <3>1, <3>2, <1>0, <1>1, <1>2, <1>4
  <2>2. Word(idx - n) = i - w - 1 /\ Bit(idx - n) = b + (WordBits - k)
    BY <2>1, DivModUnique DEF Word, Bit
  <2>3. b \notin ShiftUp(bitmap[i - w], k)
    BY <1>9, <1>1, <1>2 DEF ShiftUp
  <2>4. b \in ShiftDown(bitmap[i - w - 1], WordBits - k)
           <=> b + (WordBits - k) \in bitmap[i - w - 1]
    BY <1>1 DEF ShiftDown, Bits
  <2>5. k > 0 /\ idx >= n
    BY <2>1, <1>9, <1>1, <1>2
  <2> QED BY <2>2, <2>3, <2>4, <2>5, <1>3, <1>9, <1>1, <1>2 DEF i, b
<1> QED BY <1>6, <1>7, <1>8, <1>9, <1>1, <1>2

-----------------------------------------------------------------------------
(* The inductive invariant.  BitmapExact alone is not inductive: a packet  *)
(* ahead of the window must not have been accepted before.                 *)
Inv == /\ TypeOK
       /\ \A s \in Accepted : s <= maxSeen
       /\ maxSeen = 0 \/ maxSeen \in Accepted
       /\ BitmapExact
       /\ AtMostOnce

(* Wrapping can only make a packet look older than it is.                  *)
LEMMA NotTooOld ==
    ASSUME maxSeen \in Seqs, NEW s \in Seqs, ~TooOld(s)
    PROVE  maxSeen < s + WindowSize
<1> DEFINE x == s + WindowSize
<1>1. x \in Nat /\ SeqSpace \in Nat \ {0}
  BY WindowAssumption DEF Seqs
<1>2. x % SeqSpace <= x /\ x % SeqSpace \in Nat
  <2>1. \A y \in Nat, m \in Nat \ {0} : y % m <= y /\ y % m \in Nat
    OBVIOUS
  <2> QED BY <1>1, <2>1
<1>3. ~ (x % SeqSpace <= maxSeen)
  BY DEF TooOld
<1> HIDE DEF x
<1>4. maxSeen < x
  BY <1>1, <1>2, <1>3 DEF Seqs
<1> QED BY <1>4 DEF x

(* shiftWindow never sets a bit outside a word.                            *)
LEMMA ShiftedType ==
    ASSUME NEW n \in Nat, bitmap \in [0..(Words - 1) -> SUBSET Bits]
    PROVE  Shifted(n) \in [0..(Words - 1) -> SUBSET Bits]
BY DEF Shifted, ShiftUp, ShiftDown

(* What the slots show once the window has moved up to hold s.             *)
LEMMA AdvanceIsExact ==
    ASSUME Inv, NEW s \in Seqs,
           NEW t \in Seqs, s >= t \/ maxSeen >= t,
           (IF s > maxSeen THEN s ELSE maxSeen) < t + WindowSize
    PROVE  LET idx == (IF s > maxSeen THEN s ELSE maxSeen) - t
           IN  Bit(idx) \in Advanced(s)[Word(idx)] <=> opened[t] > 0
<1> DEFINE top == IF s > maxSeen THEN s ELSE maxSeen
           idx == top - t
<1>a. maxSeen \in Seqs /\ bitmap \in [0..(Words - 1) -> SUBSET Bits]
  BY DEF Inv, TypeOK
<1>0. maxSeen \in Nat /\ s \in Nat /\ t \in Nat /\ WindowSize \in Nat \ {0}
  BY <1>a, WindowAssumption DEF Seqs
<1>1. top \in Nat /\ t <= top /\ idx \in Nat /\ idx < WindowSize
  BY <1>0
<1>2. Word(idx) < Words
  BY <1>1, WordsFacts
<1>3. CASE s <= maxSeen
  <2>1. idx = maxSeen - t /\ Advanced(s) = bitmap /\ t <= maxSeen
    BY <1>3, <1>0, <1>1 DEF Advanced
  <2>2. Seen(t) <=> opened[t] > 0
    BY <2>1, <1>3, <1>0 DEF Inv, BitmapExact
  <2> QED BY <2>1, <2>2, <1>2 DEF Seen
<1>4. CASE s > maxSeen
  <2> DEFINE n == s - maxSeen
  <2>1. n \in Nat /\ n > 0 /\ top = s /\ Advanced(s) = Shifted(n)
    BY <1>4, <1>0 DEF Advanced
  <2>2. CASE t > maxSeen
    <3>1. ~ (opened[t] > 0)
      BY <2>2, <1>0 DEF Inv, Accepted
    <3>2. idx < n
      BY <2>1, <2>2, <1>0
    <3>3. Bit(idx) \notin Shifted(n)[Word(idx)]
      <4>1. CASE n >= WindowSize
        <5>1. Word(idx) \in 0..(Words - 1)
          BY <1>1, <1>2, WordsFacts, WordBitRange
        <5> QED BY <4>1, <5>1 DEF Shifted
      <4>2. CASE n < WindowSize
        <5>1. ~ (idx >= n)
          BY <3>2, <1>1, <2>1
        <5> HIDE DEF idx, n
        <5> QED BY <4>2, <5>1, <2>1, <1>1, <1>2, <1>a, ShiftMovesSlots
      <4> QED BY <4>1, <4>2, <2>1, <1>0
    <3> QED BY <3>1, <3>3, <2>1
  <2>3. CASE t <= maxSeen
    <3>1. n < WindowSize /\ idx >= n /\ idx - n = maxSeen - t
      BY <2>1, <2>3, <1>0, <1>1
    <3>2. Bit(idx) \in Shifted(n)[Word(idx)]
             <=> Bit(maxSeen - t) \in bitmap[Word(maxSeen - t)]
      BY <3>1, <2>1, <1>1, <1>2, <1>a, ShiftMovesSlots
    <3>3. Seen(t) <=> opened[t] > 0
      BY <2>3, <3>1, <1>0, <1>1 DEF Inv, BitmapExact
    <3>4. Word(maxSeen - t) < Words
      <4>1. maxSeen - t \in Nat /\ maxSeen - t < WindowSize
        BY <2>3, <3>1, <1>0, <1>1
      <4> QED BY <4>1, WordsFacts
    <3> QED BY <3>2, <3>3, <3>4, <2>1, <2>3 DEF Seen
  <2> QED BY <2>2, <2>3, <1>0
<1> QED BY <1>3, <1>4, <1>0

(* Two slots never share a bit.                                            *)
LEMMA SlotInjective ==
    ASSUME NEW a \in Nat, NEW b \in Nat, Word(a) = Word(b), Bit(a) = Bit(b)
    PROVE  a = b
<1>1. a = WordBits * Word(a) + Bit(a) /\ b = WordBits * Word(b) + Bit(b)
  BY DivMod DEF Word, Bit
<1> QED BY <1>1

(* Accepting a packet keeps the invariant.                                 *)
LEMMA AcceptKeepsInv ==
    ASSUME Inv, NEW s \in Seqs, s < sendSeq, ~TooOld(s), ~Seen(s), Mark(s),
           opened' = [opened EXCEPT ![s] = @ + 1],
           result' = "ok", UNCHANGED sendSeq
    PROVE  Inv'
<1> DEFINE top == IF s > maxSeen THEN s ELSE maxSeen
           map == Advanced(s)
<1>a. /\ maxSeen \in Seqs
      /\ bitmap \in [0..(Words - 1) -> SUBSET Bits]
      /\ opened \in [Seqs -> Nat]
      /\ sendSeq \in 0..(MaxSeq + 1)
  BY DEF Inv, TypeOK
<1>0. /\ maxSeen \in Nat /\ s \in Nat /\ WindowSize \in Nat \ {0}
      /\ Words \in Nat /\ MaxSeq \in Nat
  BY <1>a, WindowAssumption, WordsFacts DEF Seqs
<1>1. top \in Seqs /\ top \in Nat /\ s <= top /\ top - s \in Nat
  BY <1>a, <1>0
<1>2. top < s + WindowSize
  BY <1>a, <1>0, NotTooOld
<1>3. Word(top - s) \in 0..(Words - 1) /\ Bit(top - s) \in Bits
  <2>1. top - s < WindowSize
    BY <1>0, <1>1, <1>2
  <2>2. Word(top - s) < Words /\ Word(top - s) \in Nat /\ Bit(top - s) \in Bits
    BY <2>1, <1>1, WordsFacts, WordBitRange
  <2> QED BY <2>2, <1>0
<1>4. map \in [0..(Words - 1) -> SUBSET Bits]
  <2>1. CASE s > maxSeen
    BY <2>1, <1>a, <1>0, ShiftedType DEF Advanced
  <2>2. CASE ~ (s > maxSeen)
    BY <2>2, <1>a DEF Advanced
  <2> QED BY <2>1, <2>2
<1>5. /\ maxSeen' = top
      /\ bitmap' = [map EXCEPT ![Word(top - s)] = @ \cup {Bit(top - s)}]
  BY <1>3, <1>0 DEF Mark
<1>6. opened[s] = 0
  <2>1. CASE s > maxSeen
    <3>1. s \notin Accepted
      BY <2>1, <1>0 DEF Inv
    <3> QED BY <3>1, <1>a DEF Accepted
  <2>2. CASE s <= maxSeen
    <3>1. maxSeen < s + WindowSize
      BY <1>a, NotTooOld
    <3>2. ~ (opened[s] > 0)
      BY <3>1, <2>2 DEF Inv, BitmapExact
    <3> QED BY <3>2, <1>a
  <2> QED BY <2>1, <2>2, <1>0
<1>7. \A t \in Seqs : opened'[t] = IF t = s THEN 1 ELSE opened[t]
  BY <1>6, <1>a
<1>8. TypeOK'
  <2>1. bitmap' \in [0..(Words - 1) -> SUBSET Bits]
    BY <1>3, <1>4, <1>5
  <2>2. opened' \in [Seqs -> Nat]
    BY <1>a
  <2>3. maxSeen' \in Seqs /\ sendSeq' \in 0..(MaxSeq + 1)
    BY <1>1, <1>5, <1>a
  <2> QED BY <2>1, <2>2, <2>3 DEF TypeOK
<1>9. (\A t \in Accepted : t <= maxSeen)'
  <2> SUFFICES ASSUME NEW t \in Seqs, opened'[t] > 0
               PROVE  t <= top
    BY <1>5 DEF Accepted
  <2>1. CASE t = s
    BY <2>1, <1>1
  <2>2. CASE t # s
    <3>1. t \in Accepted
      BY <2>2, <1>7 DEF Accepted
    <3>2. t <= maxSeen /\ t \in Nat
      BY <3>1 DEF Inv, Seqs
    <3> QED BY <3>2, <1>0
  <2> QED BY <2>1, <2>2
<1>12. (maxSeen = 0 \/ maxSeen \in Accepted)'
  <2>1. CASE s > maxSeen
    BY <2>1, <1>1, <1>5, <1>7 DEF Accepted
  <2>2. CASE ~ (s > maxSeen)
    <3>1. opened'[maxSeen] > 0 \/ maxSeen = 0
      BY <1>7, <1>a DEF Inv, Accepted
    <3> QED BY <3>1, <2>2, <1>a, <1>5 DEF Accepted
  <2> QED BY <2>1, <2>2
<1>10. BitmapExact'
  <2> SUFFICES ASSUME NEW t \in Seqs, t <= top, top < t + WindowSize
               PROVE  Seen(t)' <=> opened'[t] > 0
    BY <1>5 DEF BitmapExact
  <2> DEFINE idx == top - t
  <2>1. idx \in Nat /\ idx < WindowSize /\ t \in Nat
    BY <1>0, <1>1 DEF Seqs
  <2>2. Word(idx) < Words /\ Word(idx) \in Nat /\ Bit(idx) \in Bits
    BY <2>1, WordsFacts, WordBitRange
  <2>3. Seen(t)' <=> Bit(idx) \in bitmap'[Word(idx)]
    BY <2>2, <1>5 DEF Seen, Word, Bit, Words
  <2>4. Bit(idx) \in map[Word(idx)] <=> opened[t] > 0
    <3>1. s >= t \/ maxSeen >= t
      BY <1>0
    <3> QED BY <3>1, AdvanceIsExact
  <2>5. CASE t = s
    <3>1. Bit(idx) \in bitmap'[Word(idx)]
      BY <2>5, <1>3, <1>4, <1>5
    <3> QED BY <3>1, <2>3, <2>5, <1>7
  <2>6. CASE t # s
    <3>1. ~ (Word(idx) = Word(top - s) /\ Bit(idx) = Bit(top - s))
      <4>1. idx # top - s
        BY <2>6, <2>1, <1>0, <1>1
      <4> HIDE DEF idx, top
      <4> QED BY <4>1, <2>1, <1>1, SlotInjective
    <3>2. Word(idx) \in 0..(Words - 1)
      BY <2>2, <1>0
    <3> HIDE DEF idx, top, map
    <3>3. Bit(idx) \in bitmap'[Word(idx)] <=> Bit(idx) \in map[Word(idx)]
      BY <3>1, <3>2, <1>3, <1>4, <1>5
    <3> QED BY <3>3, <2>3, <2>4, <2>6, <1>7
  <2> QED BY <2>5, <2>6
<1>11. AtMostOnce'
  BY <1>7, <1>a DEF Inv, AtMostOnce
<1> QED BY <1>8, <1>9, <1>10, <1>11, <1>12 DEF Inv

(* Inv is inductive: nothing that Seal or Open does breaks it.             *)
THEOREM InvariantHolds == Spec => []Inv
<1>1. Init => Inv
  <2> SUFFICES ASSUME Init PROVE Inv
    OBVIOUS
  <2>1. 0 \in Seqs /\ Words \in Nat
    BY WindowAssumption, WordsFacts DEF Seqs
  <2>2. TypeOK
    BY <2>1, WindowAssumption DEF Init, TypeOK
  <2>3. \A s \in Seqs : ~Seen(s) /\ opened[s] = 0
    <3> SUFFICES ASSUME NEW s \in Seqs, s <= maxSeen, Word(maxSeen - s) < Words
                 PROVE  Bit(maxSeen - s) \notin bitmap[Word(maxSeen - s)]
      BY DEF Init, Seen
    <3>1. maxSeen - s \in Nat
      BY WindowAssumption DEF Init, Seqs
    <3>2. Word(maxSeen - s) \in 0..(Words - 1)
      BY <2>1, <3>1, WordBitRange
    <3> QED BY <3>2 DEF Init
  <2>4. maxSeen = 0
    BY DEF Init
  <2> QED BY <2>2, <2>3, <2>4 DEF Inv, Accepted, BitmapExact, AtMostOnce
<1>2. Inv /\ [Next]_vars => Inv'
  <2> SUFFICES ASSUME Inv, [Next]_vars PROVE Inv'
    OBVIOUS
  <2>1. CASE Seal
    <3>1. TypeOK'
      <4>1. sendSeq' \in 0..(MaxSeq + 1)
        <5>1. sendSeq \in 0..(MaxSeq + 1)
          BY DEF Inv, TypeOK
        <5> QED BY <5>1, <2>1, WindowAssumption DEF Seal
      <4> QED BY <4>1, <2>1 DEF Seal, Inv, TypeOK
    <3> QED BY <3>1, <2>1 DEF Seal, Inv, Accepted, BitmapExact, AtMostOnce, Seen
  <2>2. ASSUME NEW s \in Seqs, NEW genuine \in BOOLEAN, Open(s, genuine)
        PROVE  Inv'
    <3>1. ASSUME NEW why \in {"window exceeded", "replay", "decrypt failed"},
                 Rejected(why)
          PROVE  Inv'
      <4>1. TypeOK'
        BY <3>1 DEF Rejected, Inv, TypeOK
      <4> QED BY <4>1, <3>1
              DEF Rejected, Inv, Accepted, BitmapExact, AtMostOnce, Seen
    <3>2. CASE /\ ~TooOld(s) /\ ~Seen(s) /\ genuine /\ Mark(s)
               /\ opened' = [opened EXCEPT ![s] = @ + 1]
               /\ result' = "ok"
               /\ UNCHANGED sendSeq
      <4>1. s < sendSeq
        BY <2>2, <3>2 DEF Open
      <4> QED BY <4>1, <3>2, AcceptKeepsInv
    <3> QED BY <2>2, <3>1, <3>2 DEF Open
  <2>3. CASE UNCHANGED vars
    BY <2>3 DEF vars, Inv, TypeOK, Accepted, BitmapExact, AtMostOnce, Seen
  <2> QED BY <2>1, <2>2, <2>3 DEF Next
<1> QED BY <1>1, <1>2, PTL DEF Spec

(* Each variable keeps its type; in particular the shift never sets a bit  *)
(* outside a word nor Mark a word outside the bitmap.                      *)
THEOREM TypeCorrect == Spec => []TypeOK
<1>1. Inv => TypeOK
  BY DEF Inv
<1> QED BY <1>1, InvariantHolds, PTL

(* Session.Open never returns the same sequence number twice, for any word *)
(* and window size and even if the sequence numbers wrap.                  *)
THEOREM NeverOpenedTwice == Spec => []AtMostOnce
<1>1. Inv => AtMostOnce
  BY DEF Inv
<1> QED BY <1>1, InvariantHolds, PTL

(* The bitmap of ReplayWindow always shows exactly the accepted numbers    *)
(* among the last WindowSize.                                              *)
THEOREM BitmapShowsAccepted == Spec => []BitmapExact
<1>1. Inv => BitmapExact
  BY DEF Inv
<1> QED BY <1>1, InvariantHolds, PTL

(* The highest number the window has seen is one that was accepted, and no *)
(* accepted one is higher: a damaged packet never moves the window.        *)
THEOREM HighestIsAccepted == Spec => []MaxSeenIsAccepted
<1>1. Inv => MaxSeenIsAccepted
  <2> SUFFICES ASSUME Inv, NEW s \in Accepted
               PROVE  maxSeen \in Accepted
    BY DEF Inv, MaxSeenIsAccepted
  <2>1. s \in Nat /\ s <= maxSeen /\ (maxSeen = 0 \/ maxSeen \in Accepted)
    BY DEF Inv, Accepted, Seqs
  <2> QED BY <2>1
<1> QED BY <1>1, InvariantHolds, PTL
-----------------------------------------------------------------------------
(* The bitmap implements the sliding window: as long as no sequence number *)
(* comes within WindowSize of the wrap, Open accepts every genuine packet  *)
(* that is new and inside the window, and rejects all the others.          *)
THEOREM Refinement ==
    ASSUME MaxSeq + WindowSize < SeqSpace
    PROVE  Spec => ImplementsWindow
<1>1. Init => Window!Init
  <2> SUFFICES ASSUME Init PROVE Window!Init
    OBVIOUS
  <2>1. Accepted = {}
    BY DEF Init, Accepted
  <2> QED BY <2>1 DEF Init, Window!Init
<1>2. Inv /\ Inv' /\ [Next]_vars => [Window!Next]_(Window!vars)
  <2> SUFFICES ASSUME Inv, Inv', [Next]_vars
               PROVE  Window!Next \/ UNCHANGED Window!vars
    OBVIOUS
  <2>0. /\ maxSeen \in Seqs /\ maxSeen \in Nat
        /\ opened \in [Seqs -> Nat]
        /\ \A s \in Seqs : s \in Nat
        /\ WindowSize \in Nat \ {0} /\ SeqSpace \in Nat /\ MaxSeq \in Nat
    <3>1. maxSeen \in Seqs /\ opened \in [Seqs -> Nat]
      BY DEF Inv, TypeOK
    <3> QED BY <3>1, WindowAssumption DEF Seqs
  <2>1. CASE Seal
    <3>1. Accepted' = Accepted
      BY <2>1 DEF Seal, Accepted
    <3>2. Window!Seal
      BY <2>1, <3>1 DEF Seal, Window!Seal
    <3> QED BY <3>2 DEF Window!Next
  <2>2. ASSUME NEW s \in Seqs, NEW genuine \in BOOLEAN, Open(s, genuine)
        PROVE  Window!Next
    <3>0. s \in 0..MaxSeq /\ s \in Nat
      BY <2>0 DEF Seqs
    <3>1. ASSUME NEW why \in {"window exceeded", "replay", "decrypt failed"},
                 Rejected(why),
                 genuine => (s \in Accepted \/ ~Window!InWindow(s))
          PROVE  Window!Next
      <4>1. Accepted' = Accepted
        BY <3>1 DEF Rejected, Accepted
      <4>2. Window!Reject(s, genuine)
        BY <3>1, <4>1 DEF Rejected, Window!Reject
      <4> QED BY <4>2, <3>0 DEF Window!Next
    <3>2. TooOld(s) => ~Window!InWindow(s)
      <4> SUFFICES ASSUME TooOld(s) PROVE ~Window!InWindow(s)
        OBVIOUS
      <4>1. (s + WindowSize) % SeqSpace = s + WindowSize
        <5>1. s + WindowSize \in 0..(SeqSpace - 1)
          BY <3>0, <2>0
        <5>2. \A x, m \in Nat : x < m => x % m = x
          OBVIOUS
        <5> QED BY <5>1, <5>2, <2>0
      <4>2. s + WindowSize <= maxSeen
        BY <4>1 DEF TooOld
      <4>3. maxSeen \in Accepted
        BY <4>2, <2>0, <3>0 DEF Inv
      <4> QED BY <4>2, <4>3, <2>0, <3>0 DEF Window!InWindow
    <3>3. (~TooOld(s) /\ Seen(s)) => s \in Accepted
      <4> SUFFICES ASSUME ~TooOld(s), Seen(s) PROVE s \in Accepted
        OBVIOUS
      <4>1. s <= maxSeen /\ maxSeen < s + WindowSize
        BY <2>0, NotTooOld DEF Seen
      <4>2. opened[s] > 0
        BY <4>1 DEF Inv, BitmapExact
      <4> QED BY <4>2 DEF Accepted
    <3>4. CASE /\ ~TooOld(s) /\ ~Seen(s) /\ genuine /\ Mark(s)
               /\ opened' = [opened EXCEPT ![s] = @ + 1]
               /\ result' = "ok"
               /\ UNCHANGED sendSeq
      <4>1. s < sendSeq
        BY <2>2, <3>4 DEF Open
      <4>2. maxSeen < s + WindowSize
        BY <2>0, <3>4, NotTooOld
      <4>3. Window!InWindow(s)
        <5> SUFFICES ASSUME NEW t \in Accepted PROVE t < s + WindowSize
          BY DEF Window!InWindow
        <5>1. t \in Nat /\ t <= maxSeen
          BY <2>0 DEF Inv, Accepted
        <5> QED BY <5>1, <4>2, <2>0, <3>0
      <4>4. s \notin Accepted
        <5>1. CASE s <= maxSeen
          <6>1. ~ (opened[s] > 0)
            BY <5>1, <4>2, <3>4 DEF Inv, BitmapExact
          <6> QED BY <6>1 DEF Accepted
        <5>2. CASE s > maxSeen
          BY <5>2, <2>0 DEF Inv
        <5> QED BY <5>1, <5>2, <2>0
      <4>5. Accepted' = Accepted \cup {s}
        BY <3>4, <2>0 DEF Accepted
      <4>6. Window!Accept(s)
        BY <3>4, <4>1, <4>3, <4>4, <4>5 DEF Window!Accept
      <4> QED BY <4>6, <3>0 DEF Window!Next
    <3> QED BY <2>2, <3>1, <3>2, <3>3, <3>4 DEF Open
  <2>3. CASE UNCHANGED vars
    BY <2>3 DEF vars, Accepted, Window!vars
  <2> QED BY <2>1, <2>2, <2>3 DEF Next
<1> QED BY <1>1, <1>2, InvariantHolds, PTL DEF Spec, ImplementsWindow, Window!Spec
-----------------------------------------------------------------------------
PacketHeader == [seq : Nat, time : Nat]
Packet == [to : Ends, type : {"DATA", "KEEPALIVE"}, header : PacketHeader, sealed : PacketHeader]

PlaneTypeOK == /\ clock \in Nat
               /\ nextSeq \in [Ends -> Nat] /\ nextSeq["client"] + nextSeq["server"] <= MaxSealed
               /\ net \in SUBSET Packet
               /\ inbox \in [Ends -> SUBSET Packet]
               /\ seen \in [Ends -> SUBSET PlaneSeqs]
               /\ forwarded \in [Ends -> [PlaneSeqs -> Nat]]

(* What is under way to an end carries a number that the other has used,   *)
(* sealed under a header without one.                                      *)
FromPeer(p, e) == p.type = "DATA" => p.header.seq < nextSeq[Peer(e)] /\ p.sealed.seq = 0

UnderWay == /\ \A p \in net : FromPeer(p, p.to)
            /\ \A e \in Ends : \A p \in inbox[e] : FromPeer(p, e)

(* An end's window has marked what it forwarded.                           *)
MarkedOnce == \A e \in Ends : \A s \in PlaneSeqs : forwarded[e][s] = IF s \in seen[e] THEN 1 ELSE 0

FirstOnly == \A e \in Ends : seen[e] \subseteq {0}

PlaneInv == PlaneTypeOK /\ UnderWay /\ MarkedOnce /\ FirstOnly

(* Each end's peer is the other.                                           *)
LEMMA PeerIs == /\ Peer("client") = "server" /\ Peer("server") = "client"
                /\ \A e \in Ends : Peer(e) \in Ends /\ Promised!Peer(e) = Peer(e)
<1>1. Promised!Peer("client") = "server" /\ Promised!Peer("server") = "client"
  BY DEF Promised!Peer, Promised!Ends
<1> QED BY <1>1 DEF Peer, Ends

(* Nothing is under way in the beginning.                                  *)
LEMMA PlaneStarts == PlaneInit => PlaneInv
<1> SUFFICES ASSUME PlaneInit PROVE PlaneInv
  OBVIOUS
<1>1. PlaneTypeOK
  BY DataPlaneAssumption DEF PlaneInit, PlaneTypeOK, Ends
<1> QED BY <1>1 DEF PlaneInit, PlaneInv, UnderWay, MarkedOnce, FirstOnly

(* Packets may be put into the network or moved to an inbox at any time,   *)
(* if their numbers were used.                                             *)
LEMMA TrafficKeeps ==
    ASSUME PlaneInv, clock' \in Nat, UNCHANGED <<seen, forwarded>>,
           nextSeq' \in [Ends -> Nat], nextSeq'["client"] + nextSeq'["server"] <= MaxSealed,
           \A e \in Ends : nextSeq[e] <= nextSeq'[e],
           net' \in SUBSET Packet, inbox' \in [Ends -> SUBSET Packet],
           \A p \in net' : p \in net \/ FromPeer(p, p.to)',
           \A e \in Ends : \A p \in inbox'[e] : p \in inbox[e] \/ (p \in net /\ p.to = e)
    PROVE  PlaneInv'
<1>1. PlaneTypeOK'
  BY DEF PlaneInv, PlaneTypeOK
<1>2. ASSUME NEW e \in Ends, NEW p \in Packet, FromPeer(p, e) PROVE FromPeer(p, e)'
  <2>1. nextSeq[Peer(e)] <= nextSeq'[Peer(e)] /\ nextSeq[Peer(e)] \in Nat /\ nextSeq'[Peer(e)] \in Nat
    BY PeerIs DEF PlaneInv, PlaneTypeOK
  <2>2. p.header.seq \in Nat
    BY DEF Packet, PacketHeader
  <2> QED BY <1>2, <2>1, <2>2 DEF FromPeer
<1>3. \A p \in Packet : p.to \in Ends
  BY DEF Packet
<1>4. net \subseteq Packet /\ \A e \in Ends : inbox[e] \subseteq Packet
  BY DEF PlaneInv, PlaneTypeOK
<1>5. \A p \in net' : FromPeer(p, p.to)'
  BY <1>2, <1>3, <1>4 DEF PlaneInv, UnderWay
<1>6. ASSUME NEW e \in Ends, NEW p \in inbox'[e] PROVE FromPeer(p, e)'
  <2>1. p \in Packet /\ FromPeer(p, e)
    BY <1>4 DEF PlaneInv, UnderWay
  <2> QED BY <1>2, <2>1
<1>7. UnderWay'
  BY <1>5, <1>6 DEF UnderWay
<1>8. MarkedOnce' /\ FirstOnly'
  BY DEF PlaneInv, MarkedOnce, FirstOnly
<1> QED BY <1>1, <1>7, <1>8 DEF PlaneInv

(* A packet that opens is marked and forwarded once; its number, which has *)
(* to be the sealed one, is 0 (encryption.go: Open).                       *)
LEMMA ForwardKeeps ==
    ASSUME PlaneInv, NEW e \in Ends, NEW p \in inbox[e], p.type = "DATA",
           OpensAt(e, p), Forward(e, p), Taken(e, p), UNCHANGED <<clock, nextSeq, net>>
    PROVE  /\ PlaneInv'
           /\ Promised!Arrive(e, p.header.seq)
           /\ p.header.seq \in PlaneSeqs
<1> DEFINE s == p.header.seq
<1>1. /\ PlaneTypeOK /\ UnderWay /\ MarkedOnce /\ FirstOnly
      /\ MaxSealed \in Nat \ {0}
  BY DataPlaneAssumption DEF PlaneInv, DataPlaneAssumption
<1>2. p \in Packet /\ s \in Nat
  BY <1>1 DEF PlaneTypeOK, Packet, PacketHeader
<1>3. s < nextSeq[Peer(e)] /\ p.sealed.seq = 0 /\ s = p.sealed.seq
  BY <1>1 DEF UnderWay, FromPeer, OpensAt, Authentic
<1>4. s \in PlaneSeqs /\ s = 0
  BY <1>1, <1>3 DEF PlaneSeqs
<1>5. s \notin seen[e] /\ \A t \in seen[e] : t < s + PlaneWindow
  BY DEF OpensAt, Fresh
<1>6. /\ seen' = [seen EXCEPT ![e] = @ \cup {s}]
      /\ forwarded' = [forwarded EXCEPT ![e][s] = @ + 1]
      /\ inbox' = [inbox EXCEPT ![e] = @ \ {p}]
  BY DEF Forward, Taken
<1> HIDE DEF s
<1>7. forwarded[e][s] = 0
  BY <1>1, <1>4, <1>5 DEF MarkedOnce
<1>8. forwarded' = [forwarded EXCEPT ![e][s] = 1]
  BY <1>1, <1>6, <1>7 DEF PlaneTypeOK
<1>9. PlaneTypeOK'
  <2>1. seen' \in [Ends -> SUBSET PlaneSeqs]
    BY <1>1, <1>4, <1>6 DEF PlaneTypeOK
  <2>2. forwarded' \in [Ends -> [PlaneSeqs -> Nat]]
    BY <1>1, <1>4, <1>8 DEF PlaneTypeOK
  <2>3. inbox' \in [Ends -> SUBSET Packet]
    BY <1>1, <1>6 DEF PlaneTypeOK
  <2> QED BY <1>1, <2>1, <2>2, <2>3 DEF PlaneTypeOK
<1>10. UnderWay'
  BY <1>1, <1>6 DEF UnderWay, FromPeer, PlaneTypeOK
<1>11. MarkedOnce'
  <2> SUFFICES ASSUME NEW d \in Ends, NEW t \in PlaneSeqs
               PROVE  forwarded'[d][t] = IF t \in seen'[d] THEN 1 ELSE 0
    BY DEF MarkedOnce
  <2>1. CASE d = e /\ t = s
    BY <1>1, <1>6, <1>8, <2>1 DEF PlaneTypeOK
  <2>2. CASE ~(d = e /\ t = s)
    <3>1. forwarded'[d][t] = forwarded[d][t] /\ (t \in seen'[d] <=> t \in seen[d])
      BY <1>1, <1>6, <1>8, <2>2 DEF PlaneTypeOK
    <3> QED BY <1>1, <3>1 DEF MarkedOnce
  <2> QED BY <2>1, <2>2
<1>12. FirstOnly'
  BY <1>1, <1>4, <1>6 DEF FirstOnly, PlaneTypeOK
<1>13. Promised!Arrive(e, s)
  <2>1. ASSUME NEW t \in PlaneSeqs, forwarded[e][t] > 0 PROVE t < s + PlaneWindow
    BY <1>1, <1>5, <2>1 DEF MarkedOnce
  <2>2. s < nextSeq[Promised!Peer(e)]
    BY <1>3, PeerIs DEF s
  <2> QED BY <1>7, <1>8, <2>1, <2>2 DEF Promised!Arrive
<1> QED BY <1>4, <1>9, <1>10, <1>11, <1>12, <1>13 DEF PlaneInv, s

(* Every step of the two ends is one of the tunnel or none.                *)
LEMMA PlaneSteps ==
    PlaneInv /\ [PlaneNext]_planeVars => PlaneInv' /\ [Promised!TunnelNext]_(Promised!tunnelVars)
<1> SUFFICES ASSUME PlaneInv, [PlaneNext]_planeVars
             PROVE  PlaneInv' /\ [Promised!TunnelNext]_(Promised!tunnelVars)
  OBVIOUS
<1>0. PlaneTypeOK /\ Ends = {"client", "server"} /\ Promised!Ends = Ends
  BY DEF PlaneInv, Ends, Promised!Ends
<1>1. ASSUME NEW e \in Ends, SendData(e) PROVE PlaneInv' /\ Promised!TunnelNext
  <2>1. /\ nextSeq["client"] + nextSeq["server"] < MaxSealed
        /\ nextSeq' = [nextSeq EXCEPT ![e] = @ + 1]
        /\ net' = net \cup {[to |-> Peer(e), type |-> "DATA",
                             header |-> Header(nextSeq[e], clock), sealed |-> Header(0, clock)]}
        /\ UNCHANGED <<clock, inbox, seen, forwarded>>
    BY <1>1 DEF SendData
  <2>2. nextSeq[e] \in Nat /\ clock \in Nat /\ Peer(Peer(e)) = e /\ Peer(e) \in Ends
    BY <1>0, PeerIs DEF PlaneTypeOK
  <2>3. PICK q \in Packet : /\ net' = net \cup {q}
                            /\ q.to = Peer(e) /\ q.header.seq = nextSeq[e] /\ q.sealed.seq = 0
    <3> DEFINE q == [to |-> Peer(e), type |-> "DATA",
                     header |-> Header(nextSeq[e], clock), sealed |-> Header(0, clock)]
    <3>1. q \in Packet
      BY <2>2 DEF Packet, PacketHeader, Header
    <3>2. net' = net \cup {q} /\ q.to = Peer(e) /\ q.header.seq = nextSeq[e] /\ q.sealed.seq = 0
      BY <2>1 DEF Header
    <3> QED BY <3>1, <3>2
  <2>4. nextSeq' \in [Ends -> Nat] /\ \A d \in Ends : nextSeq[d] <= nextSeq'[d]
    BY <1>0, <2>1, <2>2 DEF PlaneTypeOK
  <2>5. nextSeq'[e] = nextSeq[e] + 1
    BY <1>0, <2>1 DEF PlaneTypeOK
  <2>6. nextSeq'["client"] + nextSeq'["server"] <= MaxSealed
    BY <1>0, <2>1, DataPlaneAssumption DEF PlaneTypeOK, DataPlaneAssumption
  <2>7. FromPeer(q, q.to)'
    BY <2>2, <2>3, <2>5 DEF FromPeer
  <2>8. PlaneInv'
    BY <1>0, <2>1, <2>3, <2>4, <2>6, <2>7, TrafficKeeps DEF PlaneTypeOK
  <2> QED BY <1>0, <2>1, <2>8 DEF Promised!TunnelNext, Promised!Send
<1>2. ASSUME NEW p \in net, Deliver(p) PROVE PlaneInv' /\ UNCHANGED Promised!tunnelVars
  <2>1. /\ inbox' = [inbox EXCEPT ![p.to] = @ \cup {p}]
        /\ net' \in SUBSET net
        /\ UNCHANGED <<clock, nextSeq, seen, forwarded>>
    BY <1>2 DEF Deliver
  <2>2. p \in Packet /\ p.to \in Ends
    BY <1>0 DEF PlaneTypeOK, Packet
  <2>3. /\ inbox' \in [Ends -> SUBSET Packet]
        /\ \A e \in Ends : \A r \in inbox'[e] : r \in inbox[e] \/ (r \in net /\ r.to = e)
    BY <1>0, <2>1, <2>2 DEF PlaneTypeOK
  <2> QED BY <1>0, <2>1, <2>3, TrafficKeeps DEF PlaneTypeOK, Promised!tunnelVars
<1>3. ASSUME UNCHANGED <<nextSeq, seen, forwarded>>, clock' \in Nat,
             net' \in SUBSET (net \cup {r \in Packet : r.type = "KEEPALIVE"}),
             inbox' \in [Ends -> SUBSET Packet], \A e \in Ends : inbox'[e] \subseteq inbox[e]
      PROVE  PlaneInv' /\ UNCHANGED Promised!tunnelVars
  BY <1>0, <1>3, TrafficKeeps DEF PlaneTypeOK, FromPeer, Promised!tunnelVars
<1>4. \A e \in Ends : \A p \in inbox[e] :
          Taken(e, p) => inbox' \in [Ends -> SUBSET Packet] /\ \A d \in Ends : inbox'[d] \subseteq inbox[d]
  BY <1>0 DEF PlaneTypeOK, Taken
<1>5. \A r \in Packet : [r EXCEPT !.to = "client", !.header = Header(0, clock), !.sealed = Header(0, clock)] \in Packet
  BY <1>0 DEF PlaneTypeOK, Packet, PacketHeader, Header
<1>6. Probe \in Packet /\ Probe.type = "KEEPALIVE"
  BY <1>0 DEF PlaneTypeOK, Packet, PacketHeader, Header, Probe
<1>7. ASSUME NEW p \in inbox["server"], ServerData(p)
      PROVE  PlaneInv' /\ [Promised!TunnelNext]_(Promised!tunnelVars)
  <2>1. "server" \in Ends /\ p.type = "DATA" /\ Taken("server", p) /\ UNCHANGED <<clock, nextSeq, net>>
    BY <1>0, <1>7 DEF ServerData
  <2>2. CASE OpensAt("server", p) /\ Forward("server", p)
    BY <1>0, <2>1, <2>2, ForwardKeeps DEF Promised!TunnelNext
  <2>3. CASE UNCHANGED <<seen, forwarded>>
    BY <1>0, <1>3, <1>4, <2>1, <2>3 DEF PlaneTypeOK
  <2> QED BY <1>7, <2>2, <2>3 DEF ServerData
<1>8. ASSUME NEW p \in inbox["server"], ServerKeepalive(p)
      PROVE  PlaneInv' /\ UNCHANGED Promised!tunnelVars
  <2>1. /\ "server" \in Ends /\ p \in Packet /\ p.type = "KEEPALIVE" /\ Taken("server", p)
        /\ UNCHANGED <<clock, nextSeq, seen, forwarded>>
    BY <1>0, <1>8 DEF ServerKeepalive, PlaneTypeOK
  <2> DEFINE q == [p EXCEPT !.to = "client", !.header = Header(0, clock), !.sealed = Header(0, clock)]
  <2>2. net' = net \cup {q}
    BY <1>8 DEF ServerKeepalive
  <2>3. q \in Packet /\ q.type = "KEEPALIVE"
    BY <1>5, <2>1 DEF Packet
  <2> QED BY <1>0, <1>3, <1>4, <2>1, <2>2, <2>3 DEF PlaneTypeOK
<1>9. ASSUME NEW p \in inbox["client"], ClientReceives(p)
      PROVE  PlaneInv' /\ [Promised!TunnelNext]_(Promised!tunnelVars)
  <2>1. "client" \in Ends /\ Taken("client", p) /\ UNCHANGED <<clock, nextSeq, net>>
    BY <1>0, <1>9 DEF ClientReceives
  <2>2. CASE p.type = "DATA" /\ OpensAt("client", p) /\ Forward("client", p)
    BY <1>0, <2>1, <2>2, ForwardKeeps DEF Promised!TunnelNext
  <2>3. CASE UNCHANGED <<seen, forwarded>>
    BY <1>0, <1>3, <1>4, <2>1, <2>3 DEF PlaneTypeOK
  <2> QED BY <1>9, <2>2, <2>3 DEF ClientReceives
<1>10. ASSUME NEW p \in inbox["client"], ProbeReceives(p)
       PROVE  PlaneInv' /\ UNCHANGED Promised!tunnelVars
  <2>1. "client" \in Ends /\ Taken("client", p) /\ UNCHANGED <<clock, nextSeq, net, seen, forwarded>>
    BY <1>0, <1>10 DEF ProbeReceives
  <2> QED BY <1>0, <1>3, <1>4, <2>1 DEF PlaneTypeOK
<1>11. CASE ClientKeepalive \/ ProbeStarts
  <2>1. net' = net \cup {Probe} /\ UNCHANGED <<clock, nextSeq, inbox, seen, forwarded>>
    BY <1>11 DEF ClientKeepalive, ProbeStarts
  <2> QED BY <1>0, <1>3, <1>6, <2>1 DEF PlaneTypeOK
<1>12. CASE \/ ClockTicks \/ ProbeTimesOut \/ UNCHANGED planeVars
            \/ \E g \in {"tx", "rx"} : Count(g)
  <2>1. UNCHANGED <<nextSeq, net, inbox, seen, forwarded>> /\ clock' \in Nat
    BY <1>0, <1>12 DEF ClockTicks, ProbeTimesOut, Count, planeVars, traffic, PlaneTypeOK
  <2> QED BY <1>0, <1>3, <2>1 DEF PlaneTypeOK
<1> QED BY <1>1, <1>2, <1>7, <1>8, <1>9, <1>10, <1>11, <1>12 DEF PlaneNext

(* What is on its way, marked and forwarded fits together in every state.  *)
THEOREM PlaneInvariant == PlaneSpec => []PlaneInv
BY PlaneStarts, PlaneSteps, PTL DEF PlaneSpec

(* ImplementsTunnel: server and client, with the network between them and  *)
(* the latency probe beside them, are a tunnel.                            *)
THEOREM SessionIsTunnel == PlaneSpec => ImplementsTunnel
<1>1. PlaneInit => Promised!TunnelInit
  BY DEF PlaneInit, Promised!TunnelInit, Promised!Ends, Ends
<1> QED BY <1>1, PlaneStarts, PlaneSteps, PTL DEF PlaneSpec, ImplementsTunnel, Promised!TunnelSpec

(* OnlyFirstArrives, for any window, any number of packets and whatever    *)
(* the network does (server/main.go: tunReadLoop and handleInbound).       *)
THEOREM OnlyFirstGetsThrough == PlaneSpec => []OnlyFirstArrives
<1>1. PlaneInv => OnlyFirstArrives
  BY DEF PlaneInv, MarkedOnce, FirstOnly, OnlyFirstArrives
<1> QED BY <1>1, PlaneInvariant, PTL
-----------------------------------------------------------------------------
(* A window has marked what was written to the end's device.               *)
LEMMA SeenIs == ASSUME PlaneInv, NEW e \in Ends
                PROVE  seen[e] = {s \in PlaneSeqs : forwarded[e][s] > 0}
<1>1. seen[e] \subseteq PlaneSeqs
  BY DEF PlaneInv, PlaneTypeOK
<1> QED BY <1>1 DEF PlaneInv, MarkedOnce

(* What a step of the session may do to one end's window.                  *)
WindowMove(e) ==
    \/ /\ nextSeq[Peer(e)] <= MaxSealed - 1
       /\ nextSeq'[Peer(e)] = nextSeq[Peer(e)] + 1 /\ seen'[e] = seen[e]
    \/ \E s \in 0..(MaxSealed - 1) :
          /\ s < nextSeq[Peer(e)] /\ Fresh(e, s)
          /\ seen'[e] = seen[e] \cup {s} /\ nextSeq'[Peer(e)] = nextSeq[Peer(e)]
    \/ nextSeq'[Peer(e)] = nextSeq[Peer(e)] /\ seen'[e] = seen[e]

LEMMA StepsMoveWindows ==
    ASSUME PlaneInv, PlaneInv', [Promised!TunnelNext]_(Promised!tunnelVars), NEW e \in Ends
    PROVE  WindowMove(e)
<1>1. /\ Peer(e) \in Ends /\ Promised!Ends = Ends /\ Promised!Peer(e) = Peer(e) /\ Peer(e) # e
      /\ Ends = {"client", "server"} /\ MaxSealed \in Nat
  BY PeerIs, DataPlaneAssumption DEF Ends, Promised!Ends, DataPlaneAssumption
<1>2. /\ nextSeq \in [Ends -> Nat] /\ nextSeq' \in [Ends -> Nat]
      /\ nextSeq["client"] + nextSeq["server"] <= MaxSealed
      /\ nextSeq'["client"] + nextSeq'["server"] <= MaxSealed
      /\ forwarded \in [Ends -> [PlaneSeqs -> Nat]]
  BY DEF PlaneInv, PlaneTypeOK
<1>3. seen[e] = {s \in PlaneSeqs : forwarded[e][s] > 0} /\ seen'[e] = {s \in PlaneSeqs : forwarded'[e][s] > 0}
  <2>1. seen[e] = {s \in PlaneSeqs : forwarded[e][s] > 0}
    BY SeenIs
  <2>2. seen'[e] = {s \in PlaneSeqs : forwarded'[e][s] > 0}
    <3>1. seen'[e] \subseteq PlaneSeqs
      BY DEF PlaneInv, PlaneTypeOK
    <3> QED BY <3>1 DEF PlaneInv, MarkedOnce
  <2> QED BY <2>1, <2>2
<1>4. ASSUME NEW d \in Ends, Promised!Send(d) PROVE WindowMove(e)
  <2>1. nextSeq' = [nextSeq EXCEPT ![d] = @ + 1] /\ forwarded' = forwarded
    BY <1>4 DEF Promised!Send
  <2>2. seen'[e] = seen[e]
    BY <1>3, <2>1
  <2>3. CASE d = Peer(e)
    <3>1. nextSeq'[Peer(e)] = nextSeq[Peer(e)] + 1 /\ nextSeq'[Peer(e)] <= MaxSealed
      BY <1>1, <1>2, <2>1, <2>3
    <3> QED BY <1>1, <1>2, <2>2, <3>1 DEF WindowMove
  <2>4. CASE d # Peer(e)
    BY <1>1, <1>2, <2>1, <2>2, <2>4 DEF WindowMove
  <2> QED BY <2>3, <2>4
<1>5. ASSUME NEW d \in Ends, NEW n \in PlaneSeqs, Promised!Arrive(d, n) PROVE WindowMove(e)
  <2>1. /\ n < nextSeq[Promised!Peer(d)] /\ forwarded[d][n] = 0
        /\ \A m \in PlaneSeqs : forwarded[d][m] > 0 => m < n + PlaneWindow
        /\ forwarded' = [forwarded EXCEPT ![d][n] = 1] /\ nextSeq' = nextSeq
    BY <1>5 DEF Promised!Arrive
  <2>2. CASE d = e
    <3>1. seen'[e] = seen[e] \cup {n}
      <4>1. \A s \in PlaneSeqs : forwarded'[e][s] = IF s = n THEN 1 ELSE forwarded[e][s]
        BY <1>2, <2>1, <2>2
      <4> QED BY <1>3, <4>1
    <3>2. Fresh(e, n)
      BY <1>3, <2>1, <2>2 DEF Fresh
    <3>3. n \in 0..(MaxSealed - 1) /\ n < nextSeq[Peer(e)] /\ nextSeq'[Peer(e)] = nextSeq[Peer(e)]
      BY <1>1, <2>1, <2>2 DEF PlaneSeqs
    <3> QED BY <3>1, <3>2, <3>3 DEF WindowMove
  <2>3. CASE d # e
    <3>1. seen'[e] = seen[e]
      BY <1>2, <1>3, <2>1, <2>3
    <3> QED BY <2>1, <3>1 DEF WindowMove
  <2> QED BY <2>2, <2>3
<1>6. CASE UNCHANGED Promised!tunnelVars
  <2>1. nextSeq' = nextSeq /\ forwarded' = forwarded
    BY <1>6 DEF Promised!tunnelVars
  <2> QED BY <1>3, <2>1 DEF WindowMove
<1> QED BY <1>1, <1>4, <1>5, <1>6 DEF Promised!TunnelNext

(* Both ends' windows are sliding windows, whatever the network does: a    *)
(* window sees only numbers the peer has drawn, marks each once, and a     *)
(* packet that is late, damaged or not a packet of data leaves no trace.   *)
THEOREM WindowsAreSliding == PlaneSpec => WindowsSlide
<1>1. PlaneInit => ServerWindow!Init /\ ClientWindow!Init
  BY DEF PlaneInit, ServerWindow!Init, ClientWindow!Init, Ends
<1>2. PlaneInv /\ PlaneInv' /\ [Promised!TunnelNext]_(Promised!tunnelVars)
          => [ServerWindow!Next]_(ServerWindow!vars) /\ [ClientWindow!Next]_(ClientWindow!vars)
  <2> SUFFICES ASSUME PlaneInv, PlaneInv', [Promised!TunnelNext]_(Promised!tunnelVars)
               PROVE  /\ ServerWindow!Next \/ UNCHANGED ServerWindow!vars
                      /\ ClientWindow!Next \/ UNCHANGED ClientWindow!vars
    OBVIOUS
  <2>1. ServerWindow!Next \/ UNCHANGED ServerWindow!vars
    <3>1. WindowMove("server") /\ Peer("server") = "client"
      BY StepsMoveWindows, PeerIs DEF Ends
    <3> QED BY <3>1 DEF WindowMove, Fresh, ServerWindow!Next, ServerWindow!Seal, ServerWindow!Accept,
                        ServerWindow!InWindow, ServerWindow!vars
  <2>2. ClientWindow!Next \/ UNCHANGED ClientWindow!vars
    <3>1. WindowMove("client") /\ Peer("client") = "server"
      BY StepsMoveWindows, PeerIs DEF Ends
    <3> QED BY <3>1 DEF WindowMove, Fresh, ClientWindow!Next, ClientWindow!Seal, ClientWindow!Accept,
                        ClientWindow!InWindow, ClientWindow!vars
  <2> QED BY <2>1, <2>2
<1> QED BY <1>1, <1>2, PlaneStarts, PlaneSteps, PTL
        DEF PlaneSpec, WindowsSlide, ServerWindow!Spec, ClientWindow!Spec

(* And such a window is what the bitmap decides: as long as no number is   *)
(* within WindowSize of the wrap, the checks that Open makes before it     *)
(* decrypts (encryption.go: Check) let exactly those numbers through that  *)
(* are new and in the window.                                              *)
Decides == \A s \in Seqs : ~TooOld(s) /\ ~Seen(s) <=> s \notin Accepted /\ Window!InWindow(s)

THEOREM BitmapDecides == ASSUME MaxSeq + WindowSize < SeqSpace PROVE Spec => []Decides
<1>1. Inv => Decides
  <2> SUFFICES ASSUME Inv, NEW s \in Seqs
               PROVE  ~TooOld(s) /\ ~Seen(s) <=> s \notin Accepted /\ Window!InWindow(s)
    BY DEF Decides
  <2>1. /\ maxSeen \in Seqs /\ maxSeen \in Nat /\ s \in Nat /\ s <= MaxSeq
        /\ WindowSize \in Nat \ {0} /\ SeqSpace \in Nat /\ MaxSeq \in Nat
        /\ \A t \in Accepted : t \in Nat /\ t <= maxSeen
        /\ maxSeen = 0 \/ maxSeen \in Accepted
    <3>1. maxSeen \in Seqs /\ (maxSeen = 0 \/ maxSeen \in Accepted)
      BY DEF Inv, TypeOK
    <3>2. /\ WindowSize \in Nat \ {0} /\ SeqSpace \in Nat /\ MaxSeq \in Nat
          /\ \A t \in Seqs : t \in Nat /\ t <= MaxSeq
      BY WindowAssumption DEF Seqs
    <3>3. \A t \in Accepted : t \in Seqs /\ t <= maxSeen
      BY DEF Inv, Accepted
    <3> QED BY <3>1, <3>2, <3>3
  <2>2. TooOld(s) <=> s + WindowSize <= maxSeen
    <3>1. (s + WindowSize) % SeqSpace = s + WindowSize
      <4>1. s + WindowSize \in 0..(SeqSpace - 1)
        BY <2>1
      <4>2. \A x, m \in Nat : x < m => x % m = x
        OBVIOUS
      <4> QED BY <2>1, <4>1, <4>2
    <3> QED BY <3>1 DEF TooOld
  <2>3. TooOld(s) <=> ~Window!InWindow(s)
    BY <2>1, <2>2 DEF Window!InWindow
  <2>4. ASSUME ~TooOld(s) PROVE Seen(s) <=> s \in Accepted
    <3>1. maxSeen < s + WindowSize
      BY <2>1, <2>2, <2>4
    <3>2. CASE s <= maxSeen
      <4>1. Seen(s) <=> opened[s] > 0
        BY <3>1, <3>2 DEF Inv, BitmapExact
      <4> QED BY <4>1 DEF Accepted
    <3>3. CASE s > maxSeen
      <4>1. ~Seen(s)
        BY <2>1, <3>3 DEF Seen
      <4> QED BY <2>1, <3>3, <4>1
    <3> QED BY <2>1, <3>2, <3>3
  <2> QED BY <2>3, <2>4
<1> QED BY <1>1, InvariantHolds, PTL
=============================================================================
