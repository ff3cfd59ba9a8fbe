-------------------------- MODULE SalofFifoProofs --------------------------
(***************************************************************************)
(* Proof that the ring of the asynchronous log is a queue, for any number  *)
(* of writers, any size that is asked for, any length of the entries and   *)
(* any width of the counters: Spec => RingIsQueue.                         *)
(***************************************************************************)
EXTENDS SalofFifo, WellFoundedInduction, SequenceTheorems, TLAPS

-----------------------------------------------------------------------------
(* The least element of a set of naturals, in place of induction.          *)

Less == {p \in Nat \X Nat : p[1] < p[2]}

\* Every nonempty set of naturals has a least element.
LEMMA LeastNat ==
    ASSUME NEW T, T \subseteq Nat, T # {}
    PROVE  \E n \in T : \A m \in T : n <= m
<1>1. IsWellFoundedOn(Less, Nat)
  BY NatLessThanWellFounded DEF OpToRel, Less
<1>2. PICK n \in T : \A m \in T : ~(<<m, n>> \in Less)
  BY <1>1, WFMin
<1>3. \A m \in Nat : m < n => <<m, n>> \in Less
  BY DEF Less
<1>4. \A m \in T : m \in Nat /\ ~(m < n)
  BY <1>2, <1>3, Zenon
<1>5. n \in Nat /\ \A m \in T : n <= m
  BY <1>4
<1> QED
  BY <1>5

-----------------------------------------------------------------------------
(* Powers of two.                                                          *)

\* The first n + 1 powers.
Doubling(g, n) == g \in [0..n -> Nat] /\ g[0] = 1 /\ \A k \in 1..n : g[k] = 2 * g[k - 1]

\* There are n + 1 powers, for every n.
LEMMA DoublingExists == \A n \in Nat : \E g : Doubling(g, n)
<1> DEFINE T == {n \in Nat : ~\E g : Doubling(g, n)}
<1> SUFFICES ASSUME T # {} PROVE FALSE
  OBVIOUS
<1>1. PICK n \in T : \A m \in T : n <= m
  BY LeastNat
<1>2. CASE n = 0
  <2>1. Doubling([k \in 0..0 |-> 1], 0)
    BY DEF Doubling
  <2> QED
    BY <1>2, <2>1
<1>3. CASE n # 0
  <2>1. n - 1 \in Nat /\ n - 1 \notin T
    BY <1>1, <1>3
  <2>2. PICK g : Doubling(g, n - 1)
    BY <2>1
  <2>3. Doubling([k \in 0..n |-> IF k = n THEN 2 * g[n - 1] ELSE g[k]], n)
    BY <1>3, <2>1, <2>2 DEF Doubling
  <2> QED
    BY <2>3
<1> QED
  BY <1>2, <1>3

\* They are the same for every n.
LEMMA DoublingUnique ==
    ASSUME NEW n \in Nat, NEW m \in Nat, NEW g, NEW h, Doubling(g, n), Doubling(h, m),
           NEW k \in Nat, k <= n, k <= m
    PROVE  g[k] = h[k]
<1> DEFINE T == {i \in 0..k : g[i] # h[i]}
<1> SUFFICES ASSUME T # {} PROVE FALSE
  OBVIOUS
<1>1. PICK i \in T : \A j \in T : i <= j
  <2>1. T \subseteq Nat
    OBVIOUS
  <2> HIDE DEF T
  <2> QED
    BY <2>1, LeastNat
<1>2. i # 0
  BY DEF Doubling
<1>3. i - 1 \in 0..k /\ i - 1 \notin T
  BY <1>1, <1>2
<1>4. i \in 1..n /\ i \in 1..m
  BY <1>2
<1> QED
  BY <1>3, <1>4 DEF Doubling

\* What the definition of Power2 says.
LEMMA Power2Def ==
    /\ Power2 \in [Nat -> Nat] /\ Power2[0] = 1
    /\ \A k \in Nat \ {0} : Power2[k] = 2 * Power2[k - 1]
<1> DEFINE P(k) == CHOOSE g : Doubling(g, k)
           f == [k \in Nat |-> P(k)[k]]
           Is(g) == g = [k \in Nat |-> IF k = 0 THEN 1 ELSE 2 * g[k - 1]]
<1>1. \A k \in Nat : Doubling(P(k), k)
  BY DoublingExists
<1> HIDE DEF P
<1>2. \A k \in Nat : P(k)[k] \in Nat
  BY <1>1 DEF Doubling
<1>3. P(0)[0] = 1
  BY <1>1 DEF Doubling
<1>4. ASSUME NEW k \in Nat \ {0} PROVE P(k)[k] = 2 * P(k - 1)[k - 1]
  <2>1. P(k)[k - 1] = P(k - 1)[k - 1]
    <3>1. k - 1 \in Nat /\ k - 1 <= k /\ k - 1 <= k - 1
      OBVIOUS
    <3>2. Doubling(P(k), k) /\ Doubling(P(k - 1), k - 1)
      BY <1>1, <3>1
    <3> QED
      BY <3>1, <3>2, DoublingUnique
  <2>2. P(k)[k] = 2 * P(k)[k - 1]
    <3>1. Doubling(P(k), k) /\ k \in 1..k
      BY <1>1
    <3> QED
      BY <3>1 DEF Doubling
  <2> QED
    BY <2>1, <2>2
<1>5. f = [k \in Nat |-> IF k = 0 THEN 1 ELSE 2 * f[k - 1]]
  BY <1>3, <1>4
<1>6. Power2 = CHOOSE g : Is(g)
  BY DEF Power2
<1>7. Is(Power2)
  <2>1. \E g : Is(g)
    BY <1>5
  <2> HIDE DEF Is
  <2> QED
    BY <1>6, <2>1
<1>8. Power2[0] = 1 /\ \A k \in Nat \ {0} : Power2[k] = 2 * Power2[k - 1]
  BY <1>7
<1>9. \A k \in Nat : Power2[k] \in Nat
  <2> DEFINE T == {k \in Nat : Power2[k] \notin Nat}
  <2> SUFFICES ASSUME T # {} PROVE FALSE
    OBVIOUS
  <2>1. PICK k \in T : \A j \in T : k <= j
    BY LeastNat
  <2>2. k # 0
    BY <1>8
  <2>3. k - 1 \in Nat /\ k - 1 \notin T
    BY <2>1, <2>2
  <2> QED
    BY <1>8, <2>2, <2>3
<1> QED
  BY <1>7, <1>8, <1>9

\* The counters wrap round at a multiple of every power of two that they hold.
LEMMA PowersDivide ==
    ASSUME NEW k \in 0..Width
    PROVE  Power2[k] \in Nat \ {0} /\ \E q \in Nat : Wrap = Power2[k] * q
<1> USE WidthAssumption
<1>1. \A n \in Nat : Power2[n] \in Nat \ {0}
  <2> DEFINE T == {n \in Nat : Power2[n] \notin Nat \ {0}}
  <2> SUFFICES ASSUME T # {} PROVE FALSE
    OBVIOUS
  <2>1. PICK n \in T : \A m \in T : n <= m
    BY LeastNat
  <2>2. n # 0
    BY Power2Def
  <2>3. n - 1 \in Nat /\ n - 1 \notin T
    BY <2>1, <2>2
  <2> QED
    BY <2>2, <2>3, Power2Def
<1>2. \A d \in 0..Width : \E q \in Nat : Wrap = Power2[Width - d] * q
  <2> DEFINE T == {d \in 0..Width : ~\E q \in Nat : Wrap = Power2[Width - d] * q}
  <2> SUFFICES ASSUME T # {} PROVE FALSE
    OBVIOUS
  <2>1. PICK d \in T : \A e \in T : d <= e
    <3>1. T \subseteq Nat
      OBVIOUS
    <3> HIDE DEF T
    <3> QED
      BY <3>1, LeastNat
  <2>2. d # 0
    <3>1. Wrap = Power2[Width - 0] * 1
      BY <1>1 DEF Wrap
    <3> QED
      BY <3>1
  <2>3. d - 1 \in 0..Width /\ d - 1 \notin T
    BY <2>1, <2>2
  <2>4. PICK q \in Nat : Wrap = Power2[Width - (d - 1)] * q
    BY <2>3
  <2>5. Power2[Width - (d - 1)] = 2 * Power2[Width - d] /\ Power2[Width - d] \in Nat
    <3>1. Width - (d - 1) \in Nat \ {0} /\ (Width - (d - 1)) - 1 = Width - d /\ Width - d \in Nat
      BY <2>2
    <3> QED
      BY <3>1, Power2Def
  <2>6. Wrap = Power2[Width - d] * (2 * q)
    <3>1. \A a \in Nat, b \in Nat : (2 * a) * b = a * (2 * b)
      OBVIOUS
    <3> QED
      BY <2>4, <2>5, <3>1
  <2> QED
    BY <2>6
<1>3. Width - k \in 0..Width /\ Width - (Width - k) = k
  OBVIOUS
<1>4. \E q \in Nat : Wrap = Power2[Width - (Width - k)] * q
  BY <1>2, <1>3
<1>5. \E q \in Nat : Wrap = Power2[k] * q
  BY <1>3, <1>4
<1> QED
  BY <1>1, <1>5

\* The size of the ring is a power of two that is not larger than what was asked
\* for: the counters wrap round with it, and tell a full ring from an empty one.
LEMMA SizeOK == Size \in Nat \ {0} /\ Wrap \in Nat /\ Size < Wrap /\ \E q \in Nat : Wrap = Size * q
<1> USE WidthAssumption, RequestAssumption
<1>1. Wrap \in Nat /\ Request < Wrap
  BY Power2Def DEF Wrap
<1>2. Size \in Powers /\ Size <= Request
  <2>1. CASE Request \in Powers
    BY <2>1 DEF Size
  <2>2. CASE Request \notin Powers
    <3> DEFINE T == {k \in 0..Width : Request <= Power2[k]}
    <3>1. T \subseteq Nat /\ Width \in T
      BY Power2Def
    <3>2. PICK k \in T : \A j \in T : k <= j
      <4> HIDE DEF T
      <4> QED
        BY <3>1, LeastNat
    <3>3. k # 0
      BY Power2Def
    <3>4. k - 1 \in 0..Width /\ k - 1 \notin T
      BY <3>2, <3>3
    <3>5. Power2[k - 1] \in Powers /\ Power2[k - 1] < Request /\ Request <= 2 * Power2[k - 1]
      BY <3>3, <3>4, Power2Def DEF Powers
    <3>6. salof_fifo_align(Request) \in Powers /\ salof_fifo_align(Request) < Request
      BY <3>5 DEF salof_fifo_align
    <3>7. \A p \in Powers : p \in Nat
      BY Power2Def DEF Powers
    <3> QED
      BY <2>2, <3>6, <3>7 DEF Size
  <2> QED
    BY <2>1, <2>2
<1>3. PICK k \in 0..Width : Size = Power2[k]
  BY <1>2 DEF Powers
<1> QED
  BY <1>1, <1>2, <1>3, PowersDivide

-----------------------------------------------------------------------------
(* Places in the ring.                                                     *)

\* Quotient and remainder, and that they are unique.
LEMMA DivMod ==
    ASSUME NEW a \in Int, NEW n \in Nat \ {0}
    PROVE  a = n * (a \div n) + (a % n) /\ a \div n \in Int /\ a % n \in 0..(n - 1)
OBVIOUS

\* A number with quotient q has the remainder r.
LEMMA Remainder ==
    ASSUME NEW n \in Nat \ {0}, NEW q \in Int, NEW r \in 0..(n - 1)
    PROVE  (n * q + r) % n = r
OBVIOUS

\* The place of a counter is in the ring, and counters less than Size apart
\* have different places.
LEMMA PlaceDiffer ==
    ASSUME NEW a \in Nat, NEW b \in Nat, a < b, b < a + Size
    PROVE  Place(a) \in 0..(Size - 1) /\ Place(b) \in 0..(Size - 1) /\ Place(a) # Place(b)
<1>1. ASSUME NEW n \in Nat \ {0}, b < a + n
      PROVE  a % n \in 0..(n - 1) /\ b % n \in 0..(n - 1) /\ a % n # b % n
  <2> DEFINE d == (b \div n) - (a \div n)
  <2>1. ASSUME a % n = b % n PROVE FALSE
    <3>1. d \in Int /\ b - a = n * d
      BY <2>1, DivMod
    <3> HIDE DEF d
    <3>2. d <= 0 => n * d <= 0
      BY <3>1
    <3>3. d >= 1 => n * d >= n
      BY <3>1
    <3> QED
      BY <1>1, <3>1, <3>2, <3>3
  <2> QED
    BY <2>1, DivMod
<1> QED
  BY <1>1, SizeOK DEF Place

\* Going on by less than Size from a place reaches the end of the ring or its
\* beginning.
LEMMA PlaceNext ==
    ASSUME NEW a \in Nat, NEW i \in Nat, i < Size
    PROVE  /\ Place(a) \in 0..(Size - 1)
           /\ Place(a + i) = IF Place(a) + i < Size THEN Place(a) + i ELSE Place(a) + i - Size
<1>1. ASSUME NEW n \in Nat \ {0}, i < n
      PROVE  /\ a % n \in 0..(n - 1)
             /\ (a + i) % n = IF (a % n) + i < n THEN (a % n) + i ELSE (a % n) + i - n
  <2> DEFINE q == a \div n
             r == a % n
  <2>1. a = n * q + r /\ q \in Int /\ r \in 0..(n - 1)
    BY DivMod
  <2> HIDE DEF q, r
  <2>2. CASE r + i < n
    <3>1. a + i = n * q + (r + i) /\ r + i \in 0..(n - 1)
      BY <1>1, <2>1, <2>2
    <3> QED
      BY <2>1, <2>2, <3>1, Remainder DEF r
  <2>3. CASE r + i >= n
    <3>1. n * (q + 1) = n * q + n
      BY <2>1
    <3>2. r + i - n \in 0..(n - 1) /\ q + 1 \in Int
      BY <1>1, <2>1, <2>3
    <3>3. a + i = n * (q + 1) + (r + i - n)
      BY <2>1, <3>1, <3>2
    <3>4. (n * (q + 1) + (r + i - n)) % n = r + i - n
      BY <3>2, Remainder
    <3>5. (a + i) % n = r + i - n
      BY <3>3, <3>4
    <3> QED
      BY <2>1, <2>3, <3>5 DEF r
  <2> QED
    BY <2>1, <2>2, <2>3
<1> QED
  BY <1>1, SizeOK DEF Place

\* The place of a counter is not disturbed when the counter wraps round.
LEMMA PlaceWrap ==
    ASSUME NEW a \in Nat
    PROVE  Place(a + Wrap) = Place(a)
<1>1. ASSUME NEW n \in Nat \ {0}, NEW q \in Nat
      PROVE  (a + n * q) % n = a % n
  <2> DEFINE p == a \div n
             r == a % n
  <2>1. a = n * p + r /\ p \in Int /\ r \in 0..(n - 1)
    BY DivMod
  <2> HIDE DEF p, r
  <2>2. a + n * q = n * (p + q) + r /\ p + q \in Int
    BY <2>1
  <2> QED
    BY <2>1, <2>2, Remainder DEF r
<1> QED
  BY <1>1, SizeOK DEF Place

-----------------------------------------------------------------------------
(* The inductive invariant.  What the writer that has the mutex will write *)
(* fits beside what is in the ring, what the task will take is in the      *)
(* ring, and what it has copied is what the ring held and still holds.     *)

Bytes == Writers \cup {NULL}

RingType ==
    /\ format \in Bytes
    /\ ring \in [0..(Size - 1) -> Bytes]
    /\ in \in 0..(Wrap - 1) /\ out \in 0..(Wrap - 1)
    /\ writer \in [Writers -> [pc : {"idle", "pend", "copy", "wrap", "in", "signal"}, len : Nat]]
    /\ reader \in [pc : {"pend", "read", "copy", "wrap", "out"}, len : Nat]

Writing(w) == writer[w].pc \in {"copy", "wrap", "in"}

RoomInv ==
    /\ Used <= Size
    /\ \A w \in Writers : Writing(w) => mutex = w /\ writer[w].len <= Size - Used
    /\ reader.pc \in {"copy", "wrap", "out"} => reader.len <= Used

\* The oldest n bytes in the ring.
Oldest(n) == [i \in 1..n |-> ring[Place(out + i - 1)]]

CopyInv ==
    /\ reader.pc = "wrap" => outBuff = Oldest(First(out, reader.len))
    /\ reader.pc = "out" => outBuff = Oldest(reader.len)

RingInv == RingType /\ RoomInv /\ CopyInv

-----------------------------------------------------------------------------
(* Counters.                                                               *)

\* The sum of counters, ...
LEMMA Sum ==
    ASSUME NEW n \in Nat \ {0}, NEW a \in 0..(n - 1), NEW b \in 0..(n - 1)
    PROVE  (a + b) % n = IF a + b < n THEN a + b ELSE a + b - n
<1>1. CASE a + b < n
  <2>1. (n * 0 + (a + b)) % n = a + b
    BY <1>1, Remainder
  <2>2. n * 0 + (a + b) = a + b
    OBVIOUS
  <2> QED
    BY <1>1, <2>1, <2>2
<1>2. CASE a + b >= n
  <2>1. a + b - n \in 0..(n - 1)
    BY <1>2
  <2>2. (n * 1 + (a + b - n)) % n = a + b - n
    BY <2>1, Remainder
  <2>3. n * 1 + (a + b - n) = a + b
    OBVIOUS
  <2> QED
    BY <1>2, <2>2, <2>3
<1> QED
  BY <1>1, <1>2

\* ... and their difference.
LEMMA Difference ==
    ASSUME NEW n \in Nat \ {0}, NEW a \in 0..(n - 1), NEW b \in 0..(n - 1)
    PROVE  (a + n - b) % n = IF a < b THEN a + n - b ELSE a - b
<1>1. CASE a < b
  <2>1. a + n - b \in 0..(n - 1)
    BY <1>1
  <2>2. (n * 0 + (a + n - b)) % n = a + n - b
    BY <2>1, Remainder
  <2>3. n * 0 + (a + n - b) = a + n - b
    OBVIOUS
  <2> QED
    BY <1>1, <2>2, <2>3
<1>2. CASE a >= b
  <2>1. a - b \in 0..(n - 1)
    BY <1>2
  <2>2. (n * 1 + (a - b)) % n = a - b
    BY <2>1, Remainder
  <2>3. n * 1 + (a - b) = a + n - b
    OBVIOUS
  <2> QED
    BY <1>2, <2>2, <2>3
<1> QED
  BY <1>1, <1>2

\* The number of bytes in the ring is the distance of the counters.
LEMMA UsedIs ==
    ASSUME RingType
    PROVE  /\ Used \in 0..(Wrap - 1) /\ out \in Nat /\ in \in Nat
           /\ in = out + Used \/ in + Wrap = out + Used
<1>1. in \in 0..(Wrap - 1) /\ out \in 0..(Wrap - 1) /\ Wrap \in Nat \ {0}
  BY SizeOK DEF RingType
<1>2. Used = (in + Wrap - out) % Wrap
  BY DEF Used
<1>3. Used = IF in < out THEN in + Wrap - out ELSE in - out
  BY <1>1, <1>2, Difference
<1> QED
  BY <1>1, <1>3

\* The places after the last byte in the ring.
LEMMA PlaceIn ==
    ASSUME RingType, NEW j \in Nat
    PROVE  Place(in + j) = Place(out + Used + j)
<1>1. CASE in = out + Used
  BY <1>1
<1>2. CASE in + Wrap = out + Used
  <2>1. Place((in + j) + Wrap) = Place(in + j)
    BY UsedIs, PlaceWrap
  <2>2. (in + j) + Wrap = out + Used + j
    BY <1>2, UsedIs, SizeOK
  <2> QED
    BY <2>1, <2>2
<1> QED
  BY <1>1, <1>2, UsedIs

\* A byte that fits beside those in the ring does not go on top of one.
LEMMA Apart ==
    ASSUME RingType, NEW j \in Nat, j < Size - Used, NEW i \in 1..Used
    PROVE  Place(in + j) # Place(out + i - 1)
<1>1. out + i - 1 \in Nat /\ out + Used + j \in Nat
  BY UsedIs
<1>2. out + i - 1 < out + Used + j /\ out + Used + j < (out + i - 1) + Size
  BY UsedIs, SizeOK
<1> QED
  BY <1>1, <1>2, PlaceDiffer, PlaceIn

\* n more bytes.
LEMMA UsedGrows ==
    ASSUME RingType, NEW n \in Nat, n <= Size - Used, in' = (in + n) % Wrap, out' = out
    PROVE  in' \in 0..(Wrap - 1) /\ Used' = Used + n
<1>1. /\ Wrap \in Nat \ {0} /\ in \in 0..(Wrap - 1) /\ out \in 0..(Wrap - 1)
      /\ Used \in Nat /\ Used + n < Wrap /\ n \in 0..(Wrap - 1)
  <2>1. in \in 0..(Wrap - 1) /\ out \in 0..(Wrap - 1)
    BY DEF RingType
  <2> QED
    BY <2>1, SizeOK, UsedIs
<1>2. in' = IF in + n < Wrap THEN in + n ELSE in + n - Wrap
  BY <1>1, Sum
<1>3. in' \in 0..(Wrap - 1)
  BY <1>1, <1>2
<1>5. (in' + Wrap - out) % Wrap = IF in' < out THEN in' + Wrap - out ELSE in' - out
  BY <1>1, <1>3, Difference
<1>6. Used' = (in' + Wrap - out) % Wrap
  BY DEF Used
<1> QED
  BY <1>1, <1>2, <1>3, <1>5, <1>6, UsedIs

\* n bytes less.
LEMMA UsedShrinks ==
    ASSUME RingType, NEW n \in Nat, n <= Used, out' = (out + n) % Wrap, in' = in
    PROVE  /\ out' \in 0..(Wrap - 1) /\ Used' = Used - n
           /\ \A j \in Nat : Place(out' + j) = Place(out + n + j)
<1>1. /\ Wrap \in Nat \ {0} /\ in \in 0..(Wrap - 1) /\ out \in 0..(Wrap - 1)
      /\ Used \in Nat /\ Used < Wrap /\ n \in 0..(Wrap - 1)
  <2>1. in \in 0..(Wrap - 1) /\ out \in 0..(Wrap - 1)
    BY DEF RingType
  <2> QED
    BY <2>1, SizeOK, UsedIs
<1>2. out' = IF out + n < Wrap THEN out + n ELSE out + n - Wrap
  BY <1>1, Sum
<1>3. out' \in 0..(Wrap - 1)
  BY <1>1, <1>2
<1>5. (in + Wrap - out') % Wrap = IF in < out' THEN in + Wrap - out' ELSE in - out'
  BY <1>1, <1>3, Difference
<1>6. Used' = (in + Wrap - out') % Wrap
  BY DEF Used
<1>7. Used' = Used - n
  BY <1>1, <1>2, <1>3, <1>5, <1>6, UsedIs
<1>8. ASSUME NEW j \in Nat PROVE Place(out' + j) = Place(out + n + j)
  <2>1. CASE out + n < Wrap
    BY <1>2, <2>1
  <2>2. CASE out + n >= Wrap
    <3>1. (out' + j) + Wrap = out + n + j /\ out' + j \in Nat
      BY <1>1, <1>2, <1>3, <2>2
    <3> QED
      BY <3>1, PlaceWrap
  <2> QED
    BY <1>1, <2>1, <2>2
<1> QED
  BY <1>3, <1>7, <1>8

-----------------------------------------------------------------------------
(* Steps of the writers.                                                   *)

\* The oldest bytes stay when what is in the ring stays where it is.
LEMMA OldestStay ==
    ASSUME RingType, in' = in, out' = out,
           \A i \in 1..Used : ring'[Place(out + i - 1)] = ring[Place(out + i - 1)]
    PROVE  Used' = Used /\ \A n \in Nat : n <= Used => Oldest(n)' = Oldest(n)
<1>1. Used' = Used
  BY DEF Used
<1>2. ASSUME NEW n \in Nat, n <= Used PROVE Oldest(n)' = Oldest(n)
  <2>1. \A i \in 1..n : i \in 1..Used
    BY <1>2, UsedIs
  <2> QED
    BY <2>1 DEF Oldest, Place
<1> QED
  BY <1>1, <1>2

\* The two memcpy of salof_fifo_write write to places behind the last byte.
LEMMA WrittenPlaces ==
    ASSUME RingType, NEW n \in Nat, n <= Size, NEW p \in 0..(Size - 1),
           \/ p >= Place(in) /\ p < Place(in) + First(in, n)
           \/ p < n - First(in, n)
    PROVE  \E j \in Nat : j < n /\ p = Place(in + j)
<1>1. in \in Nat /\ Place(in) \in 0..(Size - 1) /\ Size \in Nat \ {0}
  BY UsedIs, SizeOK, PlaceNext
<1>2. First(in, n) = IF n < Size - Place(in) THEN n ELSE Size - Place(in)
  BY DEF First, min
<1>3. CASE p >= Place(in) /\ p < Place(in) + First(in, n)
  <2>1. p - Place(in) \in Nat /\ p - Place(in) < n /\ p - Place(in) < Size
    BY <1>1, <1>2, <1>3
  <2>2. Place(in + (p - Place(in))) = p
    BY <1>1, <2>1, PlaceNext
  <2> QED
    BY <2>1, <2>2
<1>4. CASE p < n - First(in, n)
  <2> DEFINE j == Size - Place(in) + p
  <2>1. j \in Nat /\ j < n /\ j < Size /\ Place(in) + j >= Size /\ Place(in) + j - Size = p
    BY <1>1, <1>2, <1>4
  <2> HIDE DEF j
  <2>2. Place(in + j) = p
    BY <1>1, <2>1, PlaceNext
  <2> QED
    BY <2>1, <2>2
<1> QED
  BY <1>3, <1>4

\* The bytes in the ring stay where they are.
LEMMA WriteKeeps ==
    ASSUME RingType, RoomInv, NEW w \in Writers, write_copy(w) \/ write_wrap(w)
    PROVE  /\ ring' \in [0..(Size - 1) -> Bytes] /\ in' = in /\ out' = out
           /\ \A i \in 1..Used : ring'[Place(out + i - 1)] = ring[Place(out + i - 1)]
<1> DEFINE n == writer[w].len
           Hit(p) == \/ p >= Place(in) /\ p < Place(in) + First(in, n)
                     \/ p < n - First(in, n)
<1>1. ring \in [0..(Size - 1) -> Bytes] /\ format \in Bytes /\ n \in Nat /\ n <= Size - Used
  BY DEF RingType, RoomInv, Writing, write_copy, write_wrap, At
<1>2. /\ ring' \in [0..(Size - 1) -> Bytes]
      /\ \A p \in 0..(Size - 1) : ring'[p] = ring[p] \/ Hit(p)
  <2>1. CASE write_copy(w)
    BY <1>1, <2>1 DEF write_copy
  <2>2. CASE write_wrap(w)
    BY <1>1, <2>2 DEF write_wrap
  <2> QED
    BY <2>1, <2>2
<1>3. ASSUME NEW i \in 1..Used PROVE ring'[Place(out + i - 1)] = ring[Place(out + i - 1)]
  <2> DEFINE p == Place(out + i - 1)
  <2>1. out + i - 1 \in Nat /\ n <= Size /\ Used \in Nat
    BY <1>1, UsedIs, SizeOK
  <2>2. p \in 0..(Size - 1)
    BY <2>1, PlaceNext, SizeOK
  <2>3. ASSUME Hit(p) PROVE FALSE
    <3>1. PICK j \in Nat : j < n /\ p = Place(in + j)
      <4> HIDE DEF n, p
      <4> QED
        BY <1>1, <2>1, <2>2, <2>3, WrittenPlaces
    <3>2. j < Size - Used
      BY <1>1, <2>1, <3>1, SizeOK
    <3> QED
      BY <3>1, <3>2, Apart
  <2> QED
    BY <1>2, <2>2, <2>3
<1> QED
  BY <1>2, <1>3 DEF write_copy, write_wrap

\* The steps of a writer.
LEMMA WriterKeeps ==
    ASSUME RingInv, NEW w \in Writers, salof(w) \/ Logging(w)
    PROVE  RingInv'
<1> USE DEF RingInv
<1>0. /\ Used \in Nat /\ Size \in Nat /\ WritersAssumption
      /\ reader' = reader /\ outBuff' = outBuff
  BY UsedIs, SizeOK, WritersAssumption DEF salof, Logging, salof_fifo_write, salof_mutex_pend_fails,
     write_copy, write_wrap, write_in, salof_sem_post, readerVars
<1>1. ASSUME in' = in, out' = out, ring' = ring
      PROVE  Used' = Used /\ CopyInv'
  BY <1>0, <1>1 DEF Used, CopyInv, Oldest, First, Place
<1>2. CASE salof(w)
  <2>1. in' = in /\ out' = out /\ ring' = ring /\ mutex' = mutex
    BY <1>2 DEF salof, ringVars
  <2>2. RingType'
    BY <1>0, <1>2, <2>1 DEF salof, RingType, Bytes
  <2>3. \A v \in Writers : Writing(v)' => writer'[v] = writer[v]
    BY <1>2 DEF salof, Writing, RingType
  <2> QED
    BY <1>0, <1>1, <2>1, <2>2, <2>3 DEF RoomInv, Writing
<1>3. CASE salof_fifo_write(w)
  <2>1. in' = in /\ out' = out /\ ring' = ring /\ mutex = NULL /\ mutex' = w /\ format' = format
    BY <1>3 DEF salof_fifo_write, ringVars
  <2> DEFINE n == min(writer[w].len, Size - Used)
  <2>2. n \in Nat /\ n <= Size - Used
    BY <1>0 DEF min, RingType, RoomInv
  <2>3. /\ writer' \in [Writers -> [pc : {"idle", "pend", "copy", "wrap", "in", "signal"}, len : Nat]]
        /\ writer'[w].len = n /\ \A v \in Writers : v # w => writer'[v] = writer[v]
    BY <1>3, <2>2 DEF salof_fifo_write, RingType
  <2> HIDE DEF n
  <2>4. RingType'
    BY <1>0, <2>1, <2>2, <2>3 DEF RingType
  <2>5. \A v \in Writers : ~Writing(v)
    BY <1>0, <2>1 DEF RoomInv
  <2>6. \A v \in Writers : Writing(v)' => v = w
    BY <2>3, <2>5 DEF Writing, RingType
  <2> QED
    BY <1>0, <1>1, <2>1, <2>2, <2>3, <2>4, <2>6 DEF RoomInv
<1>4. CASE salof_mutex_pend_fails(w) \/ salof_sem_post(w)
  <2>1. in' = in /\ out' = out /\ ring' = ring /\ mutex' = mutex /\ format' = format
    BY <1>4 DEF salof_mutex_pend_fails, salof_sem_post, ringVars
  <2>2. writer' = [writer EXCEPT ![w] = [pc |-> "idle", len |-> 0]]
    BY <1>4 DEF salof_mutex_pend_fails, salof_sem_post
  <2>3. RingType'
    BY <1>0, <2>1, <2>2 DEF RingType
  <2>4. \A v \in Writers : Writing(v)' => writer'[v] = writer[v]
    BY <2>2 DEF Writing, RingType
  <2> QED
    BY <1>0, <1>1, <2>1, <2>3, <2>4 DEF RoomInv, Writing
<1>5. CASE write_copy(w) \/ write_wrap(w)
  <2>1. /\ mutex' = mutex /\ format' = format /\ Writing(w)
        /\ \E pc \in {"wrap", "in"} : writer' = [writer EXCEPT ![w].pc = pc]
    BY <1>5 DEF write_copy, write_wrap, Goto, Writing, At
  <2>2. RingType'
    BY <1>0, <1>5, <2>1, WriteKeeps DEF RingType
  <2>3. \A v \in Writers : writer'[v].len = writer[v].len /\ (Writing(v)' => Writing(v))
    BY <2>1 DEF Writing, RingType
  <2>4. Used' = Used /\ \A n \in Nat : n <= Used => Oldest(n)' = Oldest(n)
    BY <1>5, WriteKeeps, OldestStay
  <2>5. RoomInv'
    BY <1>0, <2>1, <2>3, <2>4 DEF RoomInv
  <2>6. CopyInv'
    <3>1. reader.pc \in {"wrap", "out"} =>
            /\ reader.len \in Nat /\ reader.len <= Used
            /\ First(out, reader.len) \in Nat /\ First(out, reader.len) <= reader.len
      <4>1. out \in Nat /\ Place(out) \in 0..(Size - 1) /\ reader.len \in Nat
        <5>1. out \in Nat /\ 0 \in Nat /\ 0 < Size
          BY UsedIs, SizeOK
        <5> QED
          BY <5>1, PlaceNext DEF RingType
      <4> QED
        BY <1>0, <4>1, SizeOK DEF RoomInv, First, min
    <3>2. First(out, reader.len)' = First(out, reader.len)
      BY <1>0, <1>5, WriteKeeps DEF First, Place
    <3> QED
      BY <1>0, <2>4, <3>1, <3>2 DEF CopyInv
  <2> QED
    BY <2>2, <2>5, <2>6
<1>6. CASE write_in(w)
  <2> DEFINE n == writer[w].len
  <2>1. /\ Writing(w) /\ mutex = w /\ n \in Nat /\ n <= Size - Used
    BY <1>6 DEF write_in, At, Writing, RoomInv, RingType
  <2>2. in' = (in + n) % Wrap /\ out' = out /\ ring' = ring /\ format' = format
    BY <1>6 DEF write_in
  <2>3. in' \in 0..(Wrap - 1) /\ Used' = Used + n
    BY <2>1, <2>2, UsedGrows
  <2>4. writer' = [writer EXCEPT ![w].pc = "signal"]
    BY <1>6 DEF write_in, Goto
  <2>5. RingType'
    BY <1>0, <2>2, <2>3, <2>4 DEF RingType
  <2>6. \A v \in Writers : ~Writing(v)'
    BY <2>1, <2>4 DEF Writing, RingType, RoomInv
  <2>7. reader.len \in Nat
    BY DEF RingType
  <2>8. RoomInv'
    BY <1>0, <2>1, <2>3, <2>6, <2>7 DEF RoomInv
  <2>9. CopyInv'
    BY <1>0, <2>2 DEF CopyInv, Oldest, First, Place
  <2> QED
    BY <2>5, <2>8, <2>9
<1> QED
  BY <1>2, <1>3, <1>4, <1>5, <1>6 DEF Logging

-----------------------------------------------------------------------------
(* Steps of the task.                                                      *)

\* What the first memcpy of salof_fifo_read takes, and the second.
LEMMA ReadPlaces ==
    ASSUME RingType, RoomInv, NEW n \in Nat, n <= Used
    PROVE  /\ First(out, n) \in Nat /\ First(out, n) <= n
           /\ \A i \in 1..First(out, n) : Place(out + i - 1) = Place(out) + i - 1
           /\ \A i \in 1..(n - First(out, n)) : Place(out + First(out, n) + i - 1) = i - 1
<1>1. /\ out \in Nat /\ Used \in Nat /\ Size \in Nat \ {0} /\ n <= Size
      /\ Place(out) \in 0..(Size - 1)
  <2>1. out \in Nat /\ 0 \in Nat /\ 0 < Size /\ Used \in Nat /\ Size \in Nat \ {0} /\ n <= Size
    BY UsedIs, SizeOK DEF RoomInv
  <2> QED
    BY <2>1, PlaceNext
<1>2. First(out, n) = IF n < Size - Place(out) THEN n ELSE Size - Place(out)
  BY DEF First, min
<1>3. First(out, n) \in Nat /\ First(out, n) <= n
  BY <1>1, <1>2
<1>4. ASSUME NEW i \in 1..First(out, n) PROVE Place(out + i - 1) = Place(out) + i - 1
  <2>1. i - 1 \in Nat /\ i - 1 < Size /\ Place(out) + (i - 1) < Size /\ out + (i - 1) = out + i - 1
    BY <1>1, <1>2
  <2>2. Place(out + (i - 1)) = Place(out) + (i - 1)
    BY <1>1, <2>1, PlaceNext
  <2> QED
    BY <1>1, <2>1, <2>2
<1>5. ASSUME NEW i \in 1..(n - First(out, n)) PROVE Place(out + First(out, n) + i - 1) = i - 1
  <2> DEFINE j == First(out, n) + i - 1
  <2>1. /\ j \in Nat /\ j < Size /\ Place(out) + j >= Size /\ Place(out) + j - Size = i - 1
        /\ out + j = out + First(out, n) + i - 1
    BY <1>1, <1>2, <1>3
  <2> HIDE DEF j
  <2>2. Place(out + j) = Place(out) + j - Size
    BY <1>1, <2>1, PlaceNext
  <2> QED
    BY <2>1, <2>2
<1> QED
  BY <1>3, <1>4, <1>5

\* The oldest bytes are a sequence.
LEMMA OldestSeq ==
    ASSUME RingType, NEW n \in Nat
    PROVE  /\ Oldest(n) \in Seq(Bytes) /\ Len(Oldest(n)) = n
           /\ \A i \in 1..n : Oldest(n)[i] = ring[Place(out + i - 1)]
<1>1. \A i \in 1..n : Place(out + i - 1) \in 0..(Size - 1)
  <2> TAKE i \in 1..n
  <2>1. out + i - 1 \in Nat /\ 0 \in Nat /\ 0 < Size
    BY UsedIs, SizeOK
  <2> QED
    BY <2>1, PlaceNext
<1>2. Oldest(n) \in [1..n -> Bytes]
  BY <1>1 DEF Oldest, RingType
<1> QED
  BY <1>2 DEF Oldest

\* The steps of the task.
LEMMA TaskKeeps ==
    ASSUME RingInv, salof_task
    PROVE  RingInv'
<1> USE DEF RingInv
<1>0. /\ Used \in Nat /\ Size \in Nat /\ out \in Nat /\ BuffSize \in Nat
      /\ format' = format /\ ring' = ring /\ in' = in /\ mutex' = mutex /\ writer' = writer
  BY UsedIs, SizeOK, RequestAssumption DEF salof_task, salof_sem_pend, salof_fifo_read, read_copy,
     read_wrap, salof_handler, ringVars
<1>1. ASSUME out' = out PROVE Used' = Used
  BY <1>0, <1>1 DEF Used
<1>2. CASE salof_sem_pend \/ salof_fifo_read
  <2>1. out' = out
    BY <1>2 DEF salof_sem_pend, salof_fifo_read, ringVars
  <2>2. /\ reader' \in [pc : {"pend", "read", "copy", "wrap", "out"}, len : Nat]
        /\ reader'.pc = "read" \/ (reader'.pc = "copy" /\ reader'.len <= Used)
    BY <1>0, <1>2 DEF salof_sem_pend, salof_fifo_read, min, RingType
  <2>3. RingType'
    BY <1>0, <2>1, <2>2 DEF RingType
  <2> QED
    BY <1>0, <1>1, <2>1, <2>2, <2>3 DEF RoomInv, CopyInv, Writing
<1>3. CASE read_copy
  <2>1. /\ out' = out /\ reader.pc = "copy" /\ reader.len \in Nat /\ reader.len <= Used
        /\ reader' = [reader EXCEPT !.pc = "wrap"]
        /\ outBuff' = [i \in 1..First(out, reader.len) |-> ring[Place(out) + i - 1]]
    BY <1>3 DEF read_copy, ringVars, RingType, RoomInv
  <2>2. RingType' /\ reader'.pc = "wrap" /\ reader'.len = reader.len
    BY <1>0, <2>1 DEF RingType
  <2>3. RoomInv'
    BY <1>0, <1>1, <2>1, <2>2 DEF RoomInv, Writing
  <2>4. outBuff' = Oldest(First(out, reader.len))
    BY <2>1, ReadPlaces DEF Oldest
  <2>5. CopyInv'
    BY <1>0, <2>1, <2>2, <2>4 DEF CopyInv, Oldest, First, Place
  <2> QED
    BY <2>2, <2>3, <2>5
<1>4. CASE read_wrap
  <2> DEFINE n == reader.len
             k == First(out, n)
             rest == [i \in 1..(n - k) |-> ring[i - 1]]
  <2>1. /\ out' = out /\ reader.pc = "wrap" /\ n \in Nat /\ n <= Used
        /\ reader' = [reader EXCEPT !.pc = "out"] /\ outBuff = Oldest(k) /\ outBuff' = outBuff \o rest
    BY <1>4 DEF read_wrap, ringVars, RingType, RoomInv, CopyInv
  <2>2. RingType' /\ reader'.pc = "out" /\ reader'.len = n
    BY <1>0, <2>1 DEF RingType
  <2>3. RoomInv'
    BY <1>0, <1>1, <2>1, <2>2 DEF RoomInv, Writing
  <2>4. k \in Nat /\ k <= n /\ \A i \in 1..(n - k) : Place(out + k + i - 1) = i - 1
    BY <2>1, ReadPlaces
  <2> HIDE DEF n, k
  <2>5. Oldest(k) \o rest = Oldest(n)
    <3>1. /\ Oldest(k) \in Seq(Bytes) /\ Len(Oldest(k)) = k
          /\ \A i \in 1..k : Oldest(k)[i] = ring[Place(out + i - 1)]
      BY <2>4, OldestSeq
    <3>2. /\ Oldest(n) \in Seq(Bytes) /\ Len(Oldest(n)) = n
          /\ \A i \in 1..n : Oldest(n)[i] = ring[Place(out + i - 1)]
      BY <2>1, OldestSeq
    <3>3. rest \in Seq(Bytes) /\ Len(rest) = n - k /\ \A i \in 1..(n - k) : rest[i] = ring[i - 1]
      <4>1. n - k \in Nat /\ n <= Size
        BY <1>0, <2>1, <2>4 DEF RoomInv
      <4>2. \A i \in 1..(n - k) : i - 1 \in 0..(Size - 1)
        BY <1>0, <2>1, <2>4, <4>1
      <4>3. rest \in [1..(n - k) -> Bytes]
        BY <4>2 DEF RingType
      <4> QED
        BY <4>1, <4>3
    <3>4. \A i \in 1..(n - k) : rest[i] = Oldest(n)[k + i]
      <4> TAKE i \in 1..(n - k)
      <4>1. k + i \in 1..n /\ out + (k + i) - 1 = out + k + i - 1
        BY <1>0, <2>1, <2>4
      <4> QED
        BY <2>4, <3>2, <3>3, <4>1
    <3>5. \A i \in 1..k : Oldest(k)[i] = Oldest(n)[i]
      BY <2>1, <2>4, <3>1, <3>2
    <3> HIDE DEF rest
    <3>6. /\ Oldest(k) \o rest \in Seq(Bytes) /\ Len(Oldest(k) \o rest) = n
          /\ \A i \in 1..n : (Oldest(k) \o rest)[i] = IF i <= k THEN Oldest(k)[i] ELSE rest[i - k]
      <4>1. /\ Oldest(k) \o rest \in Seq(Bytes)
            /\ Len(Oldest(k) \o rest) = Len(Oldest(k)) + Len(rest)
            /\ \A i \in 1..(Len(Oldest(k)) + Len(rest)) :
                  (Oldest(k) \o rest)[i] = IF i <= Len(Oldest(k)) THEN Oldest(k)[i]
                                           ELSE rest[i - Len(Oldest(k))]
        BY <3>1, <3>3, ConcatProperties
      <4>2. k + (n - k) = n
        BY <2>1, <2>4
      <4> QED
        BY <3>1, <3>3, <4>1, <4>2
    <3>7. \A i \in 1..n : (Oldest(k) \o rest)[i] = Oldest(n)[i]
      <4> TAKE i \in 1..n
      <4>1. CASE i <= k
        BY <2>4, <3>5, <3>6, <4>1
      <4>2. CASE i > k
        <5>1. i - k \in 1..(n - k) /\ k + (i - k) = i
          BY <2>1, <2>4, <4>2
        <5> QED
          BY <2>4, <3>4, <3>6, <4>2, <5>1
      <4>3. i <= k \/ i > k
        BY <2>1, <2>4
      <4> QED
        BY <4>1, <4>2, <4>3
    <3> QED
      BY <3>2, <3>6, <3>7, SeqEqual
  <2>6. CopyInv'
    <3>1. outBuff' = Oldest(n)
      BY <2>1, <2>5
    <3>2. ring' = ring /\ out' = out
      BY <1>0, <2>1
    <3>3. Oldest(reader.len)' = Oldest(n)
      BY <2>2, <3>2 DEF Oldest, Place
    <3> QED
      BY <2>2, <3>1, <3>3 DEF CopyInv
  <2> QED
    BY <2>2, <2>3, <2>6
<1>5. CASE salof_handler
  <2> DEFINE n == reader.len
  <2>1. /\ out' = (out + n) % Wrap /\ n \in Nat /\ n <= Used
        /\ reader' = [pc |-> "pend", len |-> 0]
    BY <1>5 DEF salof_handler, RingType, RoomInv
  <2>2. out' \in 0..(Wrap - 1) /\ Used' = Used - n
    BY <1>0, <2>1, UsedShrinks
  <2>3. RingType'
    BY <1>0, <2>1, <2>2 DEF RingType
  <2>4. \A w \in Writers : writer[w].len \in Nat
    BY DEF RingType
  <2> HIDE DEF n
  <2>5. RoomInv' /\ CopyInv'
    BY <1>0, <2>1, <2>2, <2>4 DEF RoomInv, CopyInv, Writing
  <2> QED
    BY <2>3, <2>5
<1> QED
  BY <1>2, <1>3, <1>4, <1>5 DEF salof_task

\* salof_init.
LEMMA RingInit == Init => RingInv
<1> SUFFICES ASSUME Init PROVE RingInv
  OBVIOUS
<1>1. Size \in Nat \ {0} /\ Wrap \in Nat \ {0}
  BY SizeOK
<1>2. RingType
  BY <1>1 DEF Init, RingType, Bytes
<1>3. Used = 0
  BY <1>1, Difference DEF Init, Used
<1> QED
  BY <1>1, <1>2, <1>3 DEF Init, RingInv, RoomInv, CopyInv, Writing

\* Every step keeps the invariant.
LEMMA RingStep == RingInv /\ [Next]_vars => RingInv'
<1> SUFFICES ASSUME RingInv, [Next]_vars PROVE RingInv'
  OBVIOUS
<1>1. CASE UNCHANGED vars
  BY <1>1 DEF vars, ringVars, readerVars, RingInv, RingType, RoomInv, CopyInv, Writing, Used, Oldest,
     First, Place
<1> QED
  BY <1>1, WriterKeeps, TaskKeeps DEF Next

-----------------------------------------------------------------------------
(* The ring implements the queue.                                          *)

\* The bytes between the counters are the oldest ones, all of them.
LEMMA InRingIs ==
    ASSUME RingType
    PROVE  InRing = Oldest(Used) /\ InRing \in Seq(Bytes) /\ Len(InRing) = Used
<1>1. InRing = Oldest(Used) /\ Used \in Nat
  BY UsedIs DEF InRing, Oldest
<1> QED
  BY <1>1, OldestSeq

\* A write adds bytes behind the ones that are there.
LEMMA WriteAccepts ==
    ASSUME RingInv, RingInv', NEW w \in Writers, write_in(w)
    PROVE  Queue!Accept
<1> USE DEF RingInv
<1> DEFINE n == writer[w].len
<1>1. n \in Nat /\ n <= Size - Used /\ in' = (in + n) % Wrap /\ out' = out /\ ring' = ring
  BY DEF write_in, At, RoomInv, RingType, Writing
<1>2. Used' = Used + n /\ Used \in Nat
  BY <1>1, UsedGrows, UsedIs
<1> HIDE DEF n
<1>3. /\ InRing \in Seq(Bytes) /\ Len(InRing) = Used
      /\ \A i \in 1..Used : InRing[i] = ring[Place(out + i - 1)]
  BY <1>2, InRingIs, OldestSeq
<1>4. /\ InRing' \in Seq(Bytes) /\ Len(InRing') = Used'
      /\ \A i \in 1..Used' : InRing'[i] = ring[Place(out + i - 1)]
  <2>1. InRing' = [i \in 1..Used' |-> ring[Place(out + i - 1)]]
    BY <1>1 DEF InRing, Place
  <2>2. \A i \in 1..Used' : Place(out + i - 1) \in 0..(Size - 1)
    <3> TAKE i \in 1..Used'
    <3>1. out + i - 1 \in Nat /\ 0 \in Nat /\ 0 < Size
      BY <1>1, <1>2, UsedIs, SizeOK
    <3> QED
      BY <3>1, PlaceNext
  <2>3. Used' \in Nat
    BY <1>1, <1>2
  <2>4. \A i \in 1..Used' : ring[Place(out + i - 1)] \in Bytes
    BY <2>2 DEF RingType
  <2>5. InRing' \in [1..Used' -> Bytes]
    BY <2>1, <2>4
  <2> QED
    BY <2>1, <2>3, <2>5
<1>5. ASSUME NEW i \in 1..Used PROVE InRing'[i] = InRing[i]
  <2>1. i \in 1..Used'
    BY <1>1, <1>2
  <2>2. InRing[i] = ring[Place(out + i - 1)]
    BY <1>3
  <2>3. InRing'[i] = ring[Place(out + i - 1)]
    BY <1>4, <2>1
  <2> QED
    BY <2>2, <2>3
<1>6. Queue!IsPrefix(InRing, InRing')
  <2>1. /\ SubSeq(InRing, 1, Used) = [i \in 1..Used |-> InRing[i]]
        /\ SubSeq(InRing', 1, Used) = [i \in 1..Used |-> InRing'[i]]
    BY <1>2, <1>3, <1>4
  <2>2. Used <= Used'
    BY <1>1, <1>2
  <2> QED
    BY <1>3, <1>4, <1>5, <2>1, <2>2 DEF Queue!IsPrefix
<1>7. Used' <= Size
  BY DEF RoomInv
<1> QED
  BY <1>4, <1>6, <1>7 DEF Queue!Accept, write_in, readerVars

\* The task puts out the oldest bytes, or nothing when it found none.
LEMMA HandlerPutsOut ==
    ASSUME RingInv, RingInv', salof_handler
    PROVE  Queue!PutOut \/ Queue!Done
<1> USE DEF RingInv
<1> DEFINE n == reader.len
<1>1. /\ n \in Nat /\ n <= Used /\ outBuff = Oldest(n) /\ output' = outBuff
      /\ out' = (out + n) % Wrap /\ in' = in /\ ring' = ring
  BY DEF salof_handler, RoomInv, RingType, CopyInv
<1> HIDE DEF n
<1>2. /\ Used' = Used - n /\ Used \in Nat /\ out \in Nat
      /\ \A j \in Nat : Place(out' + j) = Place(out + n + j)
  BY <1>1, UsedShrinks, UsedIs
<1>3. /\ InRing \in Seq(Bytes) /\ Len(InRing) = Used
      /\ \A i \in 1..Used : InRing[i] = ring[Place(out + i - 1)]
  BY <1>2, InRingIs, OldestSeq
<1>4. /\ output' \in Seq(Bytes) /\ Len(output') = n
      /\ \A i \in 1..n : output'[i] = ring[Place(out + i - 1)]
  BY <1>1, OldestSeq
<1>5. /\ InRing' \in Seq(Bytes) /\ Len(InRing') = Used - n
      /\ \A i \in 1..(Used - n) : InRing'[i] = InRing[n + i]
  <2>1. InRing' = [i \in 1..(Used - n) |-> ring[Place(out' + i - 1)]]
    BY <1>1, <1>2 DEF InRing, Place
  <2>2. ASSUME NEW i \in 1..(Used - n) PROVE ring[Place(out' + i - 1)] = InRing[n + i]
    <3>1. i - 1 \in Nat /\ n + i \in 1..Used /\ out + n + (i - 1) = out + (n + i) - 1
      BY <1>1, <1>2
    <3>2. out' + (i - 1) = out' + i - 1
      BY DEF RingType
    <3> QED
      BY <1>2, <1>3, <3>1, <3>2
  <2>3. \A i \in 1..(Used - n) : n + i \in 1..Used
    BY <1>1, <1>2
  <2>4. \A i \in 1..(Used - n) : InRing[n + i] \in Bytes
    BY <1>3, <2>3
  <2> DEFINE m == Used - n
             s == [i \in 1..m |-> InRing[n + i]]
  <2>5. InRing' = s /\ m \in Nat
    BY <1>1, <1>2, <2>1, <2>2
  <2>6. s \in [1..m -> Bytes]
    BY <2>4
  <2> HIDE DEF m
  <2>7. s \in Seq(Bytes) /\ Len(s) = m /\ \A i \in 1..m : s[i] = InRing[n + i]
    BY <2>5, <2>6
  <2> QED
    BY <2>5, <2>7 DEF m
<1>6. InRing = output' \o InRing'
  <2>1. /\ output' \o InRing' \in Seq(Bytes)
        /\ Len(output' \o InRing') = Len(output') + Len(InRing')
        /\ \A i \in 1..(Len(output') + Len(InRing')) :
              (output' \o InRing')[i] = IF i <= Len(output') THEN output'[i]
                                       ELSE InRing'[i - Len(output')]
    BY <1>4, <1>5, ConcatProperties
  <2>2. n + (Used - n) = Used
    BY <1>1, <1>2
  <2>3. /\ Len(output' \o InRing') = Used
        /\ \A i \in 1..Used : (output' \o InRing')[i] = IF i <= n THEN output'[i] ELSE InRing'[i - n]
    BY <1>4, <1>5, <2>1, <2>2
  <2>4. ASSUME NEW i \in 1..Used PROVE (output' \o InRing')[i] = InRing[i]
    <3>1. CASE i <= n
      <4>1. i \in 1..n
        BY <1>1, <3>1
      <4> QED
        BY <1>3, <1>4, <2>3, <3>1, <4>1
    <3>2. CASE i > n
      <4>1. i - n \in 1..(Used - n) /\ n + (i - n) = i /\ ~(i <= n)
        BY <1>1, <1>2, <3>2
      <4> QED
        BY <1>5, <2>3, <4>1
    <3>3. i <= n \/ i > n
      BY <1>1
    <3> QED
      BY <3>1, <3>2, <3>3
  <2> QED
    BY <1>3, <2>1, <2>3, <2>4, SeqEqual
<1>7. CASE output' # <<>>
  BY <1>6, <1>7 DEF Queue!PutOut
<1>8. CASE output' = <<>>
  <2>1. InRing' = InRing
    BY <1>5, <1>6, <1>8, ConcatEmptySeq
  <2> QED
    BY <1>8, <2>1 DEF Queue!Done
<1> QED
  BY <1>7, <1>8

\* The remaining steps leave the queue alone.
LEMMA InRingStays ==
    ASSUME RingType, in' = in, out' = out,
           \A i \in 1..Used : ring'[Place(out + i - 1)] = ring[Place(out + i - 1)]
    PROVE  InRing' = InRing
BY DEF InRing, Used, Place

\* Every step of the log is a step of the queue, or none.
LEMMA QueueStep ==
    ASSUME RingInv, RingInv', [Next]_vars
    PROVE  [Queue!Next]_Queue!vars
<1>1. CASE UNCHANGED vars
  BY <1>1 DEF vars, ringVars, readerVars, InRing, Used, Place, Queue!vars
<1>2. ASSUME NEW w \in Writers, write_in(w)
      PROVE  Queue!Next
  BY <1>2, WriteAccepts DEF Queue!Next
<1>3. ASSUME NEW w \in Writers, write_copy(w) \/ write_wrap(w)
      PROVE  UNCHANGED Queue!vars
  BY <1>3, WriteKeeps, InRingStays DEF RingInv, Queue!vars, write_copy, write_wrap, readerVars
<1>4. ASSUME NEW w \in Writers,
             \/ salof(w) \/ salof_fifo_write(w) \/ salof_mutex_pend_fails(w) \/ salof_sem_post(w)
      PROVE  UNCHANGED Queue!vars
  <2>1. in' = in /\ out' = out /\ ring' = ring /\ output' = output
    BY <1>4 DEF salof, salof_fifo_write, salof_mutex_pend_fails, salof_sem_post, ringVars, readerVars
  <2> QED
    BY <2>1, InRingStays DEF RingInv, Queue!vars
<1>5. CASE salof_fifo_read \/ read_copy \/ read_wrap
  <2>1. in' = in /\ out' = out /\ ring' = ring /\ output' = output
    BY <1>5 DEF salof_fifo_read, read_copy, read_wrap, ringVars
  <2> QED
    BY <2>1, InRingStays DEF RingInv, Queue!vars
<1>6. CASE salof_sem_pend
  <2>1. in' = in /\ out' = out /\ ring' = ring /\ output' = <<>>
    BY <1>6 DEF salof_sem_pend, ringVars
  <2> QED
    BY <2>1, InRingStays DEF RingInv, Queue!Next, Queue!Done
<1>7. CASE salof_handler
  BY <1>7, HandlerPutsOut DEF Queue!Next
<1> QED
  BY <1>1, <1>2, <1>3, <1>4, <1>5, <1>6, <1>7 DEF Next, Logging, salof_task

\* The log keeps its promise: what a writer has added to the ring comes out
\* once and in order, never more than the ring holds, although the task takes
\* no lock and both ring and counters wrap round.
THEOREM RingCorrect == Spec => RingIsQueue
<1>1. Init => Queue!Init
  <2> SUFFICES ASSUME Init PROVE Queue!Init
    OBVIOUS
  <2>1. RingInv /\ Used = 0
    BY RingInit, SizeOK, Difference DEF Init, Used
  <2>2. InRing \in Seq(Bytes) /\ Len(InRing) = 0
    BY <2>1, InRingIs DEF RingInv
  <2> QED
    BY <2>2 DEF Init, Queue!Init
<1>2. RingInv /\ RingInv' /\ [Next]_vars => [Queue!Next]_Queue!vars
  BY QueueStep
<1> QED
  BY <1>1, <1>2, RingInit, RingStep, PTL DEF Spec, RingIsQueue, Queue!Spec
=============================================================================
