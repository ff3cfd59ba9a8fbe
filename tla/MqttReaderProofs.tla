-------------------------- MODULE MqttReaderProofs --------------------------
(***************************************************************************)
(* Theorems about MqttReader, for any base and number of length bytes, any *)
(* size of the buffer, any packets and any number of failing reads.        *)
(***************************************************************************)
EXTENDS MqttReader, WellFoundedInduction, SequenceTheorems, TLAPS

-----------------------------------------------------------------------------
(* The least element of a set of naturals, in place of induction.          *)

Less == {p \in Nat \X Nat : p[1] < p[2]}

\* Every nonempty set of naturals has a least element.
LEMMA LeastNat ==
    ASSUME NEW T, T \subseteq Nat, T # {}
    PROVE  \E n \in T : \A m \in T : n <= m
<1>1. IsWellFoundedOn(Less, Nat)
  BY NatLessThanWellFounded DEF OpToRel, Less
<1>2. PICK n \in T : \A m \in T : ~(<<m, n>> \in Less)
  BY <1>1, WFMin
<1>3. \A m \in Nat : m < n => <<m, n>> \in Less
  BY DEF Less
<1>4. \A m \in T : m \in Nat /\ ~(m < n)
  BY <1>2, <1>3, Zenon
<1>5. n \in Nat /\ \A m \in T : n <= m
  BY <1>4
<1> QED
  BY <1>5

-----------------------------------------------------------------------------
(* The multiplier.                                                         *)

\* Its first n + 1 values.
Powers(g, n) == g \in [0..n -> Nat] /\ g[0] = 1 /\ \A k \in 1..n : g[k] = Base * g[k - 1]

\* There are n + 1 values, for every n.
LEMMA PowersExist == \A n \in Nat : \E g : Powers(g, n)
<1> DEFINE T == {n \in Nat : ~\E g : Powers(g, n)}
<1> SUFFICES ASSUME T # {} PROVE FALSE
  OBVIOUS
<1>1. PICK n \in T : \A m \in T : n <= m
  BY LeastNat
<1>2. CASE n = 0
  <2>1. Powers([k \in 0..0 |-> 1], 0)
    BY DEF Powers
  <2> QED
    BY <1>2, <2>1
<1>3. CASE n # 0
  <2>1. n - 1 \in Nat /\ n - 1 \notin T
    BY <1>1, <1>3
  <2>2. PICK g : Powers(g, n - 1)
    BY <2>1
  <2>3. g \in [0..(n - 1) -> Nat] /\ g[0] = 1 /\ \A k \in 1..(n - 1) : g[k] = Base * g[k - 1]
    BY <2>2 DEF Powers
  <2>4. PICK p \in Nat : p = Base * g[n - 1]
    BY <2>1, <2>3, BaseAssumption
  <2> DEFINE h == [k \in 0..n |-> IF k = n THEN p ELSE g[k]]
  <2>5. g \in [0..(n - 1) -> Nat] /\ g[0] = 1
    BY <2>3
  <2>6. h \in [0..n -> Nat] /\ h[0] = 1 /\ h[n] = p /\ \A k \in 0..(n - 1) : h[k] = g[k]
    BY <1>3, <2>1, <2>5
  <2> HIDE DEF h
  <2>7. ASSUME NEW k \in 1..n PROVE h[k] = Base * h[k - 1]
    <3>1. h[k - 1] = g[k - 1]
      BY <2>1, <2>6
    <3>2. CASE k = n
      BY <2>4, <2>6, <3>1, <3>2
    <3>3. CASE k # n
      <4>1. k \in 1..(n - 1) /\ k \in 0..(n - 1)
        BY <2>1, <3>3
      <4>2. h[k] = g[k] /\ g[k] = Base * g[k - 1]
        BY <2>3, <2>6, <4>1
      <4> QED
        BY <3>1, <4>2
    <3> QED
      BY <3>2, <3>3
  <2>8. Powers(h, n)
    BY <2>6, <2>7 DEF Powers
  <2> QED
    BY <2>8
<1> QED
  BY <1>2, <1>3

\* They are the same for every n.
LEMMA PowersUnique ==
    ASSUME NEW n \in Nat, NEW m \in Nat, NEW g, NEW h, Powers(g, n), Powers(h, m),
           NEW k \in Nat, k <= n, k <= m
    PROVE  g[k] = h[k]
<1> DEFINE T == {i \in 0..k : g[i] # h[i]}
<1> SUFFICES ASSUME T # {} PROVE FALSE
  OBVIOUS
<1>1. PICK i \in T : \A j \in T : i <= j
  <2>1. T \subseteq Nat
    OBVIOUS
  <2> HIDE DEF T
  <2> QED
    BY <2>1, LeastNat
<1>2. i # 0
  BY DEF Powers
<1>3. i - 1 \in 0..k /\ i - 1 \notin T
  BY <1>1, <1>2
<1>4. i \in 1..n /\ i \in 1..m
  BY <1>2
<1> QED
  BY <1>3, <1>4 DEF Powers

\* What the definition of multiplier says.
LEMMA MultiplierDef ==
    /\ multiplier[0] = 1
    /\ \A k \in Nat \ {0} : multiplier[k] = Base * multiplier[k - 1]
    /\ \A k \in Nat : multiplier[k] \in Nat \ {0}
<1> DEFINE P(k) == CHOOSE g : Powers(g, k)
           f == [k \in Nat |-> P(k)[k]]
           Is(g) == g = [k \in Nat |-> IF k = 0 THEN 1 ELSE Base * g[k - 1]]
<1>1. \A k \in Nat : Powers(P(k), k)
  BY PowersExist
<1> HIDE DEF P
<1>2. P(0)[0] = 1
  BY <1>1 DEF Powers
<1>3. ASSUME NEW k \in Nat \ {0} PROVE P(k)[k] = Base * P(k - 1)[k - 1]
  <2>1. k - 1 \in Nat /\ k - 1 <= k /\ k - 1 <= k - 1
    OBVIOUS
  <2>2. Powers(P(k), k) /\ Powers(P(k - 1), k - 1)
    BY <1>1, <2>1
  <2>3. P(k)[k - 1] = P(k - 1)[k - 1]
    BY <2>1, <2>2, PowersUnique
  <2>4. P(k)[k] = Base * P(k)[k - 1]
    BY <2>2 DEF Powers
  <2> QED
    BY <2>3, <2>4
<1>4. f = [k \in Nat |-> IF k = 0 THEN 1 ELSE Base * f[k - 1]]
  BY <1>2, <1>3
<1>5. multiplier = CHOOSE g : Is(g)
  BY DEF multiplier
<1>6. Is(multiplier)
  <2>1. \E g : Is(g)
    BY <1>4
  <2> HIDE DEF Is
  <2> QED
    BY <1>5, <2>1
<1>7. multiplier[0] = 1 /\ \A k \in Nat \ {0} : multiplier[k] = Base * multiplier[k - 1]
  BY <1>6
<1>8. \A k \in Nat : multiplier[k] \in Nat \ {0}
  <2> DEFINE T == {k \in Nat : multiplier[k] \notin Nat \ {0}}
  <2> SUFFICES ASSUME T # {} PROVE FALSE
    OBVIOUS
  <2>1. PICK k \in T : \A j \in T : k <= j
    BY LeastNat
  <2>2. k # 0
    BY <1>7
  <2>3. k - 1 \in Nat /\ k - 1 \notin T
    BY <2>1, <2>2
  <2>4. multiplier[k] = Base * multiplier[k - 1] /\ multiplier[k - 1] \in Nat \ {0}
    BY <1>7, <2>2, <2>3
  <2>5. Base * multiplier[k - 1] \in Nat \ {0}
    BY <2>4, BaseAssumption
  <2> QED
    BY <2>4, <2>5
<1> QED
  BY <1>7, <1>8

\* The multiplier grows.
LEMMA MultiplierGrows ==
    ASSUME NEW k \in Nat, NEW n \in Nat, k <= n PROVE multiplier[k] <= multiplier[n]
<1> DEFINE T == {i \in k..n : ~(multiplier[k] <= multiplier[i])}
<1> SUFFICES ASSUME T # {} PROVE FALSE
  OBVIOUS
<1>1. PICK i \in T : \A j \in T : i <= j
  <2>1. T \subseteq Nat
    OBVIOUS
  <2> HIDE DEF T
  <2> QED
    BY <2>1, LeastNat
<1>2. multiplier[k] \in Nat
  BY MultiplierDef
<1>3. i # k
  BY <1>2
<1>4. i - 1 \in k..n /\ i - 1 \notin T /\ i \in Nat \ {0} /\ i - 1 \in Nat
  BY <1>1, <1>3
<1>5. multiplier[i] = Base * multiplier[i - 1] /\ multiplier[i - 1] \in Nat /\ multiplier[i] \in Nat
  BY <1>4, MultiplierDef
<1>6. multiplier[i - 1] <= Base * multiplier[i - 1]
  <2> DEFINE p == multiplier[i - 1]
  <2>1. p \in Nat
    BY <1>5
  <2> HIDE DEF p
  <2>2. Base * p = (Base - 1) * p + p /\ Base - 1 \in Nat
    BY <2>1, BaseAssumption
  <2>3. (Base - 1) * p \in Nat
    BY <2>1, <2>2
  <2>4. p <= Base * p
    BY <2>1, <2>2, <2>3
  <2> QED
    BY <2>4 DEF p
<1>7. multiplier[k] <= multiplier[i - 1]
  BY <1>4
<1>8. multiplier[k] <= multiplier[i]
  BY <1>2, <1>5, <1>6, <1>7
<1> QED
  BY <1>8

\* A digit more stays below the next multiplier.
LEMMA NextDigit ==
    ASSUME NEW v \in Nat, NEW p \in Nat, NEW d \in 0 .. Base - 1, v < p
    PROVE  v + d * p \in Nat /\ v + d * p < Base * p
<1>1. Base - 1 - d \in Nat /\ d \in Nat /\ Base \in Nat
  BY BaseAssumption
<1>2. d * p \in Nat /\ (Base - 1 - d) * p \in Nat
  BY <1>1
<1>3. Base * p = (Base - 1 - d) * p + d * p + p
  BY <1>1
<1> QED
  BY <1>2, <1>3

\* A digit taken off.
LEMMA TakeDigit ==
    ASSUME NEW m \in Nat
    PROVE  /\ m \div Base \in Nat /\ m % Base \in 0 .. Base - 1
           /\ m = Base * (m \div Base) + (m % Base)
           /\ m >= Base => m \div Base > 0 /\ m \div Base < m
<1>1. m \div Base \in Nat /\ m % Base \in 0 .. Base - 1 /\ m = Base * (m \div Base) + (m % Base)
  BY BaseAssumption
<1> DEFINE a == m \div Base
           d == m % Base
<1>2. a \in Nat /\ d \in 0 .. Base - 1 /\ m = Base * a + d
  BY <1>1
<1> HIDE DEF a, d
<1>3. m >= Base => a > 0 /\ a < m
  <2> SUFFICES ASSUME m >= Base PROVE a > 0 /\ a < m
    OBVIOUS
  <2>1. a # 0
    BY <1>2, BaseAssumption
  <2>2. Base * a = (Base - 2) * a + a + a /\ Base - 2 \in Nat
    BY <1>2, BaseAssumption
  <2>3. (Base - 2) * a \in Nat
    BY <1>2, <2>2
  <2> QED
    BY <1>2, <2>1, <2>2, <2>3
<1> QED
  BY <1>1, <1>3 DEF a

-----------------------------------------------------------------------------
(* The bytes of the packets.                                               *)

Digit == [digit : 0 .. Base - 1, more : BOOLEAN]
ByteSet == [packet : Nat, part : {"header", "length", "body"}, digit : 0 .. Base - 1, more : BOOLEAN]

\* The right-hand side of the definition of encode.
Encoded(g, n) ==
    IF n < Base
      THEN <<[digit |-> n, more |-> FALSE]>>
      ELSE <<[digit |-> n % Base, more |-> TRUE]>> \o g[n \div Base]

\* The encodings up to n.
Codes(g, n) == g \in [0..n -> Seq(Digit)] /\ \A k \in 0..n : g[k] = Encoded(g, k)

\* One digit more is a sequence of digits again.
LEMMA EncodedType ==
    ASSUME NEW n \in Nat, NEW g, n >= Base => g[n \div Base] \in Seq(Digit)
    PROVE  Encoded(g, n) \in Seq(Digit)
<1>1. n < Base => [digit |-> n, more |-> FALSE] \in Digit
  BY BaseAssumption DEF Digit
<1>2. [digit |-> n % Base, more |-> TRUE] \in Digit
  BY TakeDigit DEF Digit
<1>3. CASE n < Base
  BY <1>1, <1>3 DEF Encoded
<1>4. CASE ~(n < Base)
  <2>1. g[n \div Base] \in Seq(Digit)
    BY <1>4, BaseAssumption
  <2>2. <<[digit |-> n % Base, more |-> TRUE]>> \in Seq(Digit)
    BY <1>2
  <2> HIDE DEF Digit
  <2>3. <<[digit |-> n % Base, more |-> TRUE]>> \o g[n \div Base] \in Seq(Digit)
    BY <2>1, <2>2, ConcatProperties
  <2> QED
    BY <1>4, <2>3 DEF Encoded
<1> QED
  BY <1>3, <1>4

\* All numbers up to n have encodings, for every n.
LEMMA CodesExist == \A n \in Nat : \E g : Codes(g, n)
<1> DEFINE T == {n \in Nat : ~\E g : Codes(g, n)}
<1> SUFFICES ASSUME T # {} PROVE FALSE
  OBVIOUS
<1>1. PICK n \in T : \A m \in T : n <= m
  BY LeastNat
<1>2. PICK g : n # 0 => Codes(g, n - 1)
  <2>1. CASE n = 0
    BY <2>1
  <2>2. CASE n # 0
    <3>1. n - 1 \in Nat /\ n - 1 \notin T
      BY <1>1, <2>2
    <3> QED
      BY <3>1
  <2> QED
    BY <2>1, <2>2
<1> DEFINE h == [k \in 0..n |-> IF k = n THEN Encoded(g, n) ELSE g[k]]
<1>3. n >= Base => n # 0 /\ n \div Base \in 0..(n - 1)
  BY TakeDigit, BaseAssumption
<1>4. Encoded(g, n) \in Seq(Digit)
  <2>1. n >= Base => g[n \div Base] \in Seq(Digit)
    BY <1>2, <1>3 DEF Codes
  <2> QED
    BY <2>1, EncodedType
<1>5. \A k \in 0..n : k # n => k \in 0..(n - 1) /\ n # 0
  OBVIOUS
<1>6. h \in [0..n -> Seq(Digit)]
  <2>1. \A k \in 0..n : k # n => g[k] \in Seq(Digit)
    BY <1>2, <1>5 DEF Codes
  <2> QED
    BY <1>4, <2>1
<1>7. h[n] = Encoded(g, n) /\ \A k \in 0..(n - 1) : h[k] = g[k]
  OBVIOUS
<1> HIDE DEF h
<1>8. ASSUME NEW k \in 0..n PROVE h[k] = Encoded(h, k)
  <2>1. k >= Base => h[k \div Base] = g[k \div Base]
    <3> SUFFICES ASSUME k >= Base PROVE h[k \div Base] = g[k \div Base]
      OBVIOUS
    <3>1. k \div Base \in Nat /\ k \div Base < k
      BY TakeDigit
    <3>2. k \div Base \in 0..(n - 1)
      BY <3>1
    <3> QED
      BY <1>7, <3>2
  <2>2. Encoded(h, k) = Encoded(g, k)
    BY <2>1, BaseAssumption DEF Encoded
  <2>3. h[k] = Encoded(g, k)
    BY <1>2, <1>5, <1>7 DEF Codes
  <2> QED
    BY <2>2, <2>3
<1>9. Codes(h, n)
  BY <1>6, <1>8 DEF Codes
<1> QED
  BY <1>9

\* They do not depend on n.
LEMMA CodesUnique ==
    ASSUME NEW n \in Nat, NEW m \in Nat, NEW g, NEW h, Codes(g, n), Codes(h, m),
           NEW k \in Nat, k <= n, k <= m
    PROVE  g[k] = h[k]
<1> DEFINE T == {i \in 0..k : g[i] # h[i]}
<1> SUFFICES ASSUME T # {} PROVE FALSE
  OBVIOUS
<1>1. PICK i \in T : \A j \in T : i <= j
  <2>1. T \subseteq Nat
    OBVIOUS
  <2> HIDE DEF T
  <2> QED
    BY <2>1, LeastNat
<1>2. i \in 0..n /\ i \in 0..m /\ i \in Nat /\ i \in 0..k
  BY <1>1
<1>3. g[i] = Encoded(g, i) /\ h[i] = Encoded(h, i)
  BY <1>2 DEF Codes
<1>4. i >= Base => g[i \div Base] = h[i \div Base]
  <2> SUFFICES ASSUME i >= Base PROVE g[i \div Base] = h[i \div Base]
    OBVIOUS
  <2>1. i \div Base \in Nat /\ i \div Base < i
    BY <1>2, TakeDigit
  <2>2. i \div Base \in 0..k /\ i \div Base \notin T
    BY <1>1, <1>2, <2>1
  <2> QED
    BY <2>2
<1>5. Encoded(g, i) = Encoded(h, i)
  BY <1>2, <1>4, BaseAssumption DEF Encoded
<1> QED
  BY <1>1, <1>3, <1>5

\* What the definition of encode says.
LEMMA EncodeDef ==
    ASSUME NEW n \in Nat PROVE encode[n] \in Seq(Digit) /\ encode[n] = Encoded(encode, n)
<1> DEFINE P(k) == CHOOSE g : Codes(g, k)
           f == [k \in Nat |-> P(k)[k]]
           Is(g) == g = [k \in Nat |-> Encoded(g, k)]
<1>1. \A k \in Nat : Codes(P(k), k)
  BY CodesExist
<1> HIDE DEF P
<1>2. ASSUME NEW k \in Nat PROVE P(k)[k] \in Seq(Digit) /\ P(k)[k] = Encoded(f, k)
  <2>1. Codes(P(k), k) /\ k \in 0..k
    BY <1>1
  <2>2. P(k)[k] \in Seq(Digit) /\ P(k)[k] = Encoded(P(k), k)
    BY <2>1 DEF Codes
  <2>3. k >= Base => P(k)[k \div Base] = f[k \div Base]
    <3> SUFFICES ASSUME k >= Base PROVE P(k)[k \div Base] = f[k \div Base]
      OBVIOUS
    <3>1. k \div Base \in Nat /\ k \div Base <= k /\ k \div Base <= k \div Base
      BY TakeDigit
    <3>2. Codes(P(k \div Base), k \div Base)
      BY <1>1, <3>1
    <3>3. P(k)[k \div Base] = P(k \div Base)[k \div Base]
      BY <2>1, <3>1, <3>2, CodesUnique
    <3> QED
      BY <3>1, <3>3
  <2> HIDE DEF f
  <2>4. Encoded(P(k), k) = Encoded(f, k)
    BY <2>3, BaseAssumption DEF Encoded
  <2> QED
    BY <2>2, <2>4
<1>3. \A k \in Nat : f[k] = P(k)[k]
  OBVIOUS
<1>4. Is(f)
  BY <1>2
<1>5. encode = CHOOSE g : Is(g)
  BY DEF encode, Encoded
<1>6. Is(encode)
  <2> HIDE DEF Is, f
  <2> QED
    BY <1>4, <1>5
<1>7. \A k \in Nat : encode[k] = Encoded(encode, k)
  BY <1>6
<1>8. \A k \in Nat : encode[k] \in Seq(Digit)
  <2> DEFINE T == {k \in Nat : encode[k] \notin Seq(Digit)}
  <2> SUFFICES ASSUME T # {} PROVE FALSE
    OBVIOUS
  <2>1. PICK k \in T : \A j \in T : k <= j
    BY LeastNat
  <2>2. k >= Base => encode[k \div Base] \in Seq(Digit)
    <3> SUFFICES ASSUME k >= Base PROVE encode[k \div Base] \in Seq(Digit)
      OBVIOUS
    <3>1. k \div Base \in Nat /\ k \div Base < k
      BY TakeDigit
    <3> QED
      BY <2>1, <3>1
  <2>3. encode[k] \in Seq(Digit)
    BY <1>7, <2>2, EncodedType
  <2> QED
    BY <2>3
<1> QED
  BY <1>7, <1>8

\* A byte of the remaining length.
LengthByte(i, x) == [packet |-> i, part |-> "length", digit |-> x.digit, more |-> x.more]

\* The bytes of a remaining length, one after the other.
LEMMA LengthBytesCons ==
    ASSUME NEW i \in Nat, NEW x \in Digit, NEW e \in Seq(Digit)
    PROVE  /\ LengthBytes(i, e) \in Seq(ByteSet)
           /\ LengthByte(i, x) \in ByteSet
           /\ LengthBytes(i, <<x>> \o e) = <<LengthByte(i, x)>> \o LengthBytes(i, e)
<1>1. \A y \in Digit : LengthByte(i, y) \in ByteSet
  BY DEF LengthByte, Digit, ByteSet
<1>2. \A k \in 1..Len(e) : e[k] \in Digit
  OBVIOUS
<1>3. LengthBytes(i, e) = [k \in 1..Len(e) |-> LengthByte(i, e[k])]
  BY DEF LengthBytes, LengthByte
<1>4. LengthBytes(i, <<x>> \o e) = [k \in 1..Len(<<x>> \o e) |-> LengthByte(i, (<<x>> \o e)[k])]
  BY DEF LengthBytes, LengthByte
<1> DEFINE LB(y) == LengthByte(i, y)
<1>5. \A y \in Digit : LB(y) \in ByteSet
  BY <1>1
<1>6. LengthBytes(i, e) = [k \in 1..Len(e) |-> LB(e[k])]
  BY <1>3
<1>7. LengthBytes(i, <<x>> \o e) = [k \in 1..Len(<<x>> \o e) |-> LB((<<x>> \o e)[k])]
  BY <1>4
<1> HIDE DEF LB, Digit, ByteSet
<1>8. LengthBytes(i, e) \in Seq(ByteSet) /\ Len(LengthBytes(i, e)) = Len(e)
  BY <1>2, <1>5, <1>6
<1>9. /\ <<x>> \o e \in Seq(Digit) /\ Len(<<x>> \o e) = 1 + Len(e) /\ (<<x>> \o e)[1] = x
      /\ \A k \in 2..(1 + Len(e)) : (<<x>> \o e)[k] = e[k - 1]
  OBVIOUS
<1> DEFINE a == LengthBytes(i, <<x>> \o e)
           b == <<LB(x)>> \o LengthBytes(i, e)
<1>10. a = [k \in 1..(1 + Len(e)) |-> IF k = 1 THEN LB(x) ELSE LB(e[k - 1])]
  BY <1>7, <1>9
<1>11. /\ b \in Seq(ByteSet) /\ Len(b) = 1 + Len(e) /\ b[1] = LB(x)
       /\ \A k \in 2..(1 + Len(e)) : b[k] = LB(e[k - 1])
  BY <1>5, <1>6, <1>8
<1> HIDE DEF a, b
<1>12. b = [k \in 1..(1 + Len(e)) |-> IF k = 1 THEN LB(x) ELSE LB(e[k - 1])]
  BY <1>11
<1>13. a = b
  BY <1>10, <1>12
<1> QED
  BY <1>1, <1>8, <1>13 DEF a, b, LB

\* A body can be read in parts.
LEMMA BodyParts ==
    ASSUME NEW i \in Nat, NEW n \in Nat, NEW k \in 0..n
    PROVE  /\ Body(i, n) \in Seq(ByteSet) /\ Len(Body(i, n)) = n
           /\ Body(i, n) = Body(i, k) \o Body(i, n - k)
<1>1. Byte(i, "body") \in ByteSet
  BY BaseAssumption DEF Byte, ByteSet
<1> DEFINE b == Byte(i, "body")
<1>2. \A m \in Nat : Body(i, m) = [j \in 1..m |-> b]
  BY DEF Body
<1>3. b \in ByteSet
  BY <1>1
<1> HIDE DEF b, ByteSet
<1>4. \A m \in Nat : Body(i, m) \in Seq(ByteSet) /\ Len(Body(i, m)) = m /\ \A j \in 1..m : Body(i, m)[j] = b
  BY <1>2, <1>3
<1>5. k \in Nat /\ n - k \in Nat
  OBVIOUS
<1> DEFINE c == Body(i, k) \o Body(i, n - k)
<1>6. c \in Seq(ByteSet) /\ Len(c) = n /\ \A j \in 1..n : c[j] = b
  <2>1. PICK x \in Seq(ByteSet) : x = Body(i, k) /\ Len(x) = k /\ \A j \in 1..k : x[j] = b
    BY <1>4, <1>5
  <2>2. PICK y \in Seq(ByteSet) : y = Body(i, n - k) /\ Len(y) = n - k /\ \A j \in 1..(n - k) : y[j] = b
    BY <1>4, <1>5
  <2>3. x \o y \in Seq(ByteSet) /\ Len(x \o y) = n /\ \A j \in 1..n : (x \o y)[j] = b
    BY <1>5, <2>1, <2>2
  <2> QED
    BY <2>1, <2>2, <2>3
<1> HIDE DEF c
<1>7. c = [j \in 1..n |-> b]
  BY <1>6
<1> QED
  BY <1>2, <1>4, <1>7 DEF c

\* What is left of a wire after its first part has been read.
LEMMA Cut ==
    ASSUME NEW B, NEW a \in Seq(B), NEW b \in Seq(B)
    PROVE  /\ a \o b \in Seq(B) /\ Len(a \o b) = Len(a) + Len(b)
           /\ SubSeq(a \o b, 1, Len(a)) = a
           /\ SubSeq(a \o b, Len(a) + 1, Len(a \o b)) = b
<1>1. a \o b \in Seq(B) /\ Len(a \o b) = Len(a) + Len(b)
  OBVIOUS
<1>2. SubSeq(a \o b, 1, Len(a)) = a
  OBVIOUS
<1>3. SubSeq(a \o b, Len(a) + 1, Len(a \o b)) = b
  <2> DEFINE c == SubSeq(a \o b, Len(a) + 1, Len(a \o b))
  <2>1. c \in Seq(B) /\ Len(c) = Len(b) /\ \A j \in 1..Len(b) : c[j] = b[j]
    OBVIOUS
  <2> HIDE DEF c
  <2>2. c = b
    BY <2>1
  <2> QED
    BY <2>2 DEF c
<1> QED
  BY <1>1, <1>2, <1>3

\* A wire of which some bytes have been read.
LEMMA SuffixType ==
    ASSUME NEW B, NEW w \in Seq(B), NEW k \in Nat, k <= Len(w)
    PROVE  SubSeq(w, k + 1, Len(w)) \in Seq(B)
OBVIOUS

\* A packet is its header, its length and its body.
LEMMA BytesType ==
    ASSUME NEW i \in Nat, NEW n \in Nat
    PROVE  /\ Bytes(i, n) \in Seq(ByteSet) /\ Byte(i, "header") \in ByteSet
           /\ Bytes(i, n) = <<Byte(i, "header")>> \o (LengthBytes(i, encode[n]) \o Body(i, n))
<1>1. LengthBytes(i, encode[n]) \in Seq(ByteSet)
  <2>1. [digit |-> 0, more |-> FALSE] \in Digit
    BY BaseAssumption DEF Digit
  <2> QED
    BY <2>1, EncodeDef, LengthBytesCons
<1>2. Body(i, n) \in Seq(ByteSet)
  BY BodyParts
<1>3. Byte(i, "header") \in ByteSet
  BY BaseAssumption DEF Byte, ByteSet
<1> DEFINE a == LengthBytes(i, encode[n])
           b == Body(i, n)
           h == Byte(i, "header")
<1>4. Bytes(i, n) = <<h>> \o a \o b
  BY DEF Bytes, MQTTPacket_encode
<1>5. a \in Seq(ByteSet) /\ b \in Seq(ByteSet) /\ h \in ByteSet
  BY <1>1, <1>2, <1>3
<1> HIDE DEF a, b, h, ByteSet
<1>6. <<h>> \in Seq(ByteSet)
  BY <1>5
<1>7. (<<h>> \o a) \o b = <<h>> \o (a \o b) /\ (<<h>> \o a) \o b \in Seq(ByteSet)
  BY <1>5, <1>6
<1> QED
  BY <1>3, <1>4, <1>7 DEF a, b, h

\* A packet and what follows it, from its header on.
LEMMA BytesThen ==
    ASSUME NEW i \in Nat, NEW n \in Nat, NEW a \in Seq(ByteSet)
    PROVE  Bytes(i, n) \o a = <<Byte(i, "header")>> \o (LengthBytes(i, encode[n]) \o (Body(i, n) \o a))
<1>1. [digit |-> 0, more |-> FALSE] \in Digit /\ 0 \in 0..n
  BY BaseAssumption DEF Digit
<1>2. PICK l \in Seq(ByteSet) : l = LengthBytes(i, encode[n])
  BY <1>1, EncodeDef, LengthBytesCons
<1>3. PICK b \in Seq(ByteSet) : b = Body(i, n)
  BY <1>1, BodyParts
<1>4. <<Byte(i, "header")>> \in Seq(ByteSet)
  <2>1. Byte(i, "header") \in ByteSet
    BY BytesType
  <2> HIDE DEF ByteSet
  <2> QED
    BY <2>1
<1>5. PICK h \in Seq(ByteSet) : h = <<Byte(i, "header")>>
  BY <1>4
<1>6. Bytes(i, n) = h \o (l \o b)
  BY <1>2, <1>3, <1>5, BytesType
<1> HIDE DEF ByteSet
<1>7. (l \o b) \o a = l \o (b \o a) /\ l \o b \in Seq(ByteSet)
  OBVIOUS
<1>8. PICK c \in Seq(ByteSet) : c = l \o b
  BY <1>7
<1>9. (h \o c) \o a = h \o (c \o a)
  OBVIOUS
<1>10. Bytes(i, n) \o a = h \o (l \o (b \o a))
  BY <1>6, <1>7, <1>8, <1>9
<1> QED
  BY <1>2, <1>3, <1>5, <1>10

\* The first n + 1 of the sequences that grow by p[n], p[n - 1], ... in front.
Grown(p, g, n) == g \in [0..n -> Seq(ByteSet)] /\ g[0] = <<>> /\ \A k \in 1..n : g[k] = p[k] \o g[k - 1]

\* They exist as long as p goes.
LEMMA GrownExist ==
    ASSUME NEW N \in Nat, NEW p \in [1..N -> Seq(ByteSet)]
    PROVE  \E g : Grown(p, g, N)
<1> DEFINE T == {n \in 0..N : ~\E g : Grown(p, g, n)}
<1> SUFFICES ASSUME ~\E g : Grown(p, g, N) PROVE FALSE
  OBVIOUS
<1>0. T # {}
  <2>1. N \in T
    OBVIOUS
  <2> HIDE DEF T
  <2> QED
    BY <2>1
<1>1. PICK n \in T : \A m \in T : n <= m
  <2>1. T \subseteq Nat
    OBVIOUS
  <2> HIDE DEF T
  <2> QED
    BY <1>0, <2>1, LeastNat
<1>2. n \in 0..N /\ n \in Nat /\ ~\E g : Grown(p, g, n)
  BY <1>1
<1>3. CASE n = 0
  <2>1. Grown(p, [k \in 0..0 |-> <<>>], 0)
    BY DEF Grown
  <2> QED
    BY <1>2, <1>3, <2>1
<1>4. CASE n # 0
  <2>1. n - 1 \in 0..N /\ n \in 1..N /\ n - 1 \in Nat
    BY <1>2, <1>4
  <2>2. n - 1 \notin T
    <3> HIDE DEF T
    <3> QED
      BY <1>1, <1>2
  <2>3. PICK g : Grown(p, g, n - 1)
    BY <2>1, <2>2
  <2>4. /\ g \in [0..(n - 1) -> Seq(ByteSet)] /\ g[0] = <<>>
        /\ \A k \in 1..(n - 1) : g[k] = p[k] \o g[k - 1]
    BY <2>3 DEF Grown
  <2>5. g[n - 1] \in Seq(ByteSet) /\ p[n] \in Seq(ByteSet)
    BY <2>1, <2>4
  <2>6. PICK x \in Seq(ByteSet) : x = p[n] \o g[n - 1]
    BY <2>5, ConcatProperties
  <2> DEFINE h == [k \in 0..n |-> IF k = n THEN x ELSE g[k]]
  <2>7. \A k \in 0..n : k # n => k \in 0..(n - 1)
    BY <1>2
  <2>8. h \in [0..n -> Seq(ByteSet)]
    BY <2>4, <2>7
  <2>9. h[0] = <<>> /\ h[n] = x
    BY <1>4, <2>1, <2>4
  <2>10. \A k \in 0..(n - 1) : h[k] = g[k]
    BY <1>2
  <2> HIDE DEF h
  <2>11. ASSUME NEW k \in 1..n PROVE h[k] = p[k] \o h[k - 1]
    <3>1. h[k - 1] = g[k - 1]
      BY <1>2, <2>10
    <3>2. CASE k = n
      BY <2>6, <2>9, <3>1, <3>2
    <3>3. CASE k # n
      <4>1. k \in 1..(n - 1) /\ k \in 0..(n - 1)
        BY <1>2, <3>3
      <4>2. h[k] = g[k] /\ g[k] = p[k] \o g[k - 1]
        BY <2>4, <2>10, <4>1
      <4> QED
        BY <3>1, <4>2
    <3> QED
      BY <3>2, <3>3
  <2>12. Grown(p, h, n)
    BY <2>8, <2>9, <2>11 DEF Grown
  <2> QED
    BY <1>2, <2>12
<1> QED
  BY <1>3, <1>4

\* What the definition of stream says.
LEMMA StreamDef ==
    ASSUME NEW s \in [1..Packets -> Remaining]
    PROVE  /\ stream(s)[0] = <<>>
           /\ \A k \in 0..Packets : stream(s)[k] \in Seq(ByteSet)
           /\ \A k \in 1..Packets :
                 /\ Packets + 1 - k \in 1..Packets /\ s[Packets + 1 - k] \in Nat
                 /\ stream(s)[k] = Bytes(Packets + 1 - k, s[Packets + 1 - k]) \o stream(s)[k - 1]
<1> DEFINE p == [k \in 1..Packets |-> Bytes(Packets + 1 - k, s[Packets + 1 - k])]
           Is(g) == g = [k \in 0..Packets |-> IF k = 0 THEN <<>>
                          ELSE Bytes(Packets + 1 - k, s[Packets + 1 - k]) \o g[k - 1]]
<1>1. Packets \in Nat /\ Len(s) = Packets
  BY BoundsAssumption
<1>2. Remaining \subseteq Nat
  BY RemainingAssumption
<1>3. \A k \in 1..Packets : Packets + 1 - k \in 1..Packets /\ Packets + 1 - k \in Nat
  BY <1>1
<1>4. \A k \in 1..Packets : s[Packets + 1 - k] \in Nat
  BY <1>2, <1>3
<1>5. \A k \in 1..Packets : Bytes(Packets + 1 - k, s[Packets + 1 - k]) \in Seq(ByteSet)
  BY <1>3, <1>4, BytesType
<1>6. p \in [1..Packets -> Seq(ByteSet)] /\ \A k \in 1..Packets : p[k] = Bytes(Packets + 1 - k, s[Packets + 1 - k])
  BY <1>5
<1>7. stream(s) = CHOOSE g : Is(g)
  BY <1>1 DEF stream
<1> HIDE DEF p
<1>8. PICK g : Grown(p, g, Packets)
  BY <1>1, <1>6, GrownExist
<1>9. ASSUME NEW f, f \in [0..Packets -> Seq(ByteSet)], f[0] = <<>>, \A k \in 1..Packets : f[k] = p[k] \o f[k - 1]
      PROVE  Is(f)
  <2>1. \A k \in 0..Packets : f[k] = IF k = 0 THEN <<>>
                          ELSE Bytes(Packets + 1 - k, s[Packets + 1 - k]) \o f[k - 1]
    <3> SUFFICES ASSUME NEW k \in 0..Packets
                 PROVE  f[k] = IF k = 0 THEN <<>> ELSE Bytes(Packets + 1 - k, s[Packets + 1 - k]) \o f[k - 1]
      OBVIOUS
    <3>1. CASE k = 0
      BY <1>9, <3>1
    <3>2. CASE k # 0
      <4>1. k \in 1..Packets
        BY <1>1, <3>2
      <4> QED
        BY <1>6, <1>9, <3>2, <4>1
    <3> QED
      BY <3>1, <3>2
  <2> QED
    BY <1>9, <2>1
<1>10. Is(g)
  BY <1>8, <1>9 DEF Grown
<1>11. Is(stream(s))
  <2> HIDE DEF Is
  <2> QED
    BY <1>7, <1>10
<1>12. stream(s)[0] = <<>>
  <2>1. 0 \in 0..Packets
    BY <1>1
  <2> QED
    BY <1>11, <2>1
<1>13. ASSUME NEW k \in 1..Packets
       PROVE  stream(s)[k] = Bytes(Packets + 1 - k, s[Packets + 1 - k]) \o stream(s)[k - 1]
  <2>1. k \in 0..Packets /\ k # 0
    BY <1>1
  <2> QED
    BY <1>11, <2>1
<1>14. \A k \in 0..Packets : stream(s)[k] \in Seq(ByteSet)
  <2> DEFINE T == {k \in 0..Packets : stream(s)[k] \notin Seq(ByteSet)}
  <2> SUFFICES ASSUME T # {} PROVE FALSE
    OBVIOUS
  <2>1. PICK n \in T : \A m \in T : n <= m
    <3>1. T \subseteq Nat
      BY <1>1
    <3> HIDE DEF T
    <3> QED
      BY <3>1, LeastNat
  <2>2. n \in 0..Packets /\ stream(s)[n] \notin Seq(ByteSet)
    BY <2>1
  <2>3. n # 0
    <3>1. <<>> \in Seq(ByteSet)
      OBVIOUS
    <3> HIDE DEF ByteSet
    <3> QED
      BY <1>12, <2>2, <3>1
  <2>4. n - 1 \in 0..Packets /\ n - 1 \notin T /\ n \in 1..Packets
    BY <1>1, <2>1, <2>2, <2>3
  <2>5. stream(s)[n - 1] \in Seq(ByteSet)
    BY <2>4
  <2>6. stream(s)[n] \in Seq(ByteSet)
    <3>1. PICK x \in Seq(ByteSet) : x = Bytes(Packets + 1 - n, s[Packets + 1 - n])
      BY <1>5, <2>4
    <3>2. PICK y \in Seq(ByteSet) : y = stream(s)[n - 1]
      BY <2>5
    <3>3. stream(s)[n] = x \o y
      BY <1>13, <2>4, <3>1, <3>2
    <3>4. x \o y \in Seq(ByteSet)
      BY ConcatProperties
    <3> QED
      BY <3>3, <3>4
  <2> QED
    BY <2>2, <2>6
<1> QED
  BY <1>3, <1>4, <1>12, <1>13, <1>14

-----------------------------------------------------------------------------
(* The invariant.                                                          *)

\* What holds whether the stream is still understood or not: the decoded value
\* stays below the multiplier, and a drain has bytes left to read.
RangeInv ==
    /\ sent \in [1..Packets -> Remaining] /\ wire \in Seq(ByteSet)
    /\ pc \in {"header", "length", "body", "drain"}
    /\ len \in 0..MaxLengthBytes /\ value \in Nat /\ value < multiplier[len]
    /\ total \in Int /\ (pc = "drain" => total < value)
    /\ done \in Nat /\ fails \in 0..MaxFails
    /\ buf \in Seq(ByteSet) /\ got \in Seq(Seq(ByteSet))

\* The packet being read, and the bytes of the packets after it.
Current == sent[done + 1]
After == stream(sent)[Packets - done - 1]

\* While no read has failed, the wire holds the rest of the packet being read
\* and then the packets after it.  Of the remaining length, value is what the
\* bytes read so far say and m what the others will.
StreamInv ==
    /\ done <= Packets /\ (pc # "header" => done < Packets /\ buf = <<Byte(done + 1, "header")>>)
    /\ pc = "header" => wire = stream(sent)[Packets - done]
    /\ pc = "length" =>
          \E m \in Nat :
             /\ Current = value + m * multiplier[len]
             /\ len = 0 \/ m > 0
             /\ wire = LengthBytes(done + 1, encode[m]) \o (Body(done + 1, Current) \o After)
    /\ pc = "body" => value = Current /\ value > 0 /\ Fits(value)
                      /\ wire = Body(done + 1, value) \o After
    /\ pc = "drain" => value = Current /\ ~Fits(value) /\ total >= 0
                       /\ wire = Body(done + 1, value - total) \o After

ReadInv == RangeInv /\ (~torn => StreamInv)

\* What a step does that does not fail: nothing the caller can see, or it skips
\* a packet that is too large, or it delivers one.
Effect ==
    \/ done' = done /\ got' = got
    \/ /\ done < Packets /\ done' = done + 1
       /\ \/ ~Fits(Current) /\ got' = got
          \/ Fits(Current) /\ got' = Append(got, <<Byte(done + 1, "header")>> \o Body(done + 1, Current))

\* The packet being read and those after it.
LEMMA CurrentType ==
    ASSUME RangeInv, done < Packets
    PROVE  /\ Current \in Nat /\ Current < multiplier[MaxLengthBytes] /\ After \in Seq(ByteSet)
           /\ stream(sent)[Packets - done] = Bytes(done + 1, Current) \o After
<1>1. /\ done \in Nat /\ Packets \in Nat /\ done + 1 \in 1..Packets
      /\ Packets - done \in 1..Packets /\ Packets - done - 1 \in 0..Packets
      /\ Packets + 1 - (Packets - done) = done + 1
  BY BoundsAssumption DEF RangeInv
<1>2. sent \in [1..Packets -> Remaining] /\ multiplier[MaxLengthBytes] \in Nat
  BY MultiplierDef, BaseAssumption DEF RangeInv
<1>3. Current \in 0 .. multiplier[MaxLengthBytes] - 1
  BY <1>1, <1>2, RemainingAssumption DEF Current
<1>4. After \in Seq(ByteSet)
  BY <1>1, <1>2, StreamDef DEF After
<1>5. stream(sent)[Packets - done] = Bytes(done + 1, Current) \o After
  BY <1>1, <1>2, StreamDef DEF After, Current
<1> QED
  BY <1>2, <1>3, <1>4, <1>5

\* The first read of a packet.
LEMMA HeaderKeeps ==
    ASSUME ReadInv, read_header PROVE ReadInv' /\ Effect /\ fails' = fails
<1>1. /\ pc = "header" /\ pc' = "length" /\ Len(wire) >= 1 /\ wire' = SubSeq(wire, 2, Len(wire))
      /\ buf' = <<Head(wire)>> /\ value' = 0 /\ len' = 0
      /\ UNCHANGED <<sent, total, got, done, fails>>
  BY DEF read_header, ReadFully
<1>2. RangeInv
  BY DEF ReadInv
<1>3. wire' \in Seq(ByteSet) /\ Head(wire) \in ByteSet
  <2>1. wire \in Seq(ByteSet)
    BY <1>2 DEF RangeInv
  <2> HIDE DEF ByteSet
  <2> QED
    BY <1>1, <2>1
<1>4. RangeInv'
  <2>1. 0 < multiplier[0] /\ 0 \in 0..MaxLengthBytes
    BY MultiplierDef, BaseAssumption
  <2>2. buf' \in Seq(ByteSet)
    BY <1>1, <1>3
  <2> QED
    BY <1>1, <1>2, <1>3, <2>1, <2>2 DEF RangeInv
<1>5. ASSUME ~torn' PROVE StreamInv'
  <2>1. StreamInv /\ wire = stream(sent)[Packets - done] /\ done <= Packets
    BY <1>1, <1>5 DEF ReadInv, torn, StreamInv
  <2>2. done < Packets
    <3> SUFFICES ASSUME done = Packets PROVE FALSE
      BY <1>2, <2>1, BoundsAssumption DEF RangeInv
    <3>1. Packets - done = 0
      BY <1>2, BoundsAssumption DEF RangeInv
    <3>2. wire = <<>>
      BY <1>2, <2>1, <3>1, StreamDef DEF RangeInv
    <3> QED
      BY <1>1, <3>2
  <2> DEFINE i == done + 1
             h == Byte(i, "header")
             l == LengthBytes(i, encode[Current])
             b == Body(i, Current)
             a == After
  <2>3. i \in Nat /\ Current \in Nat /\ a \in Seq(ByteSet) /\ wire = Bytes(i, Current) \o a
    BY <1>2, <2>1, <2>2, CurrentType DEF RangeInv
  <2>4. h \in ByteSet /\ l \in Seq(ByteSet) /\ b \in Seq(ByteSet)
    <3>1. [digit |-> 0, more |-> FALSE] \in Digit
      BY BaseAssumption DEF Digit
    <3>2. l \in Seq(ByteSet)
      BY <2>3, <3>1, EncodeDef, LengthBytesCons
    <3>3. b \in Seq(ByteSet)
      <4>1. 0 \in 0..Current
        BY <2>3
      <4> QED
        BY <2>3, <4>1, BodyParts
    <3> QED
      BY <2>3, <3>2, <3>3, BytesType
  <2> HIDE DEF h, l, b, a, i, ByteSet
  <2>5. wire = <<h>> \o (l \o (b \o a))
    BY <2>3, BytesThen DEF h, l, b
  <2>6. l \o (b \o a) \in Seq(ByteSet)
    BY <2>3, <2>4
  <2>7. Head(wire) = h /\ wire' = l \o (b \o a)
    <3>1. PICK r \in Seq(ByteSet) : r = l \o (b \o a)
      BY <2>6
    <3>2. PICK e \in ByteSet : e = h
      BY <2>4
    <3>3. Head(<<e>> \o r) = e /\ SubSeq(<<e>> \o r, 2, Len(<<e>> \o r)) = r
      OBVIOUS
    <3> QED
      BY <1>1, <2>5, <3>1, <3>2, <3>3
  <2>8. /\ Current' = Current /\ After' = After
    BY <1>1 DEF Current, After
  <2>9. Current = 0 + Current * multiplier[0]
    BY <2>3, MultiplierDef
  <2> QED
    BY <1>1, <2>1, <2>2, <2>3, <2>7, <2>8, <2>9 DEF StreamInv, h, l, b, a, i
<1> QED
  BY <1>1, <1>4, <1>5 DEF ReadInv, Effect

\* Whatever v the decoding of the length returned, what follows keeps the
\* ranges; a drain begins only with a packet that has a body.
LEMMA DecodedRange ==
    ASSUME RangeInv, NEW v \in Nat, decoded(v), value' = v, UNCHANGED <<sent, buf>>,
           len' \in 0..MaxLengthBytes, v < multiplier[len'], wire' \in Seq(ByteSet), fails' \in 0..MaxFails,
           pc = "length"
    PROVE  RangeInv'
<1>1. Len(encode[0]) = 1
  <2>1. encode[0] = <<[digit |-> 0, more |-> FALSE]>>
    <3>1. encode[0] = Encoded(encode, 0) /\ 0 < Base
      BY EncodeDef, BaseAssumption
    <3> QED
      BY <3>1 DEF Encoded
  <2> QED
    BY <2>1
<1>2. CASE 1 + Len(encode[v]) + v > BufSize
  <2>1. v > 0
    <3> SUFFICES ASSUME v = 0 PROVE FALSE
      OBVIOUS
    <3> QED
      BY <1>1, <1>2, BufSizeAssumption, BaseAssumption
  <2>2. pc' = "drain" /\ total' = 0 /\ UNCHANGED <<got, done>>
    BY <1>2 DEF decoded, MQTTPacket_encode
  <2> QED
    BY <2>1, <2>2 DEF RangeInv
<1>3. CASE ~(1 + Len(encode[v]) + v > BufSize) /\ v > 0
  <2>1. pc' = "body" /\ UNCHANGED <<total, got, done>>
    BY <1>3 DEF decoded, MQTTPacket_encode
  <2> QED
    BY <2>1 DEF RangeInv
<1>4. CASE ~(1 + Len(encode[v]) + v > BufSize) /\ ~(v > 0)
  <2>1. Return(buf) /\ UNCHANGED total
    BY <1>4 DEF decoded, MQTTPacket_encode
  <2>2. pc' = "header" /\ (got' = got \/ got' = Append(got, buf)) /\ (done' = done \/ done' = done + 1)
    BY <2>1 DEF Return
  <2>3. got' \in Seq(Seq(ByteSet))
    <3>1. got \in Seq(Seq(ByteSet)) /\ buf \in Seq(ByteSet)
      BY DEF RangeInv
    <3>2. Append(got, buf) \in Seq(Seq(ByteSet))
      BY <3>1, AppendProperties
    <3> QED
      BY <2>2, <3>1, <3>2, Zenon
  <2>4. done' \in Nat
    BY <2>2 DEF RangeInv
  <2> QED
    BY <2>1, <2>2, <2>3, <2>4 DEF RangeInv
<1> QED
  BY <1>2, <1>3, <1>4

\* The end of a packet that is read whole.
LEMMA PacketEnd ==
    ASSUME RangeInv, done < Packets, done' = done + 1, sent' = sent, pc' = "header", wire' = After
    PROVE  StreamInv'
<1>1. done \in Nat /\ Packets \in Nat /\ Packets - (done + 1) = Packets - done - 1 /\ done + 1 <= Packets
  BY BoundsAssumption DEF RangeInv
<1>2. wire' = stream(sent')[Packets - done']
  BY <1>1 DEF After
<1> QED
  BY <1>1, <1>2 DEF StreamInv

\* When the length was understood, what follows reads this packet's body, or
\* drains it, or delivers a packet that has none.
LEMMA DecodedStream ==
    ASSUME RangeInv, decoded(Current), value' = Current, UNCHANGED <<sent, buf>>,
           fails = 0, fails' = 0, done < Packets, buf = <<Byte(done + 1, "header")>>,
           wire' = Body(done + 1, Current) \o After
    PROVE  StreamInv' /\ Effect
<1>1. Current \in Nat /\ After \in Seq(ByteSet) /\ done \in Nat
  BY CurrentType DEF RangeInv
<1>2. CASE ~Fits(Current)
  <2>1. Current \in Nat /\ Len(encode[Current]) \in Nat /\ BufSize \in Nat
    BY <1>1, EncodeDef, BufSizeAssumption
  <2>2. 1 + Len(encode[Current]) + Current > BufSize
    BY <1>2, <2>1 DEF Fits, MQTTPacket_encode
  <2>3. pc' = "drain" /\ total' = 0 /\ UNCHANGED <<got, done>>
    BY <2>2 DEF decoded, MQTTPacket_encode
  <2>4. Current' = Current /\ After' = After
    BY <2>3 DEF Current, After
  <2>5. wire' = Body(done' + 1, value' - total') \o After'
    BY <1>1, <2>3, <2>4
  <2>6. value' = Current' /\ ~Fits(value)' /\ total' >= 0 /\ done' < Packets /\ done' <= Packets
    BY <1>1, <1>2, <2>3, <2>4, BoundsAssumption DEF Fits
  <2>7. buf' = <<Byte(done' + 1, "header")>>
    BY <2>3
  <2>8. StreamInv'
    BY <2>3, <2>5, <2>6, <2>7 DEF StreamInv
  <2> QED
    BY <2>3, <2>8 DEF Effect
<1>3. CASE Fits(Current)
  <2>1. ~(1 + Len(encode[Current]) + Current > BufSize)
    BY <1>1, <1>3, EncodeDef, BufSizeAssumption DEF Fits, MQTTPacket_encode
  <2>2. CASE Current > 0
    <3>1. pc' = "body" /\ UNCHANGED <<total, got, done>>
      BY <2>1, <2>2 DEF decoded, MQTTPacket_encode
    <3>2. Current' = Current /\ After' = After
      BY <3>1 DEF Current, After
    <3>3. value' = Current' /\ value' > 0 /\ Fits(value)' /\ done' < Packets /\ done' <= Packets
      BY <1>1, <1>3, <2>2, <3>1, <3>2, BoundsAssumption DEF Fits
    <3>4. buf' = <<Byte(done' + 1, "header")>> /\ wire' = Body(done' + 1, value') \o After'
      BY <3>1, <3>2
    <3>5. StreamInv'
      BY <3>1, <3>3, <3>4 DEF StreamInv
    <3> QED
      BY <3>1, <3>5 DEF Effect
  <2>3. CASE ~(Current > 0)
    <3>1. Return(buf)
      BY <2>1, <2>3 DEF decoded, MQTTPacket_encode
    <3>2. pc' = "header" /\ got' = Append(got, buf) /\ done' = done + 1
      BY <3>1 DEF Return
    <3>3. Current = 0
      BY <1>1, <2>3
    <3>4. Body(done + 1, 0) = <<>>
      BY DEF Body
    <3>5. wire' = After
      BY <1>1, <3>3, <3>4
    <3>6. buf \o Body(done + 1, Current) = buf
      <4>1. buf \in Seq(ByteSet) /\ Body(done + 1, Current) = <<>>
        BY <3>3, <3>4 DEF RangeInv
      <4> HIDE DEF ByteSet
      <4> QED
        BY <4>1, ConcatEmptySeq
    <3>7. StreamInv'
      BY <3>2, <3>5, PacketEnd
    <3> QED
      BY <1>3, <3>2, <3>6, <3>7 DEF Effect
  <2> QED
    BY <2>2, <2>3
<1> QED
  BY <1>2, <1>3

\* A read that fails leaves a rest of the wire, and the stream is torn.
LEMMA ShortRange ==
    ASSUME RangeInv, NEW n \in Int, NEW rc, ReadShort(n, rc)
    PROVE  wire' \in Seq(ByteSet) /\ fails' \in 0..MaxFails /\ torn'
<1>1. PICK k \in 0 .. n - 1 : k <= Len(wire) /\ wire' = SubSeq(wire, k + 1, Len(wire))
  BY DEF ReadShort
<1>2. fails < MaxFails /\ fails' = fails + 1
  BY DEF ReadShort
<1>3. wire \in Seq(ByteSet) /\ fails \in 0..MaxFails /\ k \in Nat
  BY DEF RangeInv
<1>4. wire' \in Seq(ByteSet)
  BY <1>1, <1>3, SuffixType
<1> QED
  BY <1>2, <1>3, <1>4, BoundsAssumption DEF torn

\* A turn of the loop of mqtt_decode_packet.
LEMMA DecodeKeeps ==
    ASSUME ReadInv, mqtt_decode_packet
    PROVE  ReadInv' /\ fails' = fails /\ (~torn => Effect)
<1>1. /\ pc = "length" /\ ~too_long /\ ReadFully(1) /\ fails' = fails /\ len' = len + 1
      /\ UNCHANGED <<sent, buf>>
  BY DEF mqtt_decode_packet
<1>2. PICK d \in Digits(Head(wire)) :
         /\ value' = value + d[1] * multiplier[len]
         /\ IF d[2] THEN UNCHANGED <<pc, total, got, done>> ELSE decoded(value')
  BY DEF mqtt_decode_packet
<1>3. RangeInv
  BY DEF ReadInv
<1>4. /\ wire \in Seq(ByteSet) /\ len \in Nat /\ len + 1 \in 0..MaxLengthBytes /\ value \in Nat
      /\ value < multiplier[len] /\ multiplier[len] \in Nat \ {0} /\ multiplier[len + 1] = Base * multiplier[len]
  BY <1>1, <1>3, MultiplierDef, BaseAssumption DEF RangeInv, too_long
<1>5. Len(wire) >= 1 /\ wire' = SubSeq(wire, 2, Len(wire))
  BY <1>1 DEF ReadFully
<1>6. wire' \in Seq(ByteSet) /\ Head(wire) \in ByteSet
  <2> HIDE DEF ByteSet
  <2> QED
    BY <1>4, <1>5
<1>7. d[1] \in 0 .. Base - 1 /\ d[2] \in BOOLEAN
  <2>1. Head(wire).digit \in 0 .. Base - 1 /\ Head(wire).more \in BOOLEAN
    BY <1>6 DEF ByteSet
  <2> QED
    BY <1>2, <2>1 DEF Digits
<1>8. value' \in Nat /\ value' < multiplier[len']
  BY <1>1, <1>2, <1>4, <1>7, NextDigit
<1>9. RangeInv'
  <2>1. CASE d[2]
    <3>1. UNCHANGED <<pc, total, got, done>>
      BY <1>2, <2>1
    <3> QED
      BY <1>1, <1>3, <1>4, <1>6, <1>8, <3>1 DEF RangeInv
  <2>2. CASE ~d[2]
    <3>1. decoded(value')
      BY <1>2, <2>2
    <3>2. PICK v \in Nat : v = value'
      BY <1>8
    <3>3. decoded(v)
      BY <3>1, <3>2
    <3>4. fails' \in 0..MaxFails
      BY <1>1, <1>3 DEF RangeInv
    <3> QED
      BY <1>1, <1>3, <1>4, <1>6, <1>8, <3>2, <3>3, <3>4, DecodedRange
  <2> QED
    BY <1>7, <2>1, <2>2
<1>10. ASSUME ~torn PROVE StreamInv' /\ Effect
  <2>1. StreamInv /\ done < Packets /\ buf = <<Byte(done + 1, "header")>> /\ fails = 0 /\ fails' = 0
    <3>1. StreamInv /\ pc # "header"
      BY <1>1, <1>10 DEF ReadInv
    <3>2. fails = 0 /\ fails' = 0
      BY <1>1, <1>3, <1>10, BoundsAssumption DEF torn, RangeInv
    <3> QED
      BY <3>1, <3>2 DEF StreamInv
  <2>2. PICK m \in Nat :
           /\ Current = value + m * multiplier[len]
           /\ len = 0 \/ m > 0
           /\ wire = LengthBytes(done + 1, encode[m]) \o (Body(done + 1, Current) \o After)
    BY <1>1, <2>1 DEF StreamInv
  <2>3. Current \in Nat /\ After \in Seq(ByteSet) /\ done + 1 \in Nat
    BY <1>3, <2>1, CurrentType DEF RangeInv
  <2>4. PICK i \in Nat : i = done + 1
    BY <2>3
  <2>5. PICK rest \in Seq(ByteSet) : rest = Body(i, Current) \o After
    <3>1. 0 \in 0..Current
      BY <2>3
    <3>2. Body(i, Current) \in Seq(ByteSet)
      BY <2>3, <3>1, BodyParts
    <3>3. Body(i, Current) \o After \in Seq(ByteSet)
      BY <2>3, <3>2, ConcatProperties
    <3> QED
      BY <3>3
  <2>6. wire = LengthBytes(i, encode[m]) \o rest
    BY <2>2, <2>4, <2>5
  <2>7. encode[m] = Encoded(encode, m)
    BY EncodeDef
  <2>8. ASSUME NEW x \in Digit, NEW e \in Seq(Digit), encode[m] = <<x>> \o e
        PROVE  d[1] = x.digit /\ d[2] = x.more /\ wire' = LengthBytes(i, e) \o rest
    <3>1. /\ LengthBytes(i, e) \in Seq(ByteSet) /\ LengthByte(i, x) \in ByteSet
          /\ LengthBytes(i, encode[m]) = <<LengthByte(i, x)>> \o LengthBytes(i, e)
      BY <2>8, LengthBytesCons
    <3>2. PICK b \in ByteSet : b = LengthByte(i, x)
      BY <3>1
    <3>3. PICK l \in Seq(ByteSet) : l = LengthBytes(i, e)
      BY <3>1
    <3>4. wire = (<<b>> \o l) \o rest
      BY <2>6, <3>1, <3>2, <3>3
    <3> HIDE DEF ByteSet
    <3>5. Head(wire) = b /\ wire' = l \o rest
      <4>1. l \o rest \in Seq(ByteSet) /\ <<b>> \in Seq(ByteSet) /\ Len(<<b>>) = 1
        OBVIOUS
      <4>2. wire = <<b>> \o (l \o rest)
        BY <3>4
      <4>3. PICK r \in Seq(ByteSet) : r = l \o rest
        BY <4>1
      <4>4. SubSeq(<<b>> \o r, Len(<<b>>) + 1, Len(<<b>> \o r)) = r
        BY <4>1, Cut
      <4>5. Head(<<b>> \o r) = b
        OBVIOUS
      <4> QED
        BY <1>5, <4>1, <4>2, <4>3, <4>4, <4>5
    <3>6. Digits(Head(wire)) = {<<x.digit, x.more>>}
      BY <3>2, <3>5 DEF Digits, LengthByte
    <3> QED
      BY <1>2, <3>3, <3>5, <3>6
  <2>9. CASE m < Base
    <3> DEFINE x == [digit |-> m, more |-> FALSE]
    <3>1. x \in Digit
      BY <2>9, BaseAssumption DEF Digit
    <3>2. encode[m] = <<x>> \o <<>> /\ <<>> \in Seq(Digit)
      <4>1. encode[m] = <<x>>
        BY <2>7, <2>9 DEF Encoded
      <4>2. <<x>> \in Seq(Digit) /\ <<>> \in Seq(Digit)
        BY <3>1
      <4> HIDE DEF x, Digit
      <4> QED
        BY <4>1, <4>2, ConcatEmptySeq
    <3>3. d[1] = m /\ d[2] = FALSE /\ wire' = LengthBytes(i, <<>>) \o rest
      <4>1. x.digit = m /\ x.more = FALSE
        OBVIOUS
      <4> HIDE DEF x
      <4> QED
        BY <2>8, <3>1, <3>2, <4>1
    <3>4. LengthBytes(i, <<>>) = <<>>
      BY DEF LengthBytes
    <3>5. wire' = Body(done + 1, Current) \o After
      BY <2>4, <2>5, <3>3, <3>4, ConcatEmptySeq
    <3>6. value' = Current /\ decoded(value')
      BY <1>2, <2>2, <3>3
    <3>7. decoded(Current)
      BY <3>6
    <3> QED
      BY <1>1, <1>3, <2>1, <3>5, <3>6, <3>7, DecodedStream
  <2>10. CASE ~(m < Base)
    <3> DEFINE x == [digit |-> m % Base, more |-> TRUE]
               a == m \div Base
    <3>1. m >= Base
      BY <2>10, BaseAssumption
    <3>2. /\ a \in Nat /\ m % Base \in 0 .. Base - 1 /\ m = Base * a + (m % Base) /\ a > 0
      BY <3>1, TakeDigit
    <3>3. x \in Digit /\ encode[a] \in Seq(Digit)
      BY <3>2, EncodeDef DEF Digit
    <3>4. encode[m] = <<x>> \o encode[a]
      BY <2>7, <2>10 DEF Encoded
    <3>5. x.digit = m % Base /\ x.more = TRUE
      OBVIOUS
    <3>6. d[1] = m % Base /\ d[2] = TRUE /\ wire' = LengthBytes(i, encode[a]) \o rest
      <4> HIDE DEF x, a
      <4> QED
        BY <2>8, <3>3, <3>4, <3>5
    <3>7. UNCHANGED <<pc, total, got, done>>
      BY <1>2, <3>6
    <3>8. Current = value' + a * multiplier[len']
      <4> DEFINE q == m % Base
                 p == multiplier[len]
      <4>1. q \in Nat /\ a \in Nat /\ p \in Nat /\ Base \in Nat /\ m = Base * a + q
        BY <1>4, <3>2, BaseAssumption
      <4>2. Current = value + m * p /\ value' = value + q * p /\ multiplier[len'] = Base * p
        BY <1>1, <1>2, <1>4, <2>2, <3>6
      <4> HIDE DEF q, p, a
      <4>3. (Base * a + q) * p = q * p + a * (Base * p)
        BY <4>1
      <4>4. q * p \in Nat /\ a * (Base * p) \in Nat /\ m * p \in Nat
        BY <4>1
      <4>5. m * p = q * p + a * (Base * p)
        BY <4>1, <4>3
      <4> QED
        BY <1>4, <4>2, <4>4, <4>5
    <3>9. Current' = Current /\ After' = After
      BY <1>1, <3>7 DEF Current, After
    <3>10. wire' = LengthBytes(done' + 1, encode[a]) \o (Body(done' + 1, Current') \o After')
      BY <2>4, <2>5, <3>6, <3>7, <3>9
    <3>11. \E j \in Nat :
             /\ Current' = value' + j * multiplier[len']
             /\ len' = 0 \/ j > 0
             /\ wire' = LengthBytes(done' + 1, encode[j]) \o (Body(done' + 1, Current') \o After')
      BY <3>2, <3>8, <3>9, <3>10
    <3>12. StreamInv'
      BY <1>1, <2>1, <3>7, <3>11 DEF StreamInv
    <3> QED
      BY <3>7, <3>12 DEF Effect
  <2> QED
    BY <2>9, <2>10
<1> QED
  BY <1>1, <1>9, <1>10 DEF ReadInv, torn

\* Decoding is left early after a read that failed, or after all the length
\* bytes there may be; the second cannot happen to a stream that is understood,
\* since what those bytes say is more than any remaining length.
LEMMA DecodeFailsKeeps ==
    ASSUME ReadInv, mqtt_decode_packet_fails PROVE ReadInv' /\ torn'
<1>1. /\ pc = "length" /\ decoded(value) /\ UNCHANGED <<sent, buf, value, len>>
  BY DEF mqtt_decode_packet_fails
<1>2. RangeInv
  BY DEF ReadInv
<1>3. wire' \in Seq(ByteSet) /\ fails' \in 0..MaxFails /\ torn'
  <2>1. CASE too_long /\ UNCHANGED <<wire, fails>>
    <3>1. torn
      <4> SUFFICES ASSUME ~torn PROVE FALSE
        OBVIOUS
      <4>1. StreamInv /\ done < Packets /\ len = MaxLengthBytes /\ len # 0 /\ MaxLengthBytes \in Nat
        <5>1. StreamInv /\ pc # "header"
          BY <1>1 DEF ReadInv
        <5>2. done < Packets
          BY <5>1 DEF StreamInv
        <5>3. len = MaxLengthBytes /\ len # 0 /\ MaxLengthBytes \in Nat
          BY <1>2, <2>1, BaseAssumption DEF RangeInv, too_long
        <5> QED
          BY <5>1, <5>2, <5>3
      <4>2. PICK m \in Nat : Current = value + m * multiplier[len] /\ m > 0
        BY <1>1, <4>1 DEF StreamInv
      <4>3. Current < multiplier[MaxLengthBytes] /\ Current \in Nat
        BY <1>2, <4>1, CurrentType
      <4>4. PICK p \in Nat : p = multiplier[MaxLengthBytes]
        BY <4>1, MultiplierDef
      <4>5. m * p >= p
        <5>1. m - 1 \in Nat /\ m * p = (m - 1) * p + p
          BY <4>2
        <5>2. (m - 1) * p \in Nat
          BY <5>1
        <5> QED
          BY <5>1, <5>2
      <4>6. value \in Nat /\ m * p \in Nat /\ Current = value + m * p
        <5>1. value \in Nat
          BY <1>2 DEF RangeInv
        <5>2. m * p \in Nat
          OBVIOUS
        <5>3. Current = value + m * p
          BY <4>1, <4>2, <4>4
        <5> QED
          BY <5>1, <5>2, <5>3
      <4> QED
        BY <4>3, <4>4, <4>5, <4>6
    <3> QED
      BY <1>2, <2>1, <3>1 DEF RangeInv, torn
  <2>2. CASE ~too_long /\ \E rc \in {-1, 0} : ReadShort(1, rc)
    BY <1>2, <2>2, ShortRange
  <2> QED
    BY <2>1, <2>2 DEF mqtt_decode_packet_fails
<1>4. PICK v \in Nat : v = value /\ v < multiplier[len]
  BY <1>2 DEF RangeInv
<1>5. decoded(v) /\ value' = v /\ len' \in 0..MaxLengthBytes /\ v < multiplier[len']
  BY <1>1, <1>2, <1>4 DEF RangeInv
<1>6. RangeInv'
  BY <1>1, <1>2, <1>3, <1>5, DecodedRange
<1> QED
  BY <1>3, <1>6 DEF ReadInv

\* The body is read.
LEMMA BodyKeeps ==
    ASSUME ReadInv, read_body PROVE ReadInv' /\ fails' = fails /\ (~torn => Effect)
<1>1. /\ pc = "body" /\ Len(wire) >= value /\ wire' = SubSeq(wire, value + 1, Len(wire))
      /\ fails' = fails /\ UNCHANGED <<sent, buf, value, len, total>>
  BY DEF read_body, ReadFully
<1>2. /\ pc' = "header"
      /\ got' = IF fails > 0 THEN got ELSE Append(got, buf \o SubSeq(wire, 1, value))
      /\ done' = IF fails > 0 THEN done ELSE done + 1
  BY DEF read_body, Return
<1>3. RangeInv
  BY DEF ReadInv
<1>4. wire \in Seq(ByteSet) /\ value \in Nat /\ buf \in Seq(ByteSet) /\ got \in Seq(Seq(ByteSet)) /\ done \in Nat
  BY <1>3 DEF RangeInv
<1>5. wire' \in Seq(ByteSet)
  BY <1>1, <1>4, SuffixType
<1>6. got' \in Seq(Seq(ByteSet)) /\ done' \in Nat
  <2>1. SubSeq(wire, 1, value) \in Seq(ByteSet)
    <3> HIDE DEF ByteSet
    <3> QED
      BY <1>1, <1>4
  <2>2. buf \o SubSeq(wire, 1, value) \in Seq(ByteSet)
    BY <1>4, <2>1, ConcatProperties
  <2>3. Append(got, buf \o SubSeq(wire, 1, value)) \in Seq(Seq(ByteSet))
    BY <1>4, <2>2, AppendProperties
  <2>4. got' \in Seq(Seq(ByteSet))
    BY <1>2, <1>4, <2>3, Zenon
  <2> QED
    BY <1>2, <1>4, <2>4
<1>7. RangeInv'
  BY <1>1, <1>2, <1>3, <1>5, <1>6 DEF RangeInv
<1>8. ASSUME ~torn PROVE StreamInv' /\ Effect
  <2>1. StreamInv /\ pc # "header"
    BY <1>1, <1>8 DEF ReadInv
  <2>2. /\ done < Packets /\ buf = <<Byte(done + 1, "header")>> /\ value = Current /\ Fits(Current)
        /\ wire = Body(done + 1, Current) \o After
    BY <1>1, <2>1 DEF StreamInv
  <2>3. got' = Append(got, buf \o SubSeq(wire, 1, value)) /\ done' = done + 1
    BY <1>2, <1>8 DEF torn
  <2>4. Current \in Nat /\ After \in Seq(ByteSet) /\ done + 1 \in Nat
    BY <1>3, <1>4, <2>2, CurrentType
  <2>5. Body(done + 1, Current) \in Seq(ByteSet) /\ Len(Body(done + 1, Current)) = Current
    <3>1. 0 \in 0..Current
      BY <2>4
    <3> QED
      BY <2>4, <3>1, BodyParts
  <2>6. SubSeq(wire, 1, value) = Body(done + 1, Current) /\ wire' = After
    BY <1>1, <2>2, <2>4, <2>5, Cut
  <2>7. StreamInv'
    BY <1>1, <1>2, <1>3, <2>2, <2>3, <2>6, PacketEnd
  <2> QED
    BY <2>2, <2>3, <2>6, <2>7 DEF Effect
<1> QED
  BY <1>1, <1>7, <1>8 DEF ReadInv, torn

\* The body is cut short.
LEMMA BodyFailsKeeps ==
    ASSUME ReadInv, read_body_fails PROVE ReadInv' /\ torn'
<1>1. RangeInv /\ value \in Int
  BY DEF ReadInv, RangeInv
<1>2. wire' \in Seq(ByteSet) /\ fails' \in 0..MaxFails /\ torn'
  BY <1>1, ShortRange DEF read_body_fails
<1>3. pc' = "header" /\ UNCHANGED <<sent, buf, value, len, total, got, done>>
  BY DEF read_body_fails
<1>4. RangeInv'
  BY <1>1, <1>2, <1>3 DEF RangeInv
<1> QED
  BY <1>2, <1>4 DEF ReadInv

\* A turn of the drain asks for at least one byte, for no more than the buffer
\* holds and for no more than is left of the packet.
LEMMA DrainAsks ==
    ASSUME RangeInv, pc = "drain"
    PROVE  bytes2read \in 1..BufSize /\ bytes2read <= value - total
<1>1. value \in Nat /\ total \in Int /\ total < value /\ BufSize \in Nat /\ BufSize > 0
  BY BufSizeAssumption, BaseAssumption DEF RangeInv
<1> QED
  BY <1>1 DEF bytes2read

\* A turn of the drain.
LEMMA DrainKeeps ==
    ASSUME ReadInv, mqtt_packet_drain PROVE ReadInv' /\ fails' = fails /\ (~torn => Effect)
<1>1. /\ pc = "drain" /\ Len(wire) >= bytes2read /\ wire' = SubSeq(wire, bytes2read + 1, Len(wire))
      /\ fails' = fails /\ drained(bytes2read) /\ UNCHANGED <<sent, buf, value, len, got>>
  BY DEF mqtt_packet_drain, ReadFully
<1>2. RangeInv
  BY DEF ReadInv
<1>3. PICK k \in Nat : k = bytes2read /\ k # 0 /\ k <= value - total
  BY <1>1, <1>2, DrainAsks
<1>4. wire \in Seq(ByteSet) /\ value \in Nat /\ total \in Int /\ done \in Nat
  BY <1>2 DEF RangeInv
<1>5. wire' \in Seq(ByteSet)
  BY <1>1, <1>3, <1>4, SuffixType
<1>6. /\ total' = total + k
      /\ IF total + k < value THEN UNCHANGED <<pc, done>>
           ELSE pc' = "header" /\ done' = IF fails > 0 THEN done ELSE done + 1
  BY <1>1, <1>3 DEF drained
<1>7. RangeInv'
  <2>1. total' \in Int /\ done' \in Nat /\ pc' \in {"header", "drain"} /\ (pc' = "drain" => total' < value)
    BY <1>1, <1>3, <1>4, <1>6
  <2> QED
    BY <1>1, <1>2, <1>5, <2>1 DEF RangeInv
<1>8. ASSUME ~torn PROVE StreamInv' /\ Effect
  <2>1. StreamInv /\ pc # "header"
    BY <1>1, <1>8 DEF ReadInv
  <2>2. /\ done < Packets /\ buf = <<Byte(done + 1, "header")>> /\ value = Current /\ ~Fits(Current)
        /\ total >= 0 /\ wire = Body(done + 1, value - total) \o After
    BY <1>1, <2>1 DEF StreamInv
  <2>3. Current \in Nat /\ After \in Seq(ByteSet) /\ done + 1 \in Nat
    BY <1>2, <1>4, <2>2, CurrentType
  <2>4. PICK n \in Nat : n = value - total /\ k \in 0..n
    BY <1>3, <1>4
  <2>5. PICK i \in Nat : i = done + 1
    BY <2>3
  <2>6. /\ Body(i, k) \in Seq(ByteSet) /\ Len(Body(i, k)) = k /\ Body(i, n - k) \in Seq(ByteSet)
        /\ Body(i, n) = Body(i, k) \o Body(i, n - k)
    <3>1. 0 \in 0..k /\ n - k \in Nat /\ 0 \in 0..(n - k)
      BY <2>4
    <3>2. Body(i, k) \in Seq(ByteSet) /\ Len(Body(i, k)) = k
      BY <3>1, BodyParts
    <3>3. Body(i, n - k) \in Seq(ByteSet)
      BY <3>1, BodyParts
    <3>4. Body(i, n) = Body(i, k) \o Body(i, n - k)
      BY <2>4, BodyParts
    <3> QED
      BY <3>2, <3>3, <3>4
  <2>7. wire' = Body(i, n - k) \o After
    <3>1. PICK a \in Seq(ByteSet) : a = Body(i, k) /\ Len(a) = k
      BY <2>6
    <3>2. PICK b \in Seq(ByteSet) : b = Body(i, n - k)
      BY <2>6
    <3>3. PICK c \in Seq(ByteSet) : c = After
      BY <2>3
    <3>4. wire = (a \o b) \o c
      BY <2>2, <2>4, <2>5, <2>6, <3>1, <3>2, <3>3
    <3>5. wire = a \o (b \o c) /\ b \o c \in Seq(ByteSet)
      <4> HIDE DEF ByteSet
      <4> QED
        BY <3>4
    <3>6. SubSeq(a \o (b \o c), Len(a) + 1, Len(a \o (b \o c))) = b \o c
      <4>1. PICK d \in Seq(ByteSet) : d = b \o c
        BY <3>5
      <4>2. SubSeq(a \o d, Len(a) + 1, Len(a \o d)) = d
        BY Cut
      <4> QED
        BY <4>1, <4>2
    <3>7. wire' = SubSeq(wire, Len(a) + 1, Len(wire))
      BY <1>1, <1>3, <3>1
    <3>8. wire' = b \o c
      BY <3>5, <3>6, <3>7
    <3> QED
      BY <3>2, <3>3, <3>8
  <2>8. CASE total + k < value
    <3>1. UNCHANGED <<pc, done>>
      BY <1>6, <2>8
    <3>2. Current' = Current /\ After' = After
      BY <1>1, <3>1 DEF Current, After
    <3>3. n - k = value' - total'
      BY <1>1, <1>4, <1>6, <2>4
    <3>4. wire' = Body(done' + 1, value' - total') \o After'
      BY <2>5, <2>7, <3>1, <3>2, <3>3
    <3>5. /\ value' = Current' /\ ~Fits(value)' /\ total' >= 0 /\ done' < Packets /\ done' <= Packets
          /\ buf' = <<Byte(done' + 1, "header")>>
      BY <1>1, <1>4, <1>6, <2>2, <3>1, <3>2, BoundsAssumption DEF Fits
    <3>6. StreamInv'
      BY <1>1, <3>1, <3>4, <3>5 DEF StreamInv
    <3> QED
      BY <1>1, <3>1, <3>6 DEF Effect
  <2>9. CASE ~(total + k < value)
    <3>1. pc' = "header" /\ done' = done + 1
      BY <1>6, <1>8, <2>9 DEF torn
    <3>2. n - k = 0
      BY <1>4, <2>4, <2>9
    <3>3. wire' = After
      <4>1. Body(i, 0) = <<>>
        BY DEF Body
      <4> QED
        BY <2>3, <2>7, <3>2, <4>1, ConcatEmptySeq
    <3>4. StreamInv'
      BY <1>1, <1>2, <2>2, <3>1, <3>3, PacketEnd
    <3> QED
      BY <1>1, <2>2, <3>1, <3>4 DEF Effect
  <2> QED
    BY <2>8, <2>9
<1> QED
  BY <1>1, <1>7, <1>8 DEF ReadInv, torn

\* A turn of the drain that fails.
LEMMA DrainFailsKeeps ==
    ASSUME ReadInv, mqtt_packet_drain_fails PROVE ReadInv' /\ torn'
<1>1. RangeInv
  BY DEF ReadInv
<1>2. pc = "drain" /\ UNCHANGED <<sent, buf, value, len, got>>
  BY DEF mqtt_packet_drain_fails
<1>3. PICK k \in Nat : k = bytes2read
  BY <1>1, <1>2, DrainAsks
<1>4. PICK rc \in -1 .. k : ReadShort(k, rc) /\ drained(rc)
  BY <1>3 DEF mqtt_packet_drain_fails
<1>5. wire' \in Seq(ByteSet) /\ fails' \in 0..MaxFails /\ torn'
  BY <1>1, <1>4, ShortRange
<1>6. /\ total' = total + rc
      /\ \/ total' < value /\ UNCHANGED <<pc, done>>
         \/ pc' = "header" /\ done' \in {done, done + 1}
  BY <1>4 DEF drained
<1>7. total' \in Int /\ done' \in Nat /\ pc' \in {"header", "drain"} /\ (pc' = "drain" => total' < value)
  BY <1>1, <1>2, <1>6 DEF RangeInv
<1>8. RangeInv'
  BY <1>1, <1>2, <1>5, <1>7 DEF RangeInv
<1> QED
  BY <1>5, <1>8 DEF ReadInv

-----------------------------------------------------------------------------
(* The theorems.                                                           *)

\* The invariant holds at the first byte.
LEMMA ReadInit == Init => ReadInv
<1> SUFFICES ASSUME Init PROVE ReadInv
  OBVIOUS
<1>1. Packets \in 0..Packets /\ Packets - 0 = Packets /\ 0 <= Packets
  BY BoundsAssumption
<1>2. sent \in [1..Packets -> Remaining] /\ wire = stream(sent)[Packets]
  BY DEF Init
<1>3. wire \in Seq(ByteSet)
  BY <1>1, <1>2, StreamDef
<1>4. 0 \in 0..MaxLengthBytes /\ 0 < multiplier[0] /\ 0 \in 0..MaxFails
  BY BaseAssumption, BoundsAssumption, MultiplierDef
<1>5. RangeInv
  BY <1>2, <1>3, <1>4 DEF Init, RangeInv
<1>6. StreamInv
  BY <1>1, <1>2 DEF Init, StreamInv
<1> QED
  BY <1>5, <1>6 DEF ReadInv

\* Every step keeps the invariant; once the stream is torn it stays torn, and
\* a step that does not tear it has one of the three effects.
LEMMA ReadNext ==
    ASSUME ReadInv, [Next]_vars
    PROVE  ReadInv' /\ sent' = sent /\ (torn => torn') /\ (~torn' => ~torn /\ Effect)
<1>1. CASE read_header
  <2>1. sent' = sent
    BY <1>1 DEF read_header
  <2> QED
    BY <1>1, <2>1, HeaderKeeps DEF torn
<1>2. CASE mqtt_decode_packet
  <2>1. sent' = sent
    BY <1>2 DEF mqtt_decode_packet
  <2> QED
    BY <1>2, <2>1, DecodeKeeps DEF torn
<1>3. CASE mqtt_decode_packet_fails
  <2>1. sent' = sent
    BY <1>3 DEF mqtt_decode_packet_fails
  <2> QED
    BY <1>3, <2>1, DecodeFailsKeeps
<1>4. CASE read_body
  <2>1. sent' = sent
    BY <1>4 DEF read_body
  <2> QED
    BY <1>4, <2>1, BodyKeeps DEF torn
<1>5. CASE read_body_fails
  <2>1. sent' = sent
    BY <1>5 DEF read_body_fails
  <2> QED
    BY <1>5, <2>1, BodyFailsKeeps
<1>6. CASE mqtt_packet_drain
  <2>1. sent' = sent
    BY <1>6 DEF mqtt_packet_drain
  <2> QED
    BY <1>6, <2>1, DrainKeeps DEF torn
<1>7. CASE mqtt_packet_drain_fails
  <2>1. sent' = sent
    BY <1>7 DEF mqtt_packet_drain_fails
  <2> QED
    BY <1>7, <2>1, DrainFailsKeeps
<1>8. CASE UNCHANGED vars
  <2>1. UNCHANGED <<sent, wire, pc, buf, value, len, total, got, done, fails>>
    BY <1>8 DEF vars
  <2>2. Current' = Current /\ After' = After
    BY <2>1 DEF Current, After
  <2>3. RangeInv' = RangeInv
    BY <2>1 DEF RangeInv
  <2>4. StreamInv' = StreamInv
    BY <2>1, <2>2 DEF StreamInv
  <2> QED
    BY <2>1, <2>3, <2>4 DEF ReadInv, torn, Effect
<1> QED
  BY <1>1, <1>2, <1>3, <1>4, <1>5, <1>6, <1>7, <1>8 DEF Next, Step, Finished

\* ReadInv is an invariant.
LEMMA ReadAlways == Spec => []ReadInv
<1>1. ReadInv /\ [Next]_vars => ReadInv'
  BY ReadNext
<1> QED
  BY <1>1, ReadInit, PTL DEF Spec

\* mqtt_decode_packet and mqtt_packet_drain stay within their ranges for every
\* stream, also one that is no longer understood: the length has at most the
\* bytes MQTT allows and the value they can say, and every read of the drain
\* asks for at least one byte and for no more than the buffer holds.
THEOREM ReaderTypeCorrect == Spec => []TypeOK
<1>1. ReadInv => TypeOK
  <2> SUFFICES ASSUME ReadInv PROVE TypeOK
    OBVIOUS
  <2>1. RangeInv
    BY DEF ReadInv
  <2>2. /\ len \in Nat /\ MaxLengthBytes \in Nat /\ len <= MaxLengthBytes
        /\ multiplier[len] \in Nat /\ multiplier[MaxLengthBytes] \in Nat
    BY <2>1, BaseAssumption, MultiplierDef DEF RangeInv
  <2>3. multiplier[len] <= multiplier[MaxLengthBytes]
    BY <2>2, MultiplierGrows
  <2>4. value \in 0 .. multiplier[MaxLengthBytes] - 1
    BY <2>1, <2>2, <2>3 DEF RangeInv
  <2>5. pc = "drain" => bytes2read \in 1..BufSize
    BY <2>1, DrainAsks
  <2> QED
    BY <2>1, <2>4, <2>5 DEF TypeOK, RangeInv
<1> QED
  BY <1>1, ReadAlways, PTL

\* As long as no read has failed inside a packet, mqtt_read_packet starts at the
\* first byte of a packet, whatever packets were read or drained before it.
THEOREM AlignedCorrect == Spec => []Aligned
<1>1. ReadInv => Aligned
  BY DEF ReadInv, StreamInv, Aligned
<1> QED
  BY <1>1, ReadAlways, PTL

\* A delivered buffer is recognised as the packet it is.
LEMMA WholePacket ==
    ASSUME RangeInv, done < Packets
    PROVE  Whole(<<Byte(done + 1, "header")>> \o Body(done + 1, Current)) = Current
<1>1. Current \in Nat /\ done + 1 \in Nat /\ done + 1 \in 1..Packets
  BY CurrentType, BoundsAssumption DEF RangeInv
<1>2. PICK i \in Nat : i = done + 1
  BY <1>1
<1>3. PICK b \in Seq(ByteSet) : b = Body(i, Current)
  <2>1. 0 \in 0..Current
    BY <1>1
  <2> QED
    BY <1>1, <2>1, BodyParts
<1>4. PICK h \in ByteSet : h = Byte(i, "header") /\ h.packet = i
  <2>1. Byte(i, "header") \in ByteSet
    BY <1>1, BytesType
  <2>2. Byte(i, "header").packet = i
    BY DEF Byte
  <2> QED
    BY <2>1, <2>2
<1>5. (<<h>> \o b)[1] = h
  <2> HIDE DEF ByteSet
  <2> QED
    OBVIOUS
<1>6. i \in DOMAIN sent /\ sent[i] = Current
  BY <1>1, <1>2 DEF Current, RangeInv
<1> QED
  BY <1>2, <1>3, <1>4, <1>5, <1>6 DEF Whole

\* The packets left after the next one.
LEMMA NextPending ==
    ASSUME RangeInv, done < Packets
    PROVE  /\ SubSeq(sent, done + 1, Len(sent)) # <<>>
           /\ Head(SubSeq(sent, done + 1, Len(sent))) = Current
           /\ Tail(SubSeq(sent, done + 1, Len(sent))) = SubSeq(sent, (done + 1) + 1, Len(sent))
<1>1. sent \in Seq(Remaining) /\ Len(sent) = Packets /\ done \in Nat /\ done < Len(sent)
  BY BoundsAssumption DEF RangeInv
<1> DEFINE a == SubSeq(sent, done + 1, Len(sent))
           b == SubSeq(sent, (done + 1) + 1, Len(sent))
<1>2. a \in Seq(Remaining) /\ Len(a) = Len(sent) - done /\ \A k \in 1..Len(a) : a[k] = sent[done + k]
  BY <1>1
<1>3. b \in Seq(Remaining) /\ Len(b) = Len(sent) - done - 1 /\ \A k \in 1..Len(b) : b[k] = sent[done + 1 + k]
  BY <1>1
<1> HIDE DEF a, b
<1>4. a # <<>> /\ Head(a) = sent[done + 1]
  BY <1>1, <1>2
<1>5. Tail(a) = b
  <2>1. /\ Tail(a) \in Seq(Remaining) /\ Len(Tail(a)) = Len(a) - 1
        /\ \A k \in 1..(Len(a) - 1) : Tail(a)[k] = a[k + 1]
    BY <1>2, <1>4, HeadTailProperties
  <2>2. ASSUME NEW k \in 1..Len(b) PROVE Tail(a)[k] = b[k]
    <3>1. k \in 1..(Len(a) - 1) /\ k + 1 \in 1..Len(a) /\ done + (k + 1) = done + 1 + k
      BY <1>1, <1>2, <1>3
    <3>2. Tail(a)[k] = a[k + 1] /\ a[k + 1] = sent[done + (k + 1)]
      BY <1>2, <2>1, <3>1
    <3> QED
      BY <1>3, <3>1, <3>2
  <2>3. Len(Tail(a)) = Len(b)
    BY <1>1, <1>2, <1>3, <2>1
  <2> QED
    BY <1>3, <2>1, <2>2, <2>3, SeqEqual
<1> QED
  BY <1>4, <1>5 DEF a, b, Current

\* The packets handed to the caller, by their remaining lengths.
Delivered == [k \in DOMAIN got |-> Whole(got[k])]

\* Every step of the reader is a step of the packet stream, or none.
LEMMA StreamStep ==
    ASSUME ReadInv, [Next]_vars PROVE [Abstract!Next]_Abstract!streamVars
<1>1. ReadInv' /\ sent' = sent /\ (torn => torn') /\ (~torn' => ~torn /\ Effect)
  BY ReadNext
<1>2. CASE torn'
  <2>1. CASE torn
    BY <1>2, <2>1 DEF Abstract!Next, Abstract!Lost
  <2>2. CASE ~torn
    <3>1. (~torn)' = FALSE
      BY <1>2
    <3> QED
      BY <2>2, <3>1 DEF Abstract!Next, Abstract!Lose
  <2> QED
    BY <2>1, <2>2
<1>3. CASE ~torn'
  <2>1. ~torn /\ Effect /\ RangeInv /\ (~torn)' = ~torn
    BY <1>1, <1>3 DEF ReadInv
  <2>2. CASE done' = done /\ got' = got
    <3>1. Delivered' = Delivered
      BY <1>1, <2>2 DEF Delivered, Whole
    <3>2. SubSeq(sent, done + 1, Len(sent))' = SubSeq(sent, done + 1, Len(sent))
      BY <1>1, <2>2
    <3> QED
      BY <2>1, <3>1, <3>2 DEF Abstract!streamVars, Delivered
  <2>3. CASE done < Packets /\ done' = done + 1 /\ ~Fits(Current) /\ got' = got
    <3>1. Delivered' = Delivered
      BY <1>1, <2>3 DEF Delivered, Whole
    <3>2. SubSeq(sent, done + 1, Len(sent))' = Tail(SubSeq(sent, done + 1, Len(sent)))
      BY <1>1, <2>1, <2>3, NextPending
    <3>3. SubSeq(sent, done + 1, Len(sent)) # <<>> /\ ~Fits(Head(SubSeq(sent, done + 1, Len(sent))))
      BY <2>1, <2>3, NextPending
    <3>4. Abstract!Skip
      BY <2>1, <3>1, <3>2, <3>3 DEF Abstract!Skip, Delivered
    <3> QED
      BY <3>4 DEF Abstract!Next
  <2>4. CASE /\ done < Packets /\ done' = done + 1 /\ Fits(Current)
             /\ got' = Append(got, <<Byte(done + 1, "header")>> \o Body(done + 1, Current))
    <3>1. PICK b : b = <<Byte(done + 1, "header")>> \o Body(done + 1, Current)
      OBVIOUS
    <3>2. Whole(b) = Current
      BY <2>1, <2>4, <3>1, WholePacket
    <3>3. got \in Seq(Seq(ByteSet)) /\ b \in Seq(ByteSet) /\ got' = Append(got, b)
      <4>1. done + 1 \in Nat /\ Current \in Nat /\ 0 \in 0..Current
        BY <2>1, <2>4, CurrentType DEF RangeInv
      <4>2. Byte(done + 1, "header") \in ByteSet /\ Body(done + 1, Current) \in Seq(ByteSet)
        BY <4>1, BytesType, BodyParts
      <4>3. <<Byte(done + 1, "header")>> \in Seq(ByteSet)
        BY <4>2
      <4>4. b \in Seq(ByteSet)
        BY <3>1, <4>2, <4>3, ConcatProperties
      <4> QED
        BY <2>1, <2>4, <3>1, <4>4 DEF RangeInv
    <3>4. Delivered' = Append(Delivered, Current)
      <4> DEFINE W(x) == Whole(x)
      <4>1. Delivered = [k \in DOMAIN got |-> W(got[k])] /\ Delivered' = [k \in DOMAIN got' |-> W(got'[k])]
        BY <1>1 DEF Delivered, Whole
      <4>2. W(b) = Current
        BY <3>2
      <4>3. /\ DOMAIN got = 1..Len(got) /\ DOMAIN got' = 1..(Len(got) + 1) /\ Len(got) \in Nat
            /\ got'[Len(got) + 1] = b /\ \A k \in 1..Len(got) : got'[k] = got[k]
        BY <3>3
      <4> HIDE DEF W
      <4>4. Len(Delivered) = Len(got) /\ Delivered = [k \in 1..Len(got) |-> W(got[k])]
        BY <4>1, <4>3
      <4>5. Append(Delivered, Current) = [k \in 1..(Len(got) + 1) |-> IF k = Len(got) + 1 THEN Current ELSE W(got[k])]
        BY <4>3, <4>4
      <4>6. Delivered' = [k \in 1..(Len(got) + 1) |-> IF k = Len(got) + 1 THEN Current ELSE W(got[k])]
        BY <4>1, <4>2, <4>3
      <4> QED
        BY <4>5, <4>6
    <3>5. SubSeq(sent, done + 1, Len(sent))' = Tail(SubSeq(sent, done + 1, Len(sent)))
      BY <1>1, <2>1, <2>4, NextPending
    <3>6. /\ SubSeq(sent, done + 1, Len(sent)) # <<>>
          /\ Head(SubSeq(sent, done + 1, Len(sent))) = Current
      BY <2>1, <2>4, NextPending
    <3>7. Abstract!Deliver
      BY <2>1, <2>4, <3>4, <3>5, <3>6 DEF Abstract!Deliver, Delivered
    <3> QED
      BY <3>7 DEF Abstract!Next
  <2> QED
    BY <2>1, <2>2, <2>3, <2>4 DEF Effect
<1> QED
  BY <1>2, <1>3

\* mqtt_read_packet keeps the promise of PacketStream: until a read fails inside
\* a packet, what the broker sends comes out whole and in order, and exactly the
\* packets that do not fit the buffer are skipped, for packets of any lengths
\* and a buffer of any size.
THEOREM PacketsCorrect == Spec => Abstract!SafeSpec
<1>1. Init => Abstract!Init
  <2> SUFFICES ASSUME Init PROVE Abstract!Init
    OBVIOUS
  <2>1. got = <<>> /\ ~torn
    BY DEF Init, torn
  <2>2. [k \in DOMAIN got |-> Whole(got[k])] = <<>>
    BY <2>1
  <2>3. (~torn) = TRUE
    BY <2>1
  <2> QED
    BY <2>2, <2>3 DEF Abstract!Init
<1>2. ReadInv /\ [Next]_vars => [Abstract!Next]_Abstract!streamVars
  BY StreamStep
<1> QED
  BY <1>1, <1>2, ReadAlways, PTL DEF Spec, Abstract!SafeSpec
=============================================================================
