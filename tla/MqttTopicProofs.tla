-------------------------- MODULE MqttTopicProofs --------------------------
(***************************************************************************)
(* Theorems about MqttTopic, for filters and names of any length over any  *)
(* alphabet.                                                               *)
(***************************************************************************)
EXTENDS MqttTopic, FiniteSetTheorems, WellFoundedInduction, SequenceTheorems, TLAPS

-----------------------------------------------------------------------------
(* Cuts and levels.                                                        *)

\* The cuts before i, and how many they are.
Before(s, i) == {k \in Cuts(s) : k < i}
Rank(s, i) == Cardinality(Before(s, i))

\* The cursor c is in the level that begins at the cut i, or at its end.
Within(s, i, c) == i < c /\ \A k \in Cuts(s) : k <= i \/ k >= c

Less == {p \in Nat \X Nat : p[1] < p[2]}

\* Every nonempty set of naturals has a least element.
LEMMA LeastNat ==
    ASSUME NEW T, T \subseteq Nat, T # {}
    PROVE  \E n \in T : \A m \in T : n <= m
<1>1. IsWellFoundedOn(Less, Nat)
  BY NatLessThanWellFounded DEF OpToRel, Less
<1>2. PICK n \in T : \A m \in T : ~(<<m, n>> \in Less)
  BY <1>1, WFMin
<1>3. \A m \in Nat : m < n => <<m, n>> \in Less
  BY DEF Less
<1>4. \A m \in T : m \in Nat /\ ~(m < n)
  BY <1>2, <1>3, Zenon
<1>5. n \in Nat /\ \A m \in T : n <= m
  BY <1>4
<1> QED
  BY <1>5

\* The cuts of a string are finitely many positions.
LEMMA CutsType ==
    ASSUME NEW C, NEW s \in Seq(C)
    PROVE  /\ Cuts(s) \subseteq Nat /\ IsFiniteSet(Cuts(s))
           /\ \A i \in Cuts(s) : i <= Len(s) + 1
           /\ 0 \in Cuts(s) /\ Len(s) + 1 \in Cuts(s)
           /\ \A i \in 1..Len(s) : i \in Cuts(s) <=> s[i] = "/"
<1>1. Len(s) \in Nat
  OBVIOUS
<1>2. Cuts(s) \subseteq 0 .. Len(s) + 1
  BY <1>1 DEF Cuts
<1>3. IsFiniteSet(0 .. Len(s) + 1)
  BY <1>1, FS_Interval
<1>4. IsFiniteSet(Cuts(s))
  BY <1>2, <1>3, FS_Subset
<1>5. 0 \in Cuts(s) /\ Len(s) + 1 \in Cuts(s) /\ \A i \in 1..Len(s) : i \in Cuts(s) <=> s[i] = "/"
  BY <1>1 DEF Cuts
<1> QED
  BY <1>1, <1>2, <1>4, <1>5

\* Ranks are naturals.
LEMMA RankType ==
    ASSUME NEW C, NEW s \in Seq(C), NEW i
    PROVE  IsFiniteSet(Before(s, i)) /\ Rank(s, i) \in Nat
<1>1. IsFiniteSet(Cuts(s)) /\ Before(s, i) \subseteq Cuts(s)
  BY CutsType DEF Before
<1>2. IsFiniteSet(Before(s, i))
  BY <1>1, FS_Subset
<1> QED
  BY <1>2, FS_CardinalityType DEF Rank

\* A later cut has a greater rank.
LEMMA RankGrows ==
    ASSUME NEW C, NEW s \in Seq(C), NEW i \in Cuts(s), NEW j \in Cuts(s), i < j
    PROVE  Rank(s, i) < Rank(s, j)
<1>1. i \in Nat /\ j \in Nat /\ Cuts(s) \subseteq Nat
  BY CutsType
<1>2. IsFiniteSet(Before(s, i)) /\ IsFiniteSet(Before(s, j)) /\ Rank(s, i) \in Nat /\ Rank(s, j) \in Nat
  BY RankType
<1>3. i \notin Before(s, i) /\ Before(s, i) \cup {i} \subseteq Before(s, j)
  BY <1>1 DEF Before
<1>4. Cardinality(Before(s, i) \cup {i}) = Rank(s, i) + 1
  BY <1>2, <1>3, FS_AddElement DEF Rank
<1>5. Cardinality(Before(s, i) \cup {i}) <= Rank(s, j)
  BY <1>2, <1>3, FS_Subset DEF Rank
<1> QED
  BY <1>2, <1>4, <1>5

\* A cut is found by its rank.
LEMMA CutIs ==
    ASSUME NEW C, NEW s \in Seq(C), NEW i \in Cuts(s)
    PROVE  /\ Cut(s, Rank(s, i)) = i
           /\ \A j \in Cuts(s) : Rank(s, j) = Rank(s, i) => j = i
<1>1. ASSUME NEW j \in Cuts(s), Rank(s, j) = Rank(s, i) PROVE j = i
  <2>1. i \in Nat /\ j \in Nat /\ Rank(s, i) \in Nat /\ Rank(s, j) \in Nat
    BY CutsType, RankType
  <2>2. ~(i < j) /\ ~(j < i)
    <3>1. i < j => Rank(s, i) < Rank(s, j)
      BY RankGrows
    <3>2. j < i => Rank(s, j) < Rank(s, i)
      BY RankGrows
    <3> QED
      BY <1>1, <2>1, <3>1, <3>2
  <2> QED
    BY <2>1, <2>2
<1>2. Cut(s, Rank(s, i)) = CHOOSE j \in Cuts(s) : Rank(s, j) = Rank(s, i)
  BY DEF Cut, Rank, Before
<1> QED
  BY <1>1, <1>2

\* The next cut has the next rank.
LEMMA RankNext ==
    ASSUME NEW C, NEW s \in Seq(C), NEW i \in Cuts(s), NEW j \in Cuts(s), Within(s, i, j)
    PROVE  Rank(s, j) = Rank(s, i) + 1
<1>1. i \in Nat /\ j \in Nat /\ Cuts(s) \subseteq Nat
  BY CutsType
<1>2. i \notin Before(s, i) /\ Before(s, j) = Before(s, i) \cup {i}
  BY <1>1 DEF Before, Within
<1>3. IsFiniteSet(Before(s, i))
  BY RankType
<1> QED
  BY <1>2, <1>3, FS_AddElement DEF Rank

\* The last cut has the depth for its rank, the first one zero.
LEMMA RankEnds ==
    ASSUME NEW C, NEW s \in Seq(C)
    PROVE  Rank(s, 0) = 0 /\ Rank(s, Len(s) + 1) = Depth(s) /\ Depth(s) \in Nat
<1>1. Cuts(s) \subseteq Nat /\ \A i \in Cuts(s) : i <= Len(s) + 1
  BY CutsType
<1>2. Before(s, 0) = {}
  BY <1>1 DEF Before
<1>3. Rank(s, 0) = 0
  BY <1>2, FS_EmptySet DEF Rank
<1> DEFINE e == Len(s) + 1
<1>4. e \in Cuts(s) /\ e \in Nat
  BY CutsType
<1>5. e \notin Before(s, e) /\ Cuts(s) = Before(s, e) \cup {e}
  BY <1>1, <1>4 DEF Before
<1>6. IsFiniteSet(Before(s, e)) /\ Rank(s, e) \in Nat
  BY RankType
<1> HIDE DEF e
<1>7. Cardinality(Cuts(s)) = Rank(s, e) + 1
  BY <1>5, <1>6, FS_AddElement DEF Rank
<1>8. Depth(s) = Rank(s, e) /\ Depth(s) \in Nat
  BY <1>6, <1>7 DEF Depth
<1> QED
  BY <1>3, <1>8 DEF e

\* There is a next cut.
LEMMA NextCut ==
    ASSUME NEW C, NEW s \in Seq(C), NEW i \in Cuts(s), NEW c \in Nat, Within(s, i, c), c <= Len(s) + 1
    PROVE  \E j \in Cuts(s) : Within(s, i, j) /\ c <= j
<1>1. Cuts(s) \subseteq Nat /\ Len(s) + 1 \in Cuts(s) /\ i \in Nat /\ Len(s) \in Nat
  BY CutsType
<1> DEFINE T == {k \in Cuts(s) : i < k}
<1>2. T \subseteq Nat /\ Len(s) + 1 \in T
  BY <1>1 DEF Within
<1>3. PICK j \in T : \A k \in T : j <= k
  <2> HIDE DEF T
  <2> QED
    BY <1>2, LeastNat
<1>4. Within(s, i, j) /\ c <= j
  BY <1>1, <1>3 DEF Within
<1> QED
  BY <1>3, <1>4

\* The level between two neighbouring cuts.
LEMMA NthIs ==
    ASSUME NEW C, NEW s \in Seq(C), NEW i \in Cuts(s), NEW j \in Cuts(s), Within(s, i, j),
           NEW n, n = Rank(s, i) + 1
    PROVE  /\ n \in 1..Depth(s) /\ j - i \in Nat
           /\ Nth(s, n) \in Seq(C) /\ Len(Nth(s, n)) = j - i - 1
           /\ \A k \in 1 .. j - i - 1 : Nth(s, n)[k] = s[i + k] /\ i + k \in 1..Len(s)
<1>1. i \in Nat /\ j \in Nat /\ i < j /\ j <= Len(s) + 1 /\ Len(s) \in Nat
  BY CutsType DEF Within
<1>2. Rank(s, j) = n /\ Rank(s, i) \in Nat /\ n - 1 = Rank(s, i)
  BY RankNext, RankType
<1>3. Cut(s, n - 1) = i /\ Cut(s, n) = j
  BY <1>2, CutIs
<1>4. n <= Depth(s)
  <2>1. Len(s) + 1 \in Cuts(s) /\ Rank(s, Len(s) + 1) = Depth(s) /\ Depth(s) \in Nat
    BY CutsType, RankEnds
  <2>2. CASE j = Len(s) + 1
    BY <1>2, <2>1, <2>2
  <2>3. CASE j # Len(s) + 1
    <3>1. j < Len(s) + 1
      BY <1>1, <2>3
    <3>2. Rank(s, j) < Rank(s, Len(s) + 1)
      BY <2>1, <3>1, RankGrows
    <3> QED
      BY <1>2, <2>1, <3>2
  <2> QED
    BY <2>2, <2>3
<1>5. Nth(s, n) = SubSeq(s, i + 1, j - 1)
  BY <1>3 DEF Nth
<1>6. /\ SubSeq(s, i + 1, j - 1) \in Seq(C) /\ Len(SubSeq(s, i + 1, j - 1)) = j - i - 1
      /\ \A k \in 1 .. j - i - 1 : SubSeq(s, i + 1, j - 1)[k] = s[i + k]
  BY <1>1
<1>7. \A k \in 1 .. j - i - 1 : i + k \in 1..Len(s)
  BY <1>1
<1>8. n \in 1..Depth(s) /\ j - i \in Nat
  BY <1>1, <1>2, <1>4, RankEnds
<1> HIDE DEF Nth
<1>9. /\ Nth(s, n) \in Seq(C) /\ Len(Nth(s, n)) = j - i - 1
      /\ \A k \in 1 .. j - i - 1 : Nth(s, n)[k] = s[i + k]
  BY <1>5, <1>6, Zenon
<1> QED
  BY <1>7, <1>8, <1>9, Zenon

-----------------------------------------------------------------------------
(* Filters and names.                                                      *)

FilterChars == Letters \cup {"/", "+", "#"}
NameChars == Letters \cup {"/"}
Filters == {f \in Seq(FilterChars) : ValidFilter(f)}
Names == Seq(NameChars)

\* The n-th level of the filter f covers the n-th level of the name s.
Covers(f, s, n) == Nth(f, n) = <<"+">> \/ Nth(f, n) = Nth(s, n)

\* As many levels of f as of s come before the cuts F and S, and cover them.
Covered(f, s, F, S) == Rank(f, F) = Rank(s, S) /\ \A n \in 1 .. Rank(f, F) : Covers(f, s, n)

\* From the cuts F and S to the cursors i and j both strings read the same.
Same(f, s, F, S, i, j) == i - F = j - S /\ \A k \in 1 .. i - F - 1 : f[F + k] = s[S + k]

\* From the cut F to the cursor i there is a +, and j is at a cut.
Plus(f, s, F, i, j) == i = F + 2 /\ f[F + 1] = "+" /\ j \in Cuts(s)

\* A level and its wildcards, from one cut to the next.
LEMMA CoversIs ==
    ASSUME NEW f \in Filters, NEW s \in Names,
           NEW F \in Cuts(f), NEW G \in Cuts(f), Within(f, F, G),
           NEW S \in Cuts(s), NEW T \in Cuts(s), Within(s, S, T),
           NEW n, n = Rank(f, F) + 1, n = Rank(s, S) + 1
    PROVE  Covers(f, s, n) <=> Plus(f, s, F, G, T) \/ Same(f, s, F, S, G, T)
<1> DEFINE t == Nth(f, n)
           v == Nth(s, n)
<1>1. f \in Seq(FilterChars) /\ s \in Seq(NameChars) /\ F \in Nat /\ G \in Nat /\ S \in Nat /\ T \in Nat
  BY CutsType DEF Filters, Names
<1>2. t \in Seq(FilterChars) /\ Len(t) = G - F - 1 /\ \A k \in 1 .. G - F - 1 : t[k] = f[F + k]
  <2>1. f \in Seq(FilterChars)
    BY <1>1
  <2> QED
    BY <2>1, NthIs
<1>3. v \in Seq(NameChars) /\ Len(v) = T - S - 1 /\ \A k \in 1 .. T - S - 1 : v[k] = s[S + k]
  <2>1. s \in Seq(NameChars)
    BY <1>1
  <2> QED
    BY <2>1, NthIs
<1> HIDE DEF t, v
<1>4. F < G /\ S < T
  BY DEF Within
<1>5. t = <<"+">> <=> G = F + 2 /\ f[F + 1] = "+"
  <2>1. t = <<"+">> => Len(t) = 1 /\ t[1] = "+"
    OBVIOUS
  <2>2. ASSUME Len(t) = 1, t[1] = "+" PROVE t = <<"+">>
    <3>1. <<"+">> \in Seq(FilterChars) /\ Len(<<"+">>) = 1 /\ \A k \in 1..1 : t[k] = <<"+">>[k]
      BY <2>2 DEF FilterChars
    <3> QED
      BY <1>2, <2>2, <3>1, SeqEqual
  <2>3. Len(t) = 1 <=> G = F + 2
    BY <1>1, <1>2
  <2>4. G = F + 2 => t[1] = f[F + 1]
    BY <1>1, <1>2
  <2> QED
    BY <2>1, <2>2, <2>3, <2>4
<1>6. t = v <=> Same(f, s, F, S, G, T)
  <2>1. G - F - 1 \in Nat /\ T - S - 1 \in Nat /\ (G - F - 1 = T - S - 1 <=> G - F = T - S)
    BY <1>1, <1>4
  <2>2. t = v => Same(f, s, F, S, G, T)
    BY <1>2, <1>3, <2>1 DEF Same
  <2>3. ASSUME Same(f, s, F, S, G, T) PROVE t = v
    <3>1. Len(t) = Len(v) /\ \A k \in 1..Len(t) : t[k] = v[k]
      BY <1>2, <1>3, <2>1, <2>3 DEF Same
    <3> QED
      BY <1>2, <1>3, <3>1, SeqEqual
  <2> QED
    BY <2>2, <2>3
<1> QED
  BY <1>5, <1>6 DEF Covers, Plus, t, v

\* A level that covers another is one more level covered.
LEMMA OneMore ==
    ASSUME NEW f \in Filters, NEW s \in Names,
           NEW F \in Cuts(f), NEW G \in Cuts(f), Within(f, F, G),
           NEW S \in Cuts(s), NEW T \in Cuts(s), Within(s, S, T),
           Covered(f, s, F, S),
           Plus(f, s, F, G, T) \/ Same(f, s, F, S, G, T)
    PROVE  Covered(f, s, G, T)
<1>1. f \in Seq(FilterChars) /\ s \in Seq(NameChars)
  BY DEF Filters, Names
<1>2. Rank(f, G) = Rank(f, F) + 1 /\ Rank(s, T) = Rank(s, S) + 1 /\ Rank(f, F) \in Nat
  BY <1>1, RankNext, RankType
<1>3. Covers(f, s, Rank(f, F) + 1)
  BY CoversIs DEF Covered
<1> QED
  BY <1>2, <1>3 DEF Covered

\* In a well-formed filter a wildcard is alone in its level, and # in the last.
LEMMA Wildcard ==
    ASSUME NEW f \in Filters, NEW F \in Cuts(f), NEW c \in 1..Len(f), Within(f, F, c),
           f[c] \in {"+", "#"}
    PROVE  /\ c = F + 1 /\ c + 1 \in Cuts(f) /\ Within(f, F, c + 1)
           /\ Nth(f, Rank(f, F) + 1) = <<f[c]>>
           /\ f[c] = "#" => c = Len(f) /\ Rank(f, F) + 1 = Depth(f)
<1> DEFINE n == Rank(f, F) + 1
           t == Nth(f, n)
<1>1. f \in Seq(FilterChars) /\ ValidFilter(f) /\ Len(f) \in Nat /\ F \in Nat /\ c \in Nat
  BY CutsType DEF Filters
<1>2. PICK G \in Cuts(f) : Within(f, F, G) /\ c <= G
  BY <1>1, NextCut
<1>3. c # G /\ G \in Nat
  <2>1. c \notin Cuts(f)
    BY <1>1, CutsType
  <2> QED
    BY <1>1, <1>2, <2>1, CutsType
<1>4. n \in 1..Depth(f) /\ t \in Seq(FilterChars) /\ Len(t) = G - F - 1 /\ \A k \in 1 .. G - F - 1 : t[k] = f[F + k]
  BY <1>1, <1>2, NthIs
<1>5. c - F \in 1 .. G - F - 1 /\ F + (c - F) = c /\ F < c
  BY <1>1, <1>2, <1>3 DEF Within
<1>6. t[c - F] = f[c] /\ c - F \in 1..Len(t)
  BY <1>4, <1>5
<1>7. t = <<f[c]>> /\ (f[c] = "#" => n = Depth(f))
  <2> HIDE DEF t, n
  <2>1. /\ (\E k \in 1..Len(t) : t[k] = "+") => t = <<"+">>
        /\ (\E k \in 1..Len(t) : t[k] = "#") => t = <<"#">> /\ n = Depth(f)
    BY <1>1, <1>4 DEF ValidFilter, t
  <2> QED
    BY <1>6, <2>1
<1> HIDE DEF t, n
<1>8. G - F - 1 = 1
  <2>1. Len(t) = 1
    BY <1>7
  <2> QED
    BY <1>4, <2>1, Zenon
<1>9. c = F + 1 /\ G = c + 1
  <2>1. c - F \in 1..1
    BY <1>5, <1>8, Zenon
  <2> QED
    BY <1>1, <1>3, <1>8, <2>1
<1>10. f[c] = "#" => c = Len(f)
  <2> SUFFICES ASSUME f[c] = "#" PROVE c = Len(f)
    OBVIOUS
  <2>1. Rank(f, G) = Rank(f, Len(f) + 1) /\ Len(f) + 1 \in Cuts(f)
    BY <1>1, <1>2, <1>7, RankNext, RankEnds, CutsType DEF n
  <2>2. G = Len(f) + 1
    BY <1>1, <2>1, CutIs
  <2> QED
    BY <1>1, <1>9, <2>2
<1> QED
  BY <1>2, <1>7, <1>9, <1>10 DEF t, n

-----------------------------------------------------------------------------
(* The positions the scan reaches.                                         *)

\* The levels before the cursors i and j cover each other one by one, and what
\* is read of the level they are in is the same, or a + and the whole level.
Reached(f, s, F, S, i, j) ==
    /\ Within(f, F, i) /\ Within(s, S, j)
    /\ Covered(f, s, F, S)
    /\ Same(f, s, F, S, i, j) \/ Plus(f, s, F, i, j)
    /\ \A k \in 1 .. i - 1 : f[k] # "#"

\* The condition of the loop.
Goes(f, s, i, j) ==
    /\ i <= Len(f) /\ j <= Len(s)
    /\ s[j] = "/" => f[i] = "/"
    /\ f[i] \in {"+", "#", s[j]}

\* The last character before the next separator.
LevelEnd(s, j, k) ==
    /\ k \in j..Len(s)
    /\ \A i \in j + 1 .. k : s[i] # "/"
    /\ k = Len(s) \/ s[k + 1] = "/"

\* A # covers the rest of the name.
LEMMA HashStep ==
    ASSUME NEW f \in Filters, NEW s \in Names, NEW F \in Cuts(f), NEW S \in Cuts(s),
           NEW i \in 1..Len(f), NEW j \in 1 .. Len(s) + 1,
           Reached(f, s, F, S, i, j), f[i] = "#"
    PROVE  i = Len(f) /\ Matches(f, s)
<1>1. f \in Seq(FilterChars) /\ s \in Seq(NameChars)
  BY DEF Filters, Names
<1>2. i = Len(f) /\ Rank(f, F) + 1 = Depth(f) /\ Nth(f, Rank(f, F) + 1) = <<"#">>
  BY Wildcard DEF Reached
<1>3. Rank(f, F) \in Nat /\ Rank(s, S) \in Nat /\ Rank(f, F) = Rank(s, S) /\ \A n \in 1 .. Rank(f, F) : Covers(f, s, n)
  BY <1>1, RankType DEF Reached, Covered
<1>4. Depth(s) \in Nat /\ Rank(s, S) <= Depth(s)
  <2>1. Len(s) + 1 \in Cuts(s) /\ S <= Len(s) + 1 /\ S \in Nat /\ Len(s) \in Nat
    BY <1>1, CutsType
  <2>2. Rank(s, Len(s) + 1) = Depth(s) /\ Depth(s) \in Nat
    BY <1>1, RankEnds
  <2>3. S < Len(s) + 1 => Rank(s, S) < Rank(s, Len(s) + 1)
    BY <1>1, <2>1, RankGrows
  <2> QED
    BY <1>3, <2>1, <2>2, <2>3
<1>5. Nth(f, Depth(f)) = <<"#">> /\ Depth(f) - 1 = Rank(f, F)
  BY <1>2, <1>3
<1>6. Depth(s) >= Depth(f) - 1 /\ \A n \in 1 .. Depth(f) - 1 : Nth(f, n) = <<"+">> \/ Nth(f, n) = Nth(s, n)
  BY <1>3, <1>4, <1>5 DEF Covers
<1> QED
  BY <1>2, <1>5, <1>6 DEF Matches

\* A + moves to the end of the level of the name.
LEMMA PlusStep ==
    ASSUME NEW f \in Filters, NEW s \in Names, NEW F \in Cuts(f), NEW S \in Cuts(s),
           NEW i \in 1..Len(f), NEW j \in 1..Len(s), NEW k, LevelEnd(s, j, k),
           Reached(f, s, F, S, i, j), f[i] = "+", s[j] # "/"
    PROVE  Reached(f, s, F, S, i + 1, k + 1)
<1>1. f \in Seq(FilterChars) /\ s \in Seq(NameChars)
  BY DEF Filters, Names
<1>2. F \in Nat /\ S \in Nat /\ i \in Nat /\ j \in Nat /\ Len(s) \in Nat /\ Cuts(s) \subseteq Nat
  BY <1>1, CutsType
<1>3. i = F + 1 /\ Within(f, F, i + 1)
  BY Wildcard DEF Reached
<1>4. k \in Nat /\ k + 1 \in Cuts(s)
  BY <1>1, <1>2, CutsType DEF LevelEnd
<1>5. Within(s, S, k + 1)
  <2>1. S < j /\ j <= k /\ \A c \in Cuts(s) : c <= S \/ c >= j
    BY <1>2 DEF Reached, Within, LevelEnd
  <2>2. \A c \in j..k : c \notin Cuts(s)
    <3>1. \A c \in j..k : c \in 1..Len(s) /\ s[c] # "/"
      BY <1>2 DEF LevelEnd
    <3> QED
      BY <1>1, <3>1, CutsType
  <2> QED
    BY <1>2, <1>4, <2>1, <2>2 DEF Within
<1>6. Plus(f, s, F, i + 1, k + 1)
  BY <1>2, <1>3, <1>4 DEF Plus
<1>7. \A c \in 1 .. i + 1 - 1 : f[c] # "#"
  BY <1>2 DEF Reached
<1> QED
  BY <1>3, <1>5, <1>6, <1>7 DEF Reached

\* A separator in both strings ends a level of both.
LEMMA SlashStep ==
    ASSUME NEW f \in Filters, NEW s \in Names, NEW F \in Cuts(f), NEW S \in Cuts(s),
           NEW i \in 1..Len(f), NEW j \in 1..Len(s),
           Reached(f, s, F, S, i, j), f[i] = "/", s[j] = "/"
    PROVE  i \in Cuts(f) /\ j \in Cuts(s) /\ Reached(f, s, i, j, i + 1, j + 1)
<1>1. f \in Seq(FilterChars) /\ s \in Seq(NameChars)
  BY DEF Filters, Names
<1>2. i \in Nat /\ j \in Nat /\ Cuts(f) \subseteq Nat /\ Cuts(s) \subseteq Nat
  BY <1>1, CutsType
<1>3. i \in Cuts(f) /\ j \in Cuts(s)
  BY <1>1, CutsType
<1>4. Covered(f, s, i, j)
  BY <1>3, OneMore DEF Reached
<1>5. Within(f, i, i + 1) /\ Within(s, j, j + 1) /\ Same(f, s, i, j, i + 1, j + 1)
  BY <1>2 DEF Within, Same
<1>6. \A c \in 1 .. i + 1 - 1 : f[c] # "#"
  BY <1>2 DEF Reached
<1> QED
  BY <1>3, <1>4, <1>5, <1>6 DEF Reached

\* Any other character is the same in both strings and stays in the level.
LEMMA LetterStep ==
    ASSUME NEW f \in Filters, NEW s \in Names, NEW F \in Cuts(f), NEW S \in Cuts(s),
           NEW i \in 1..Len(f), NEW j \in 1..Len(s),
           Reached(f, s, F, S, i, j), f[i] = s[j], f[i] \notin {"/", "#"}
    PROVE  Reached(f, s, F, S, i + 1, j + 1)
<1>1. f \in Seq(FilterChars) /\ s \in Seq(NameChars)
  BY DEF Filters, Names
<1>2. i \in Nat /\ j \in Nat /\ F \in Nat /\ S \in Nat /\ Cuts(f) \subseteq Nat /\ Cuts(s) \subseteq Nat
  BY <1>1, CutsType
<1>3. i \notin Cuts(f) /\ j \notin Cuts(s)
  BY <1>1, CutsType
<1>4. Within(f, F, i + 1) /\ Within(s, S, j + 1)
  BY <1>2, <1>3 DEF Reached, Within
<1>5. Same(f, s, F, S, i + 1, j + 1)
  <2>1. F < i /\ S < j /\ i - F = j - S /\ \A k \in 1 .. i - F - 1 : f[F + k] = s[S + k]
    BY <1>3 DEF Reached, Same, Plus, Within
  <2>2. f[F + (i - F)] = s[S + (i - F)]
    BY <1>2, <2>1
  <2>3. \A k \in 1 .. (i + 1) - F - 1 : k \in 1 .. i - F - 1 \/ k = i - F
    BY <1>2, <2>1
  <2>4. (i + 1) - F = (j + 1) - S
    BY <1>2, <2>1
  <2>5. \A k \in 1 .. (i + 1) - F - 1 : f[F + k] = s[S + k]
    BY <2>1, <2>2, <2>3, Zenon
  <2> QED
    BY <2>4, <2>5, Zenon DEF Same
<1>6. \A c \in 1 .. i + 1 - 1 : f[c] # "#"
  BY <1>2 DEF Reached
<1> QED
  BY <1>4, <1>5, <1>6 DEF Reached

\* At the end of both strings every level is covered.
LEMMA BothEnd ==
    ASSUME NEW f \in Filters, NEW s \in Names, NEW F \in Cuts(f), NEW S \in Cuts(s),
           Reached(f, s, F, S, Len(f) + 1, Len(s) + 1)
    PROVE  Matches(f, s)
<1> DEFINE G == Len(f) + 1
           T == Len(s) + 1
<1>1. f \in Seq(FilterChars) /\ s \in Seq(NameChars)
  BY DEF Filters, Names
<1>2. G \in Cuts(f) /\ T \in Cuts(s) /\ F \in Nat /\ Len(f) \in Nat /\ Within(f, F, G)
  BY <1>1, CutsType DEF Reached
<1>3. Covered(f, s, G, T)
  BY <1>2, OneMore DEF Reached
<1>4. Depth(f) = Depth(s) /\ \A n \in 1..Depth(f) : Covers(f, s, n)
  BY <1>1, <1>3, RankEnds DEF Covered
<1>5. Nth(f, Depth(f)) # <<"#">>
  <2> DEFINE t == Nth(f, Depth(f))
  <2>1. Rank(f, F) + 1 = Depth(f)
    BY <1>1, <1>2, RankNext, RankEnds
  <2>2. Len(t) = G - F - 1 /\ \A k \in 1 .. G - F - 1 : t[k] = f[F + k]
    <3>1. f \in Seq(FilterChars) /\ G \in Cuts(f) /\ Within(f, F, G)
      BY <1>1, <1>2
    <3> HIDE DEF G
    <3> QED
      BY <2>1, <3>1, NthIs
  <2>3. t = <<"#">> => Len(t) = 1 /\ t[1] = "#"
    OBVIOUS
  <2> HIDE DEF t
  <2>4. G - F - 1 = 1 => F + 1 \in 1 .. G - 1 /\ 1 \in 1 .. G - F - 1
    BY <1>2
  <2> QED
    BY <2>2, <2>3, <2>4 DEF Reached, t
<1> QED
  BY <1>4, <1>5 DEF Matches, Covers

-----------------------------------------------------------------------------
(* Where the scan stops on an ordinary name its filter matches.            *)

\* Cursors at the cuts of a level that is covered stop only at both ends.
LEMMA StopAtCuts ==
    ASSUME NEW f \in Filters, NEW s \in Names, NEW G \in Cuts(f), NEW T \in Cuts(s),
           G > 0, T > 0, Rank(f, G) = Rank(s, T),
           Nth(f, Depth(f)) = <<"#">> => Rank(f, G) < Depth(f),
           Matches(f, s), Ordinary(f, s), ~Goes(f, s, G, T)
    PROVE  G = Len(f) + 1 /\ T = Len(s) + 1
<1>1. f \in Seq(FilterChars) /\ s \in Seq(NameChars)
  BY DEF Filters, Names
<1>2. G \in Nat /\ T \in Nat /\ G <= Len(f) + 1 /\ T <= Len(s) + 1 /\ Len(f) \in Nat /\ Len(s) \in Nat
  BY <1>1, CutsType
<1>3. /\ Len(f) + 1 \in Cuts(f) /\ Rank(f, Len(f) + 1) = Depth(f) /\ Depth(f) \in Nat
      /\ Len(s) + 1 \in Cuts(s) /\ Rank(s, Len(s) + 1) = Depth(s) /\ Depth(s) \in Nat
  BY <1>1, CutsType, RankEnds
<1>4. Rank(f, G) \in Nat /\ Rank(s, T) \in Nat
  BY <1>1, RankType
<1>5. G = Len(f) + 1 \/ Rank(f, G) < Depth(f)
  <2>1. G < Len(f) + 1 => Rank(f, G) < Rank(f, Len(f) + 1)
    BY <1>1, <1>3, RankGrows
  <2> QED
    BY <1>2, <1>3, <2>1
<1>6. T = Len(s) + 1 \/ Rank(s, T) < Depth(s)
  <2>1. T < Len(s) + 1 => Rank(s, T) < Rank(s, Len(s) + 1)
    BY <1>1, <1>3, RankGrows
  <2> QED
    BY <1>2, <1>3, <2>1
<1>7. G = Len(f) + 1 \/ T = Len(s) + 1
  <2> SUFFICES ASSUME G # Len(f) + 1, T # Len(s) + 1 PROVE Goes(f, s, G, T)
    OBVIOUS
  <2>1. G \in 1..Len(f) /\ T \in 1..Len(s)
    BY <1>2
  <2>2. f[G] = "/" /\ s[T] = "/"
    BY <1>1, <2>1, CutsType
  <2> QED
    BY <2>1, <2>2 DEF Goes
<1>8. \/ Nth(f, Depth(f)) = <<"#">> /\ Depth(s) >= Depth(f)
      \/ Nth(f, Depth(f)) # <<"#">> /\ Depth(s) = Depth(f)
  BY DEF Matches, Ordinary
<1> QED
  BY <1>3, <1>4, <1>5, <1>6, <1>7, <1>8

\* Cursors before the last # do not stop.
LEMMA GoesAtHash ==
    ASSUME NEW f \in Filters, NEW s \in Names, NEW F \in Cuts(f), NEW S \in Cuts(s),
           NEW i \in 1 .. Len(f) + 1, NEW j \in 1 .. Len(s) + 1,
           Reached(f, s, F, S, i, j), Ordinary(f, s),
           Nth(f, Depth(f)) = <<"#">>, Rank(f, F) + 1 = Depth(f)
    PROVE  Goes(f, s, i, j)
<1>1. f \in Seq(FilterChars) /\ s \in Seq(NameChars)
  BY DEF Filters, Names
<1>2. F \in Nat /\ S \in Nat /\ i \in Nat /\ j \in Nat /\ Len(f) \in Nat /\ Len(s) \in Nat
  BY <1>1, CutsType
<1>3. PICK G \in Cuts(f) : Within(f, F, G) /\ i <= G
  BY <1>1, <1>2, NextCut DEF Reached
<1>4. PICK T \in Cuts(s) : Within(s, S, T) /\ j <= T
  BY <1>1, <1>2, NextCut DEF Reached
<1>5. G \in Nat /\ T \in Nat /\ G <= Len(f) + 1 /\ T <= Len(s) + 1
  BY <1>1, <1>3, <1>4, CutsType
<1>6. G = F + 2 /\ f[F + 1] = "#"
  <2> DEFINE n == Rank(f, F) + 1
             t == Nth(f, n)
  <2>1. f \in Seq(FilterChars)
    BY <1>1
  <2>2. Len(t) = G - F - 1 /\ \A k \in 1 .. G - F - 1 : t[k] = f[F + k]
    BY <1>3, <2>1, NthIs
  <2>3. t = <<"#">>
    OBVIOUS
  <2> HIDE DEF t
  <2>4. Len(t) = 1 /\ t[1] = "#"
    BY <2>3
  <2>5. G = F + 2
    <3>1. G - F - 1 = 1
      BY <2>2, <2>4, Zenon
    <3> QED
      BY <1>2, <1>5, <3>1
  <2>6. 1 \in 1 .. G - F - 1
    BY <1>2, <2>5
  <2> QED
    BY <2>2, <2>4, <2>5, <2>6, Zenon
<1>7. i = F + 1
  <2>1. F + 1 \notin 1 .. i - 1
    BY <1>6 DEF Reached
  <2> QED
    BY <1>2, <2>1 DEF Reached, Within
<1>8. j = S + 1
  BY <1>2, <1>7 DEF Reached, Same, Plus
<1>9. j < T
  <2> DEFINE n == Rank(s, S) + 1
             v == Nth(s, n)
  <2>1. s \in Seq(NameChars)
    BY <1>1
  <2>2. n \in 1..Depth(s) /\ v \in Seq(NameChars) /\ Len(v) = T - S - 1
    BY <1>4, <2>1, NthIs
  <2>3. v # <<>>
    BY <2>2 DEF Ordinary
  <2>4. Len(v) # 0
    BY <2>2, <2>3
  <2> HIDE DEF v
  <2> QED
    BY <1>2, <1>4, <1>5, <1>8, <2>2, <2>4 DEF Within
<1>10. j \in 1..Len(s) /\ s[j] # "/"
  <2>1. j \in 1..Len(s) /\ j \notin Cuts(s)
    BY <1>2, <1>4, <1>5, <1>8, <1>9 DEF Within
  <2> QED
    BY <1>1, <2>1, CutsType
<1> QED
  BY <1>2, <1>5, <1>6, <1>7, <1>10 DEF Goes

\* Cursors inside a covered level do not stop.
LEMMA GoesInside ==
    ASSUME NEW f \in Filters, NEW s \in Names, NEW F \in Cuts(f), NEW S \in Cuts(s),
           NEW i \in 1 .. Len(f) + 1, NEW j \in 1 .. Len(s) + 1,
           Reached(f, s, F, S, i, j), Ordinary(f, s), Covers(f, s, Rank(f, F) + 1),
           NEW G \in Cuts(f), Within(f, F, G), i <= G,
           NEW T \in Cuts(s), Within(s, S, T), j <= T
    PROVE  Goes(f, s, i, j) \/ (i = G /\ j = T)
<1>1. f \in Seq(FilterChars) /\ s \in Seq(NameChars)
  BY DEF Filters, Names
<1>2. /\ F \in Nat /\ S \in Nat /\ i \in Nat /\ j \in Nat /\ Len(f) \in Nat /\ Len(s) \in Nat
      /\ G \in Nat /\ T \in Nat /\ G <= Len(f) + 1 /\ T <= Len(s) + 1
  BY <1>1, CutsType
<1>3. F < i /\ S < j
  BY DEF Reached, Within
<1>4. j \in Cuts(s) => j = T
  BY <1>2, <1>3 DEF Within
<1>5. j < T => j \in 1..Len(s) /\ s[j] # "/"
  <2> SUFFICES ASSUME j < T PROVE j \in 1..Len(s) /\ s[j] # "/"
    OBVIOUS
  <2>1. j \in 1..Len(s) /\ j \notin Cuts(s)
    BY <1>2, <1>4
  <2> QED
    BY <1>1, <2>1, CutsType
<1>6. \A k \in 1..Len(s) : s[k] # "+"
  BY <1>1, LettersAssumption DEF NameChars
<1>7. S + 1 < T
  <2> DEFINE n == Rank(s, S) + 1
             v == Nth(s, n)
  <2>1. s \in Seq(NameChars)
    BY <1>1
  <2>2. n \in 1..Depth(s) /\ v \in Seq(NameChars) /\ Len(v) = T - S - 1
    BY <2>1, NthIs
  <2>3. v # <<>>
    BY <2>2 DEF Ordinary
  <2>4. Len(v) # 0
    BY <2>2, <2>3
  <2>5. S < T
    BY DEF Within
  <2> HIDE DEF v
  <2> QED
    BY <1>2, <2>2, <2>4, <2>5
<1>8. S + 1 \in 1..Len(s) /\ s[S + 1] # "+"
  BY <1>2, <1>6, <1>7
<1>9. Plus(f, s, F, G, T) \/ Same(f, s, F, S, G, T)
  BY CoversIs DEF Reached, Covered
<1>10. CASE Plus(f, s, F, G, T)
  <2>1. G = F + 2 /\ f[F + 1] = "+"
    BY <1>10 DEF Plus
  <2>2. CASE i = F + 1
    <3>1. j = S + 1
      BY <1>2, <2>2 DEF Reached, Same, Plus
    <3>2. j < T /\ i <= Len(f) /\ f[i] = "+"
      BY <1>2, <1>7, <2>1, <2>2, <3>1
    <3> QED
      BY <1>2, <1>5, <3>2 DEF Goes
  <2>3. CASE i # F + 1
    <3>1. i = F + 2
      BY <1>2, <1>3, <2>1, <2>3
    <3>2. ~Same(f, s, F, S, i, j)
      <4>1. 1 \in 1 .. i - F - 1
        BY <1>2, <3>1
      <4> QED
        BY <1>8, <2>1, <4>1 DEF Same
    <3> QED
      BY <1>4, <2>1, <3>1, <3>2 DEF Reached, Plus
  <2> QED
    BY <2>2, <2>3
<1>11. CASE Same(f, s, F, S, G, T)
  <2>1. G - F = T - S /\ \A k \in 1 .. G - F - 1 : f[F + k] = s[S + k]
    BY <1>11 DEF Same
  <2>2. CASE Same(f, s, F, S, i, j)
    <3>1. i - F = j - S
      BY <2>2 DEF Same
    <3>2. CASE i = G
      BY <1>2, <2>1, <3>1, <3>2
    <3>3. CASE i # G
      <4>1. i < G /\ j < T /\ i - F \in 1 .. G - F - 1 /\ F + (i - F) = i /\ S + (i - F) = j
        BY <1>2, <1>3, <2>1, <3>1, <3>3
      <4>2. f[i] = s[j]
        BY <2>1, <4>1
      <4> QED
        BY <1>2, <1>5, <4>1, <4>2 DEF Goes
    <3> QED
      BY <3>2, <3>3
  <2>3. CASE Plus(f, s, F, i, j)
    <3>1. 1 \in 1 .. G - F - 1
      BY <1>2, <1>7, <2>1
    <3> QED
      BY <1>8, <2>1, <2>3, <3>1 DEF Plus
  <2> QED
    BY <2>2, <2>3 DEF Reached
<1> QED
  BY <1>9, <1>10, <1>11

\* On an ordinary name that the filter matches, the scan stops at both ends.
LEMMA StopsAtEnd ==
    ASSUME NEW f \in Filters, NEW s \in Names, NEW F \in Cuts(f), NEW S \in Cuts(s),
           NEW i \in 1 .. Len(f) + 1, NEW j \in 1 .. Len(s) + 1,
           Reached(f, s, F, S, i, j), Ordinary(f, s), Matches(f, s), ~Goes(f, s, i, j)
    PROVE  i = Len(f) + 1 /\ j = Len(s) + 1
<1> DEFINE many == Nth(f, Depth(f)) = <<"#">>
<1>1. f \in Seq(FilterChars) /\ s \in Seq(NameChars)
  BY DEF Filters, Names
<1>2. i \in Nat /\ j \in Nat /\ Len(f) \in Nat /\ Len(s) \in Nat
  BY <1>1
<1>3. PICK G \in Cuts(f) : Within(f, F, G) /\ i <= G
  BY <1>1, <1>2, NextCut DEF Reached
<1>4. PICK T \in Cuts(s) : Within(s, S, T) /\ j <= T
  BY <1>1, <1>2, NextCut DEF Reached
<1>5. /\ Rank(f, G) = Rank(f, F) + 1 /\ Rank(s, T) = Rank(s, S) + 1 /\ Rank(f, F) = Rank(s, S)
      /\ Rank(f, F) \in Nat /\ Depth(f) \in Nat
  BY <1>1, <1>3, <1>4, RankNext, RankType, RankEnds DEF Reached, Covered
<1>6. Rank(f, F) + 1 \in 1..Depth(f)
  BY <1>1, <1>3, NthIs
<1>7. many => Rank(f, F) + 1 # Depth(f)
  BY GoesAtHash
<1>8. Covers(f, s, Rank(f, F) + 1)
  <2>1. \A n \in 1 .. (IF many THEN Depth(f) - 1 ELSE Depth(f)) : Covers(f, s, n)
    BY DEF Matches, Covers
  <2> HIDE DEF many
  <2>2. Rank(f, F) + 1 \in 1 .. (IF many THEN Depth(f) - 1 ELSE Depth(f))
    BY <1>5, <1>6, <1>7
  <2> QED
    BY <2>1, <2>2
<1>9. i = G /\ j = T
  BY <1>3, <1>4, <1>8, GoesInside
<1>10. many => Rank(f, G) < Depth(f)
  <2> HIDE DEF many
  <2> QED
    BY <1>5, <1>6, <1>7
<1>11. i > 0 /\ j > 0 /\ Rank(f, i) = Rank(s, j) /\ i \in Cuts(f) /\ j \in Cuts(s)
  BY <1>2, <1>5, <1>9
<1> QED
  BY <1>9, <1>10, <1>11, StopAtCuts

-----------------------------------------------------------------------------
(* The invariant.                                                          *)

ScanType == filter \in Filters /\ name \in Names /\ TypeOK

\* A # has taken the rest of the name.
Hashed == AtEnd(filter, curf) /\ AtEnd(name, curn) /\ Matches(filter, name)

ScanInv ==
    /\ ScanType
    /\ Hashed \/ \E F \in Cuts(filter), S \in Cuts(name) : Reached(filter, name, F, S, curf, curn)
    /\ ~scanning => ~Continue

\* A bounded string is a sequence.
LEMMA StringsType ==
    ASSUME NEW C, NEW m \in Nat, NEW s \in Strings(C, m)
    PROVE  s \in Seq(C)
BY DEF Strings

\* The loop condition of the code is the one of the lemmas.
LEMMA GoesIs ==
    ASSUME ScanType
    PROVE  Continue <=> Goes(filter, name, curf, curn)
<1>1. Len(filter) \in Nat /\ Len(name) \in Nat /\ curf \in Nat /\ curn \in Nat
  BY DEF ScanType, TypeOK, Filters, Names
<1> QED
  BY <1>1 DEF Continue, Mismatch, AtEnd, Goes

\* The scan begins at the first level of both strings.
LEMMA InitScan == Init => ScanInv
<1> SUFFICES ASSUME Init PROVE ScanInv
  OBVIOUS
<1>1. filter \in Filters /\ name \in Names
  BY StringsType, LengthsAssumption DEF Init, Filters, Names, FilterChars, NameChars
<1>2. filter \in Seq(FilterChars) /\ name \in Seq(NameChars)
  BY <1>1 DEF Filters, Names
<1>3. ScanType
  BY <1>1, <1>2 DEF ScanType, TypeOK, Init
<1>4. 0 \in Cuts(filter) /\ 0 \in Cuts(name) /\ Cuts(filter) \subseteq Nat /\ Cuts(name) \subseteq Nat
  BY <1>2, CutsType
<1>5. Covered(filter, name, 0, 0)
  BY <1>2, RankEnds DEF Covered
<1>6. Reached(filter, name, 0, 0, 1, 1)
  BY <1>4, <1>5 DEF Reached, Within, Same
<1> QED
  BY <1>3, <1>4, <1>6 DEF ScanInv, Init

\* There is a next separator for + to stop at.
LEMMA SkipLevelIs ==
    ASSUME ScanType, curn <= Len(name)
    PROVE  LevelEnd(name, curn, SkipLevel)
<1> DEFINE T == {k \in curn..Len(name) : k = Len(name) \/ name[k + 1] = "/"}
<1>1. Len(name) \in Nat /\ curn \in Nat
  BY DEF ScanType, TypeOK, Names
<1>2. T \subseteq Nat /\ Len(name) \in T
  BY <1>1
<1>3. PICK k \in T : \A m \in T : k <= m
  <2> HIDE DEF T
  <2> QED
    BY <1>2, LeastNat
<1>4. LevelEnd(name, curn, k)
  <2>1. ASSUME NEW i \in curn + 1 .. k, name[i] = "/" PROVE FALSE
    <3>1. i - 1 \in curn..Len(name) /\ (i - 1) + 1 = i /\ i - 1 < k /\ i - 1 \in Nat
      BY <1>1, <1>3
    <3>2. i - 1 \in T
      BY <2>1, <3>1
    <3>3. k <= i - 1 /\ k \in Nat
      <4>1. k \in T /\ \A m \in T : k <= m
        BY <1>3
      <4>2. k \in Nat
        BY <1>2, <4>1
      <4> HIDE DEF T
      <4> QED
        BY <3>2, <4>1, <4>2, Zenon
    <3> QED
      BY <3>1, <3>3
  <2> QED
    BY <1>3, <2>1 DEF LevelEnd
<1>5. SkipLevel = CHOOSE i \in curn..Len(name) : LevelEnd(name, curn, i)
  BY DEF SkipLevel, LevelEnd
<1> QED
  BY <1>3, <1>4, <1>5

\* A turn of the loop reaches another position.
LEMMA CharScan ==
    ASSUME ScanInv, scan_char
    PROVE  ScanInv'
<1> DEFINE f == filter
           s == name
           i == curf
           j == curn
<1>1. f \in Filters /\ s \in Names /\ ScanType
  BY DEF ScanInv, ScanType
<1>2. f \in Seq(FilterChars) /\ s \in Seq(NameChars) /\ Len(f) \in Nat /\ Len(s) \in Nat
  BY <1>1 DEF Filters, Names
<1>3. Goes(f, s, i, j)
  BY <1>1, GoesIs DEF scan_char
<1>4. i \in 1..Len(f) /\ j \in 1..Len(s)
  BY <1>1, <1>2, <1>3 DEF ScanType, TypeOK, Goes
<1>5. PICK F \in Cuts(f), S \in Cuts(s) : Reached(f, s, F, S, i, j)
  <2>1. ~Hashed
    BY <1>2, <1>4 DEF Hashed, AtEnd
  <2> QED
    BY <2>1 DEF ScanInv
<1>6. filter' = f /\ name' = s /\ curf' = i + 1 /\ scanning' = scanning /\ scanning
  BY DEF scan_char
<1>7. SUFFICES /\ curn' \in 1 .. Len(s) + 1
               /\ \/ i + 1 > Len(f) /\ curn' > Len(s) /\ Matches(f, s)
                  \/ \E G \in Cuts(f), T \in Cuts(s) : Reached(f, s, G, T, i + 1, curn')
  <2>1. ScanType'
    BY <1>1, <1>2, <1>4, <1>6, <1>7 DEF ScanType, TypeOK
  <2>2. Hashed' <=> i + 1 > Len(f) /\ curn' > Len(s) /\ Matches(f, s)
    BY <1>6 DEF Hashed, AtEnd
  <2>3. (\E G \in Cuts(filter), T \in Cuts(name) : Reached(filter, name, G, T, curf, curn))'
           <=> \E G \in Cuts(f), T \in Cuts(s) : Reached(f, s, G, T, i + 1, curn')
    BY <1>6
  <2> QED
    BY <1>6, <1>7, <2>1, <2>2, <2>3 DEF ScanInv
<1>8. CASE f[i] = "#"
  <2>1. curn' = Len(s) + 1
    BY <1>2, <1>8 DEF scan_char
  <2>2. i = Len(f) /\ Matches(f, s)
    BY <1>1, <1>2, <1>4, <1>5, <1>8, HashStep
  <2> QED
    BY <1>2, <2>1, <2>2
<1>9. CASE f[i] = "+"
  <2>1. LevelEnd(s, j, SkipLevel)
    BY <1>1, <1>4, SkipLevelIs
  <2>2. SkipLevel \in Nat /\ SkipLevel \in j..Len(s)
    BY <1>2, <1>4, <2>1 DEF LevelEnd
  <2>3. curn' = SkipLevel + 1
    BY <1>9, <2>2 DEF scan_char
  <2>4. s[j] # "/"
    BY <1>3, <1>9 DEF Goes
  <2>5. Reached(f, s, F, S, i + 1, SkipLevel + 1)
    BY <1>1, <1>4, <1>5, <1>9, <2>1, <2>4, PlusStep
  <2> QED
    BY <1>2, <1>4, <2>2, <2>3, <2>5
<1>10. CASE f[i] \notin {"#", "+"}
  <2>1. curn' = j + 1
    BY <1>4, <1>10 DEF scan_char
  <2>2. f[i] = s[j]
    BY <1>3, <1>10 DEF Goes
  <2>3. CASE f[i] = "/"
    <3>1. i \in Cuts(f) /\ j \in Cuts(s) /\ Reached(f, s, i, j, i + 1, j + 1)
      BY <1>1, <1>4, <1>5, <2>2, <2>3, SlashStep
    <3>2. j + 1 \in 1 .. Len(s) + 1
      BY <1>2, <1>4
    <3> QED
      BY <2>1, <3>1, <3>2
  <2>4. CASE f[i] # "/"
    <3>1. Reached(f, s, F, S, i + 1, j + 1)
      BY <1>1, <1>4, <1>5, <1>10, <2>2, <2>4, LetterStep
    <3> QED
      BY <1>2, <1>4, <2>1, <3>1
  <2> QED
    BY <2>3, <2>4
<1> QED
  BY <1>8, <1>9, <1>10

\* Every step keeps the invariant.
LEMMA NextScan == ScanInv /\ [Next]_vars => ScanInv'
<1> SUFFICES ASSUME ScanInv, [Next]_vars PROVE ScanInv'
  OBVIOUS
<1>1. CASE scan_char
  BY <1>1, CharScan
<1>2. CASE scan_break
  BY <1>2 DEF scan_break, ScanInv, ScanType, TypeOK, Hashed, AtEnd, Continue, Mismatch
<1>3. CASE UNCHANGED vars
  BY <1>3 DEF vars, ScanInv, ScanType, TypeOK, Hashed, AtEnd, Continue, Mismatch
<1>4. CASE Done
  BY <1>3, <1>4 DEF Done
<1> QED
  BY <1>1, <1>2, <1>3, <1>4 DEF Next

\* The invariant holds throughout the scan.
THEOREM ScanCorrect == Spec => []ScanInv
BY InitScan, NextScan, PTL DEF Spec

\* The cursors of mqtt_topic_is_matched never pass the terminating NUL of
\* their strings, whatever the filter and the name.
THEOREM TopicTypeCorrect == Spec => []TypeOK
<1>1. ScanInv => TypeOK
  BY DEF ScanInv, ScanType
<1> QED
  BY <1>1, ScanCorrect, PTL

\* A match reported is a match.
LEMMA SoundState == ScanInv => MatchSound
<1> SUFFICES ASSUME ScanInv, mqtt_topic_is_matched PROVE Matches(filter, name)
  BY DEF MatchSound
<1>1. filter \in Filters /\ name \in Names /\ TypeOK
  BY DEF ScanInv, ScanType
<1>2. curf = Len(filter) + 1 /\ curn = Len(name) + 1
  <2>1. Len(filter) \in Nat /\ Len(name) \in Nat
    BY <1>1 DEF Filters, Names
  <2> QED
    BY <1>1, <2>1 DEF TypeOK, mqtt_topic_is_matched, AtEnd
<1>3. CASE Hashed
  BY <1>3 DEF Hashed
<1>4. CASE \E F \in Cuts(filter), S \in Cuts(name) : Reached(filter, name, F, S, curf, curn)
  BY <1>1, <1>2, <1>4, BothEnd
<1> QED
  BY <1>3, <1>4 DEF ScanInv

\* A match of an ordinary name is reported when the scan has stopped.
LEMMA CompleteState ==
    ASSUME ScanInv, ~scanning, Ordinary(filter, name), Matches(filter, name)
    PROVE  mqtt_topic_is_matched
<1>1. filter \in Filters /\ name \in Names /\ TypeOK /\ Len(filter) \in Nat /\ Len(name) \in Nat
  BY DEF ScanInv, ScanType, Filters, Names
<1>2. ~Goes(filter, name, curf, curn)
  BY GoesIs DEF ScanInv
<1>3. CASE Hashed
  BY <1>3 DEF Hashed, mqtt_topic_is_matched
<1>4. CASE \E F \in Cuts(filter), S \in Cuts(name) : Reached(filter, name, F, S, curf, curn)
  <2>1. curf \in 1 .. Len(filter) + 1 /\ curn \in 1 .. Len(name) + 1
    BY <1>1 DEF TypeOK
  <2>2. curf = Len(filter) + 1 /\ curn = Len(name) + 1
    BY <1>1, <1>2, <1>4, <2>1, StopsAtEnd
  <2> QED
    BY <1>1, <2>2 DEF mqtt_topic_is_matched, AtEnd
<1> QED
  BY <1>3, <1>4 DEF ScanInv

\* mqtt_topic_is_matched never reports a match of a name that the filter does
\* not cover, for filters and names of any length.
THEOREM MatchSoundCorrect == Spec => []MatchSound
BY SoundState, ScanCorrect, PTL

\* For ordinary names mqtt_topic_is_matched gives the MQTT answer, for filters
\* and names of any length.
THEOREM MatchAgreesCorrect == Spec => []MatchAgrees
<1>1. ScanInv => MatchAgrees
  BY SoundState, CompleteState DEF MatchAgrees, MatchSound
<1> QED
  BY <1>1, ScanCorrect, PTL
=============================================================================
