--------------------------- MODULE MetainfoProofs ---------------------------
(***************************************************************************)
(* What the parser and the tracker client make of any torrent and any      *)
(* reply, with the codec of BencodeProofs.                                 *)
(***************************************************************************)
EXTENDS Metainfo, BencodeProofs

-----------------------------------------------------------------------------
(* Cutting a sequence and putting it together *)

LEMMA Quotient ==
    ASSUME NEW a \in Int, NEW b \in Nat \ {0}
    PROVE  /\ a \div b \in Int
           /\ b * (a \div b) <= a
           /\ a < b * (a \div b) + b
  OBVIOUS

LEMMA Remainder ==
    ASSUME NEW a \in Int, NEW b \in Nat \ {0}
    PROVE  /\ a % b \in 0 .. b - 1
           /\ a = b * (a \div b) + (a % b)
  OBVIOUS

LEMMA OneMore ==
    ASSUME NEW i \in Int, NEW b \in Nat \ {0}
    PROVE  /\ i * b \in Int /\ (i - 1) * b \in Int
           /\ i * b = (i - 1) * b + b
           /\ b * i = i * b
  OBVIOUS

\* A quotient is the only number whose multiple is that near.
LEMMA OnlyQuotient ==
    ASSUME NEW a \in Int, NEW b \in Nat \ {0}, NEW q \in Int,
           b * q <= a, a < b * q + b
    PROVE  a \div b = q /\ a % b = a - b * q
  <1> DEFINE p == a \div b
  <1>1. p \in Int /\ b * p <= a /\ a < b * p + b
    BY Quotient
  <1>2. CASE p <= q - 1
    <2>1. b * p <= b * (q - 1)
      BY <1>1, <1>2
    <2>2. b * (q - 1) = b * q - b
      OBVIOUS
    <2> QED BY <1>1, <2>1, <2>2
  <1>3. CASE p >= q + 1
    <2>1. b * p >= b * (q + 1)
      BY <1>1, <1>3
    <2>2. b * (q + 1) = b * q + b
      OBVIOUS
    <2> QED BY <1>1, <2>1, <2>2
  <1>4. p = q
    BY <1>1, <1>2, <1>3
  <1>5. a % b \in Int /\ a = b * p + (a % b)
    BY Remainder
  <1> QED BY <1>4, <1>5

LEMMA Multiples ==
    ASSUME NEW b \in Nat \ {0}, NEW i \in Int, NEW m \in Int, i <= m
    PROVE  /\ i * b \in Int /\ m * b \in Int
           /\ i * b <= m * b
           /\ b * i = i * b
  OBVIOUS

\* The part and the place in it of a position below m parts.
LEMMA Place ==
    ASSUME NEW b \in Nat \ {0}, NEW m \in Nat, NEW a \in Nat, a < m * b
    PROVE  /\ a \div b \in 0 .. m - 1
           /\ a % b \in 0 .. b - 1
           /\ a = (a \div b) * b + (a % b)
           /\ (a \div b) * b \in Int
  <1> DEFINE q == a \div b
             r == a % b
  <1>1. q \in Int /\ r \in 0 .. b - 1 /\ a = b * q + r
    BY Quotient, Remainder
  <1> HIDE DEF q, r
  <1>2. b * q = q * b /\ q * b \in Int /\ m * b \in Int
    BY <1>1
  <1>3. q >= 0
    <2>1. SUFFICES ASSUME q <= -1 PROVE FALSE
      BY <1>1
    <2>2. q * b <= (-1) * b
      BY <1>1, <2>1, Multiples
    <2> QED BY <1>1, <1>2, <2>2
  <1>4. q < m
    <2>1. SUFFICES ASSUME m <= q PROVE FALSE
      BY <1>1
    <2>2. m * b <= q * b
      BY <1>1, <2>1, Multiples
    <2> QED BY <1>1, <1>2, <2>2
  <1> QED BY <1>1, <1>2, <1>3, <1>4 DEF q, r

\* The number of parts of a sequence, as Cut computes it.
Parts(n, size) == (n + size - 1) \div size

LEMMA PartsCover ==
    ASSUME NEW n \in Nat, NEW size \in Nat \ {0}
    PROVE  /\ Parts(n, size) \in Nat
           /\ n <= Parts(n, size) * size
           /\ \A i \in 1 .. Parts(n, size) : (i - 1) * size < n
  <1> DEFINE q == Parts(n, size)
  <1>1. /\ q \in Int
        /\ size * q <= n + size - 1
        /\ n + size - 1 < size * q + size
    BY Quotient DEF Parts
  <1>2. q >= 0
    <2>1. CASE q <= -1
      <3>1. size * q <= -size
        BY <1>1, <2>1
      <3> QED BY <1>1, <3>1
    <2> QED BY <1>1, <2>1
  <1>3. ASSUME NEW i \in 1 .. q
        PROVE  (i - 1) * size < n
    <2>1. i * size <= q * size
      BY <1>1, <1>3
    <2>2. q * size = size * q
      BY <1>1
    <2>3. i * size = (i - 1) * size + size
      BY OneMore
    <2>4. i * size \in Int /\ (i - 1) * size \in Int
      BY OneMore
    <2> QED BY <1>1, <2>1, <2>2, <2>3, <2>4
  <1> QED BY <1>1, <1>2, <1>3

\* Where a part ends.
Until(i, n, size) == IF i * size < n THEN i * size ELSE n

\* c are m parts of the sequence s of length n.
AreParts(c, m, s, n, S, size) ==
    /\ c \in Seq(Seq(S)) /\ Len(c) = m
    /\ \A i \in 1 .. m :
           /\ c[i] \in Seq(S)
           /\ Len(c[i]) = Until(i, n, size) - (i - 1) * size
           /\ Len(c[i]) \in 1 .. size
           /\ \A k \in 1 .. Len(c[i]) : c[i][k] = s[(i - 1) * size + k]

LEMMA CutParts ==
    ASSUME NEW S, NEW s \in Seq(S), NEW size \in Nat \ {0}
    PROVE  AreParts(Cut(s, size), Parts(Len(s), size), s, Len(s), S, size)
  <1> DEFINE n == Len(s)
             q == Parts(n, size)
             from(i) == (i - 1) * size
             to(i) == Until(i, n, size)
  <1>1. n \in Nat
    OBVIOUS
  <1>2. q \in Nat /\ \A i \in 1 .. q : from(i) < n
    BY <1>1, PartsCover
  <1>3. Cut(s, size) = [i \in 1 .. q |-> SubSeq(s, from(i) + 1, to(i))]
    BY DEF Cut, Parts, Until
  <1>4. ASSUME NEW i \in 1 .. q
        PROVE  /\ Cut(s, size)[i] \in Seq(S)
               /\ Len(Cut(s, size)[i]) = to(i) - from(i)
               /\ Len(Cut(s, size)[i]) \in 1 .. size
               /\ \A k \in 1 .. Len(Cut(s, size)[i]) :
                      Cut(s, size)[i][k] = s[from(i) + k]
    <2> DEFINE a == from(i)
               b == to(i)
    <2>1. a \in Nat /\ a < n
      <3>1. a \in Int /\ i - 1 >= 0
        BY <1>2, <1>4
      <3>2. a >= 0
        BY <3>1
      <3> QED BY <1>2, <3>1, <3>2
    <2>2. b \in Nat /\ b <= n /\ a < b /\ b <= a + size
      BY <1>1, <2>1, OneMore DEF Until
    <2>3. Cut(s, size)[i] = SubSeq(s, a + 1, b)
      BY <1>3, <1>4
    <2> HIDE DEF a, b
    <2>4. \A k \in a + 1 .. b : s[k] \in S
      BY <1>1, <2>1, <2>2
    <2>5. /\ SubSeq(s, a + 1, b) \in Seq(S)
          /\ Len(SubSeq(s, a + 1, b)) = b - a
          /\ \A k \in 1 .. b - a : SubSeq(s, a + 1, b)[k] = s[a + k]
      <3>1. a + 1 \in Int /\ b \in Int /\ b - (a + 1) + 1 = b - a
        BY <2>1, <2>2
      <3> DEFINE t == SubSeq(s, a + 1, b)
      <3>2. /\ t \in Seq(S)
            /\ Len(t) = IF a + 1 <= b THEN b - (a + 1) + 1 ELSE 0
            /\ \A k \in 1 .. b - (a + 1) + 1 : t[k] = s[(a + 1) + k - 1]
        BY <2>4, <3>1, SubSeqProperties
      <3> HIDE DEF t
      <3>3. \A k \in 1 .. b - a : (a + 1) + k - 1 = a + k
        BY <2>1, <2>2
      <3>4. t \in Seq(S) /\ Len(t) = b - a /\ \A k \in 1 .. b - a : t[k] = s[a + k]
        BY <2>1, <2>2, <3>2, <3>3
      <3> QED BY <3>4 DEF t
    <2> DEFINE part == Cut(s, size)[i]
    <2>6. /\ part \in Seq(S)
          /\ Len(part) = b - a
          /\ \A k \in 1 .. Len(part) : part[k] = s[a + k]
      BY <2>3, <2>5
    <2>7. b - a \in 1 .. size
      BY <2>1, <2>2
    <2> HIDE DEF part
    <2>8. Len(part) \in 1 .. size
      BY <2>6, <2>7
    <2> QED BY <2>6, <2>8 DEF a, b, part
  <1>5. Cut(s, size) \in Seq(Seq(S)) /\ Len(Cut(s, size)) = q
    <2> HIDE DEF q
    <2>1. Cut(s, size) \in [1 .. q -> Seq(S)]
      BY <1>3, <1>4
    <2> QED BY <1>2, <2>1
  <1> QED BY <1>4, <1>5 DEF AreParts

LEMMA SameSequence ==
    ASSUME NEW S, NEW s \in Seq(S), NEW t \in Seq(S), Len(s) = Len(t),
           \A k \in 1 .. Len(s) : s[k] = t[k]
    PROVE  s = t
  OBVIOUS

\* The parts put together again are the sequence.
LEMMA JoinedCut ==
    ASSUME NEW S, NEW s \in Seq(S), NEW size \in Nat \ {0}
    PROVE  Joined(Cut(s, size), size) = s
  <1> DEFINE n == Len(s)
             q == Parts(n, size)
             c == Cut(s, size)
  <1>1. n \in Nat /\ q \in Nat /\ n <= q * size /\ \A i \in 1 .. q : (i - 1) * size < n
    <2>1. n \in Nat
      OBVIOUS
    <2> QED BY <2>1, PartsCover
  <1>2. /\ c \in Seq(Seq(S)) /\ Len(c) = q
        /\ \A i \in 1 .. q :
               /\ c[i] \in Seq(S)
               /\ Len(c[i]) = Until(i, n, size) - (i - 1) * size
               /\ Len(c[i]) \in 1 .. size
               /\ \A k \in 1 .. Len(c[i]) : c[i][k] = s[(i - 1) * size + k]
    <2>1. AreParts(c, q, s, n, S, size)
      BY CutParts
    <2> QED BY <2>1 DEF AreParts
  <1>3. CASE q = 0
    <2>1. c = <<>>
      BY <1>2, <1>3
    <2>2. n = 0
      BY <1>1, <1>3
    <2>3. s = <<>>
      BY <2>2
    <2> QED BY <2>1, <2>3 DEF Joined
  <1>4. CASE q > 0
    <2> DEFINE j(k) == (k - 1) \div size
               r(k) == (k - 1) % size
    <2> HIDE DEF c
    <2>1. c # <<>>
      BY <1>2, <1>4
    <2>2. (q - 1) * size + Len(c[q]) = n
      <3>1. Until(q, n, size) = n
        BY <1>1 DEF Until
      <3>2. Len(c[q]) = n - (q - 1) * size
        BY <1>1, <1>2, <1>4, <3>1
      <3>3. (q - 1) * size \in Int
        BY <1>1, OneMore
      <3> QED BY SMTT(30), <1>1, <3>2, <3>3
    <2>3. ASSUME NEW k \in 1 .. n
          PROVE  c[j(k) + 1][r(k) + 1] = s[k]
      <3> DEFINE i == j(k) + 1
      <3>1. k \in Int /\ 1 <= k /\ k <= n
        BY <1>1, <2>3
      <3>2. /\ j(k) \in 0 .. q - 1 /\ r(k) \in 0 .. size - 1
            /\ k - 1 = j(k) * size + r(k)
            /\ j(k) * size \in Int
        <4>1. k - 1 \in Nat /\ k - 1 < q * size
          <5>1. q * size \in Int
            BY <1>1
          <5> QED BY <1>1, <3>1, <5>1
        <4> QED BY <1>1, <4>1, Place
      <3>3. (i - 1) * size = j(k) * size
        BY <3>2
      <3>7. i \in 1 .. q /\ i * size = (i - 1) * size + size
        BY <1>1, <3>2, OneMore
      <3> HIDE DEF i
      <3>8. Len(c[i]) = Until(i, n, size) - (i - 1) * size
        BY <1>2, <3>7
      <3>9. Until(i, n, size) - (i - 1) * size >= r(k) + 1
        <4>1. CASE i * size < n
          BY <3>2, <3>3, <3>7, <4>1 DEF Until
        <4>2. CASE ~(i * size < n)
          BY <1>1, <3>1, <3>2, <3>3, <4>2 DEF Until
        <4> QED BY <4>1, <4>2
      <3>10. r(k) + 1 \in 1 .. Len(c[i])
        BY <1>2, <3>2, <3>7, <3>8, <3>9
      <3>11. c[i][r(k) + 1] = s[(i - 1) * size + (r(k) + 1)]
        BY <1>2, <3>7, <3>10
      <3>12. (i - 1) * size + (r(k) + 1) = k
        BY <3>1, <3>2, <3>3
      <3> QED BY <3>11, <3>12 DEF i
    <2>4. Joined(c, size) = [k \in 1 .. n |-> s[k]]
      <3>1. Joined(c, size) = [k \in 1 .. (q - 1) * size + Len(c[q]) |->
                                   c[j(k) + 1][r(k) + 1]]
        BY <1>2, <2>1 DEF Joined
      <3> HIDE DEF j, r
      <3> QED BY <2>2, <2>3, <3>1
    <2>5. s = [k \in 1 .. n |-> s[k]]
      OBVIOUS
    <2> QED BY <2>4, <2>5 DEF c
  <1> QED BY <1>1, <1>3, <1>4

\* Peers are told apart again where they were put together.
LEMMA CutJoined ==
    ASSUME NEW S, NEW size \in Nat \ {0}, NEW list \in Seq([1 .. size -> S])
    PROVE  /\ Joined(list, size) \in Seq(S)
           /\ Missing(Joined(list, size), size) = 0
           /\ Cut(Joined(list, size), size) = list
  <1> DEFINE m == Len(list)
             s == Joined(list, size)
             n == m * size
             at(k) == list[((k - 1) \div size) + 1][((k - 1) % size) + 1]
  <1>1. m \in Nat /\ n \in Nat /\ \A i \in 1 .. m : list[i] \in [1 .. size -> S]
    <2>1. m \in Nat /\ \A i \in 1 .. m : list[i] \in [1 .. size -> S]
      OBVIOUS
    <2> QED BY <2>1
  <1>2. ASSUME NEW i \in 1 .. m, NEW k \in 1 .. size
        PROVE  /\ (i - 1) * size + k \in 1 .. n
               /\ at((i - 1) * size + k) = list[i][k]
    <2> DEFINE a == (i - 1) * size
               p == (a + k) - 1
    <2>1. i \in Int /\ k \in Int /\ i - 1 \in Int /\ i - 1 >= 0 /\ i <= m /\ 1 <= k /\ k <= size
      BY <1>1
    <2>2. a \in Int /\ a >= 0
      BY <2>1
    <2>3. size * (i - 1) = a
      BY <2>1
    <2>4. a + size <= n
      <3>1. i * size <= m * size
        BY SMTT(30), <1>1, <2>1
      <3>2. i * size = a + size /\ i * size \in Int
        BY <2>1, OneMore
      <3> HIDE DEF a
      <3> QED BY <1>1, <2>2, <3>1, <3>2
    <2> HIDE DEF a
    <2>5. p \in Int /\ size * (i - 1) <= p /\ p < size * (i - 1) + size
      BY <2>1, <2>2, <2>3
    <2>6. p \div size = i - 1 /\ p % size = p - size * (i - 1)
      BY <2>1, <2>5, OnlyQuotient
    <2>7. p - size * (i - 1) = k - 1
      BY <2>1, <2>2, <2>3
    <2>8. at(a + k) = list[i][k]
      <3> DEFINE u == (p \div size) + 1
                 v == (p % size) + 1
      <3>1. at(a + k) = list[u][v]
        OBVIOUS
      <3>2. u = i /\ v = k
        BY <2>1, <2>6, <2>7
      <3> HIDE DEF p, at, u, v
      <3> QED BY <3>1, <3>2
    <2>9. a + k \in 1 .. n
      BY <1>1, <2>1, <2>2, <2>4
    <2> QED BY <2>8, <2>9 DEF a
  <1>3. s = [k \in 1 .. n |-> at(k)]
    <2>1. CASE m = 0
      <3>1. list = <<>> /\ n = 0
        BY <2>1
      <3>2. s = <<>>
        BY <3>1 DEF Joined
      <3> HIDE DEF at, n
      <3>3. [k \in 1 .. n |-> at(k)] = <<>>
        BY <3>1
      <3> QED BY <3>2, <3>3
    <2>2. CASE m > 0
      <3>1. list # <<>> /\ m \in 1 .. m
        BY <1>1, <2>2
      <3>2. Len(list[m]) = size
        BY <1>1, <3>1
      <3>3. (m - 1) * size + size = n
        BY <1>1, OneMore
      <3>4. s = [k \in 1 .. (m - 1) * size + Len(list[m]) |-> at(k)]
        BY <3>1 DEF Joined
      <3> HIDE DEF s, n, at
      <3> QED BY <3>2, <3>3, <3>4
    <2> QED BY <1>1, <2>1, <2>2
  <1>4. \A k \in 1 .. n : at(k) \in S
    <2> SUFFICES ASSUME NEW k \in 1 .. n
                 PROVE  at(k) \in S
      OBVIOUS
    <2> DEFINE q == (k - 1) \div size
               r == (k - 1) % size
    <2>1. k - 1 \in Nat /\ k - 1 < m * size
      BY <1>1
    <2>2. q \in 0 .. m - 1 /\ r \in 0 .. size - 1
      BY <1>1, <2>1, Place
    <2> HIDE DEF q, r
    <2>6. q + 1 \in 1 .. m /\ r + 1 \in 1 .. size
      BY <1>1, <2>2
    <2>7. list[q + 1][r + 1] \in S
      BY <1>1, <2>6
    <2> QED BY <2>7 DEF q, r
  <1>5. s \in Seq(S) /\ Len(s) = n
    <2> HIDE DEF s, n, at
    <2> QED BY <1>1, <1>3, <1>4
  <1>6. Parts(n, size) = m
    <2>1. size * m = n
      BY <1>1
    <2>2. n + size - 1 \in Int /\ m \in Int /\ size * m <= n + size - 1
           /\ n + size - 1 < size * m + size
      BY <1>1, <2>1
    <2> QED BY <2>2, OnlyQuotient DEF Parts
  <1>7. Missing(s, size) = 0
    <2>1. size * (-m) = -n
      BY <1>1
    <2>2. -n \in Int /\ -m \in Int /\ size * (-m) <= -n /\ -n < size * (-m) + size
      BY <1>1, <2>1
    <2>3. (-n) % size = (-n) - size * (-m)
      BY <2>2, OnlyQuotient
    <2> HIDE DEF s, n
    <2> QED BY <1>1, <1>5, <2>1, <2>2, <2>3 DEF Missing
  <1>8. Cut(s, size) = list
    <2> HIDE DEF s, n, at
    <2>1. AreParts(Cut(s, size), m, s, n, S, size)
      BY <1>5, <1>6, CutParts
    <2>2. ASSUME NEW i \in 1 .. m
          PROVE  Cut(s, size)[i] = list[i]
      <3>1. i * size <= n /\ i * size = (i - 1) * size + size
             /\ i * size \in Int /\ (i - 1) * size \in Int
        <4>1. i \in Int /\ m \in Int /\ i <= m
          BY <1>1, <2>2
        <4>2. i * size <= m * size
          BY <4>1, Multiples
        <4> QED BY <4>1, <4>2, OneMore DEF n
      <3>2. Until(i, n, size) = i * size
        BY <1>1, <3>1 DEF Until
      <3>3. Len(Cut(s, size)[i]) = size
        BY <2>1, <3>1, <3>2 DEF AreParts
      <3>4. \A k \in 1 .. size : Cut(s, size)[i][k] = list[i][k]
        <4>1. \A k \in 1 .. size : Cut(s, size)[i][k] = s[(i - 1) * size + k]
          BY <2>1, <3>3 DEF AreParts
        <4> QED BY <1>2, <1>3, <4>1
      <3>5. list[i] \in Seq(S) /\ Len(list[i]) = size
        BY <1>1
      <3> QED BY <2>1, <3>3, <3>4, <3>5, SameSequence DEF AreParts
    <2>3. list \in Seq(Seq(S)) /\ Len(list) = m
      <3>1. \A i \in 1 .. m : list[i] \in Seq(S)
        BY <1>1
      <3>2. list = [i \in 1 .. m |-> list[i]]
        OBVIOUS
      <3> QED BY <1>1, <3>1, <3>2
    <2> QED BY <2>1, <2>2, <2>3, SameSequence DEF AreParts
  <1> QED BY <1>5, <1>7, <1>8

\* A part that ends within the sequence is whole, and needs no byte after it.
LEMMA WholePart ==
    ASSUME NEW s \in Text, NEW size \in Nat \ {0},
           NEW i \in 1 .. Len(Cut(s, size)), i * size <= Len(s)
    PROVE  Padded(Cut(s, size)[i], size) = SubSeq(s, (i - 1) * size + 1, i * size)
  <1> DEFINE Char == Byte \cup {"zero"}
             n == Len(s)
             c == Cut(s, size)
  <1>1. s \in Seq(Char) /\ n \in Nat
    BY DEF Text
  <1> HIDE DEF Char
  <1>2. AreParts(c, Parts(n, size), s, n, Char, size)
    BY <1>1, CutParts
  <1>3. i \in 1 .. Parts(n, size) /\ i \in Int /\ i \in DOMAIN c
    <2>1. c \in Seq(Seq(Char)) /\ Len(c) = Parts(n, size)
      BY <1>2 DEF AreParts
    <2> QED BY <2>1
  <1>4. c[i] = SubSeq(s, (i - 1) * size + 1, i * size)
    <2>1. c[i] = SubSeq(s, (i - 1) * size + 1, Until(i, n, size))
      BY <1>2, <1>3 DEF Cut, Parts, Until, AreParts
    <2>2. Until(i, n, size) = i * size
      BY <1>1, <1>3, OneMore DEF Until
    <2> QED BY <2>1, <2>2
  <1>5. Len(c[i]) = size
    <2>1. Len(c[i]) = Until(i, n, size) - (i - 1) * size
      BY <1>2, <1>3 DEF AreParts
    <2>2. /\ i * size \in Int /\ (i - 1) * size \in Int
          /\ i * size = (i - 1) * size + size
      BY <1>3, OneMore
    <2>3. Until(i, n, size) = i * size
      BY <1>1, <2>2 DEF Until
    <2> QED BY <2>1, <2>2, <2>3
  <1>6. Missing(c[i], size) = 0
    <2> DEFINE a == -size
               q == -1
    <2>1. a \in Int /\ q \in Int /\ size * q = a /\ a < size * q + size
      OBVIOUS
    <2> HIDE DEF a, q
    <2>2. size * q <= a /\ a - size * q = 0
      BY <2>1
    <2>3. a % size = 0
      BY <2>1, <2>2, OnlyQuotient
    <2> QED BY <1>5, <2>3 DEF Missing, a
  <1> QED BY <1>4, <1>6 DEF Padded

-----------------------------------------------------------------------------
(* The invariant *)

\* encode and decode are those of BencodeProofs.
IsCodec ==
    /\ EncodeCalls /\ DecodeCalls
    /\ \A v : IsTree(v) => encode(v) = Encode(v)
    /\ \A text \in Text : decode(text) = Decode(text, 0, {})

AuthoredTrees == \A m \in Authored : IsTree(BDict(m))

\* The codec keeps its promise for every text that can be read.
Codec ==
    \A f \in Authored \cup {ReplyDict(list) : list \in PeerLists} \cup {RefusalDict} :
        \A text \in Beginnings(encode(BDict(f))) : Promised(f, text)

Endings == {"throws", "undefined", "diverges"}

Running == {"split", "announce", "request", "reply", "peers", "done", "download"}

OfFile == [announce     |-> metainfo[Announce].string,
           name         |-> InfoDict[Name].string,
           length       |-> InfoDict[Length].int,
           piece_length |-> InfoDict[PieceLength].int,
           pieces       |-> InfoDict[PiecesKey].string,
           info_hash    |-> Sha1(encode(metainfo[Info]))]

FileRead ==
    /\ metainfo \in Authored
    /\ file \in Beginnings(encode(BDict(metainfo)))
    /\ phase = "parse" => decoded = decode(file)

Fields == /\ torrent.pieces \in Text
          /\ phase # "split" => hashes = Cut(torrent.pieces, HashSize)

FieldsKept ==
    /\ phase \in Running => Fields
    /\ phase \notin {"decode", "parse"} /\ Length \in DOMAIN InfoDict /\ Whole =>
           Fields /\ torrent = OfFile

Replied ==
    /\ phase \in {"reply", "peers"} =>
           /\ tracker \in PeerLists
           /\ response \in Beginnings(encode(BDict(AnswerDict(tracker))))
    /\ phase = "peers" => decoded = decode(response)

MetaInv == /\ FileRead
           /\ FieldsKept
           /\ TruncatedRejected
           /\ Replied
           /\ PeersAreTheTrackers
           /\ HashForEveryPiece

-----------------------------------------------------------------------------
(* The codec *)

\* What a codec that inverts itself makes of one dictionary.
LEMMA Kept ==
    ASSUME IsCodec, NEW f, IsTree(BDict(f)), NEW text \in Beginnings(encode(BDict(f)))
    PROVE  Promised(f, text)
  <1> DEFINE outcome == Decode(text, 0, {})
  <1>1. encode(BDict(f)) = Encode(BDict(f)) /\ EncodeCalls /\ DecodeCalls
    BY DEF IsCodec
  <1>2. text \in Text
    BY <1>1, BeginningIsText
  <1>3. decode(text) = outcome
    BY <1>2 DEF IsCodec
  <1>4. InvertsAt(f, text, outcome)
    <2>1. CASE text = Encode(BDict(f))
      <3>1. outcome = Decoded(BDict(f), Len(text))
        BY <1>1, <2>1, DecodeInverts
      <3> QED BY <1>1, <2>1, <3>1, DecodedIs DEF InvertsAt
    <2>2. CASE text # Encode(BDict(f)) /\ ~Torn(Encode(BDict(f)), text)
      <3>1. Failed(outcome)
        BY <1>1, <2>2, DecodeInverts
      <3> QED BY <1>1, <2>2, <3>1 DEF InvertsAt
    <2>3. CASE text # Encode(BDict(f)) /\ Torn(Encode(BDict(f)), text)
      BY <1>1, <2>3 DEF InvertsAt
    <2> QED BY <2>1, <2>2, <2>3
  <1>5. Sound(outcome)
    <2>1. Orderly(outcome)
      BY <1>1, <1>2, DecodeOrderly
    <2> HIDE DEF outcome
    <2> QED BY <2>1 DEF Orderly, Sound, HasTexts, IsTextual, HoldsTextual
  <1> QED BY <1>3, <1>4, <1>5 DEF Promised

LEMMA RepliesAreTrees ==
    /\ \A list \in PeerLists : IsTree(BDict(ReplyDict(list)))
    /\ IsTree(BDict(RefusalDict))
  <1>1. ASSUME NEW list \in PeerLists
        PROVE  IsTree(BDict(ReplyDict(list)))
    <2> DEFINE f == ReplyDict(list)
               s == Joined(list, PeerSize)
    <2>1. s \in Seq(Byte)
      <3>1. list \in Seq([1 .. PeerSize -> Byte]) /\ PeerSize \in Nat \ {0}
        BY MetainfoAssumption
      <3> QED BY <3>1, CutJoined
    <2>2. DOMAIN f = {<<"interval">>, PeersKey} /\ IsDict(f)
      BY DEF ReplyDict, IsDict
    <2>3. DOMAIN f \subseteq Seq(Byte)
      BY <2>2, MetainfoAssumption DEF Keywords, PeersKey
    <2>4. IsFiniteSet(DOMAIN f)
      <3> DEFINE one == {<<"interval">>}
      <3>1. DOMAIN f = one \cup {PeersKey}
        BY <2>2
      <3>2. IsFiniteSet(one)
        BY FS_Singleton
      <3> HIDE DEF one, f
      <3>3. IsFiniteSet(one \cup {PeersKey})
        BY <3>2, FS_AddElement
      <3> QED BY <3>1, <3>3
    <2>5. ASSUME NEW k \in DOMAIN f
          PROVE  f[k] = BStr(s) \/ f[k] = BInt(1800)
      BY <2>2 DEF ReplyDict
    <2> HIDE DEF f, s
    <2>6. \A k \in DOMAIN f : \/ \E n \in Int : f[k] = BInt(n)
                              \/ \E t \in Seq(Byte) : f[k] = BStr(t)
      BY <2>1, <2>5
    <2>7. IsTree(BDict(f))
      BY <2>2, <2>3, <2>4, <2>6, FlatIsTree
    <2> QED BY <2>7 DEF f
  <1>2. IsTree(BDict(RefusalDict))
    <2> DEFINE f == RefusalDict
    <2>1. Name \in Seq(Byte)
      BY MetainfoAssumption DEF Keywords, Name
    <2>2. DOMAIN f = {<<"failure">>} /\ IsDict(f)
      BY DEF RefusalDict, IsDict
    <2>3. DOMAIN f \subseteq Seq(Byte)
      BY <2>2, MetainfoAssumption DEF Keywords
    <2>4. IsFiniteSet(DOMAIN f)
      BY <2>2, FS_Singleton
    <2>5. ASSUME NEW k \in DOMAIN f
          PROVE  f[k] = BStr(Name)
      BY <2>2 DEF RefusalDict
    <2> HIDE DEF f
    <2>6. \A k \in DOMAIN f : \E t \in Seq(Byte) : f[k] = BStr(t)
      BY <2>1, <2>5
    <2>7. IsTree(BDict(f))
      BY <2>2, <2>3, <2>4, <2>6, FlatIsTree
    <2> QED BY <2>7 DEF f
  <1> QED BY <1>1, <1>2

LEMMA CodecHolds ==
    ASSUME IsCodec, AuthoredTrees
    PROVE  Codec
  <1>1. \A f \in Authored \cup {ReplyDict(list) : list \in PeerLists} \cup {RefusalDict} :
            IsTree(BDict(f))
    BY RepliesAreTrees DEF AuthoredTrees
  <1> QED BY <1>1, Kept DEF Codec

-----------------------------------------------------------------------------
(* The parser *)

LEMMA AllAccessed ==
    ASSUME NEW f, NEW keys, IsDict(f), keys \subseteq DOMAIN f
    PROVE  Accessed(f, keys) = f
  BY DEF IsDict, Accessed

\* A missing key reads as an integer.
LEMMA AccessedOther ==
    ASSUME NEW f, NEW keys, NEW k \in keys, NEW kind \in {"string", "dict"},
           Is(kind, Accessed(f, keys)[k])
    PROVE  k \in DOMAIN f /\ Accessed(f, keys)[k] = f[k]
  <1>1. ~Is(kind, BInt(0))
    BY DEF Is, BInt
  <1>2. k \notin DOMAIN f => Accessed(f, keys)[k] = BInt(0)
    BY DEF Accessed
  <1>3. k \in DOMAIN f => Accessed(f, keys)[k] = f[k]
    BY DEF Accessed
  <1> QED BY <1>1, <1>2, <1>3

\* What comes of the file.
LEMMA FileParsed ==
    ASSUME Codec, FileRead, ParseTorrent
    PROVE  /\ phase' \in Endings \cup {"split"}
           /\ phase' = "split" =>
                  /\ torrent'.pieces \in Text
                  /\ Whole \/ Torn(encode(BDict(metainfo)), file)
           /\ Length \in DOMAIN InfoDict /\ Whole =>
                  phase' = "split" /\ torrent' = OfFile
  <1>1. decoded = decode(file) /\ metainfo \in Authored
    BY DEF ParseTorrent, FileRead
  <1>2. InvertsAt(metainfo, file, decoded) /\ Sound(decoded)
    BY <1>1 DEF Codec, FileRead, Promised
  <1>3. phase' \in Endings \cup {"split"}
    <2>1. Failed(decoded) => decoded.failure \in Endings
      BY <1>2 DEF Sound, Throws, Undefined, Diverges, Endings
    <2>2. Throws.failure \in Endings
      BY DEF Throws, Endings
    <2> QED BY <2>1, <2>2 DEF ParseTorrent, Fail
  <1>4. ASSUME phase' = "split"
        PROVE  /\ torrent'.pieces \in Text
               /\ Whole \/ Torn(encode(BDict(metainfo)), file)
    <2>1. ~Failed(decoded) /\ WellTyped
      <3>1. Failed(decoded) => decoded.failure # "split"
        BY <1>2 DEF Sound, Throws, Undefined, Diverges
      <3>2. Throws.failure # "split"
        BY DEF Throws
      <3> QED BY <1>4, <3>1, <3>2 DEF ParseTorrent, Fail
    <2>2. Whole \/ Torn(encode(BDict(metainfo)), file)
      BY <1>2, <2>1 DEF InvertsAt, Whole
    <2>3. torrent'.pieces = FileInfo[PiecesKey].string
      BY <2>1 DEF ParseTorrent
    <2> DEFINE dict == decoded.value.dict
    <2>4. /\ Is("dict", decoded.value)
          /\ Is("dict", FileDict[Info]) /\ Is("string", FileInfo[PiecesKey])
      BY <2>1 DEF WellTyped
    <2>5. Info \in DOMAIN dict /\ FileDict[Info] = dict[Info]
      BY <2>4, AccessedOther DEF FileDict
    <2>6. PiecesKey \in DOMAIN dict[Info].dict /\ FileInfo[PiecesKey] = dict[Info].dict[PiecesKey]
      BY <2>4, <2>5, AccessedOther DEF FileInfo
    <2>7. dict[Info].dict[PiecesKey].string \in Text
      BY <1>2, <2>1, <2>4, <2>5, <2>6 DEF Sound
    <2> QED BY <2>2, <2>3, <2>6, <2>7
  <1>5. ASSUME Length \in DOMAIN InfoDict, Whole
        PROVE  phase' = "split" /\ torrent' = OfFile
    <2>1. ~Failed(decoded) /\ decoded.value = BDict(metainfo)
      BY <1>2, <1>5 DEF InvertsAt, Whole
    <2>2. IsTorrent(metainfo)
      BY <1>1, MetainfoAssumption
    <2>3. Is("dict", decoded.value) /\ decoded.value.dict = metainfo
      BY <2>1 DEF BDict, Is
    <2>4. FileDict = metainfo
      BY <2>2, <2>3, AllAccessed DEF FileDict, IsTorrent, Has
    <2>5. FileInfo = InfoDict
      BY <1>5, <2>2, <2>4, AllAccessed DEF FileInfo, InfoDict, IsTorrent, Has
    <2>6. WellTyped
      BY <1>5, <2>2, <2>3, <2>4, <2>5 DEF WellTyped, IsTorrent, Has, InfoDict
    <2>7. BDict(FileInfo) = metainfo[Info]
      BY <2>2, <2>5 DEF IsTorrent, InfoDict
    <2> QED BY <2>1, <2>4, <2>5, <2>6, <2>7 DEF ParseTorrent, OfFile
  <1> QED BY <1>3, <1>4, <1>5

-----------------------------------------------------------------------------
(* The tracker *)

LEMMA PeersParsed ==
    ASSUME Codec, Replied, ParsePeers
    PROVE  /\ phase' \in Endings \cup {"done"}
           /\ phase' = "done" =>
                  \/ peers' = tracker /\ asked = torrent.info_hash
                  \/ Torn(encode(BDict(AnswerDict(tracker))), response)
  <1> DEFINE f == AnswerDict(tracker)
  <1>1. phase = "peers" /\ decoded = decode(response) /\ tracker \in PeerLists
    BY DEF ParsePeers, Replied
  <1>2. InvertsAt(f, response, decoded) /\ Sound(decoded)
    <2>1. response \in Beginnings(encode(BDict(f)))
      BY <1>1 DEF Replied
    <2>2. f \in {ReplyDict(list) : list \in PeerLists} \cup {RefusalDict}
      BY <1>1 DEF AnswerDict
    <2>3. Promised(f, response)
      BY <2>1, <2>2 DEF Codec
    <2> QED BY <1>1, <2>3 DEF Promised
  <1>3. phase' \in Endings \cup {"done"}
    <2>1. Failed(decoded) => decoded.failure \in Endings
      BY <1>2 DEF Sound, Throws, Undefined, Diverges, Endings
    <2>2. Throws.failure \in Endings /\ Undefined.failure \in Endings
      BY DEF Throws, Undefined, Endings
    <2> QED BY <2>1, <2>2 DEF ParsePeers, Fail
  <1>4. ASSUME phase' = "done", ~Torn(encode(BDict(f)), response)
        PROVE  peers' = tracker /\ asked = torrent.info_hash
    <2>1. /\ ~Failed(decoded) /\ Is("dict", decoded.value) /\ Is("string", Listed)
          /\ peers' = Cut(Padded(Listed.string, PeerSize), PeerSize)
      <3>1. Failed(decoded) => decoded.failure # "done"
        BY <1>2 DEF Sound, Throws, Undefined, Diverges
      <3>2. Throws.failure # "done" /\ Undefined.failure # "done"
        BY DEF Throws, Undefined
      <3> QED BY <1>4, <3>1, <3>2 DEF ParsePeers, Fail
    <2>2. decoded.value = BDict(f)
      BY <1>2, <1>4, <2>1 DEF InvertsAt
    <2>3. decoded.value.dict = f
      BY <2>2 DEF BDict
    <2>4. PeersKey \in DOMAIN f /\ Listed = f[PeersKey]
      BY <2>1, <2>3, AccessedOther DEF Listed
    <2>5. asked = torrent.info_hash
      <3>1. PeersKey \notin DOMAIN RefusalDict
        <4>1. <<"peers">> # <<"failure">>
          OBVIOUS
        <4> QED BY <4>1 DEF RefusalDict, PeersKey
      <3> QED BY <2>4, <3>1 DEF AnswerDict
    <2>6. Listed.string = Joined(tracker, PeerSize)
      BY <2>4, <2>5 DEF AnswerDict, ReplyDict, BStr
    <2>7. tracker \in Seq([1 .. PeerSize -> Byte]) /\ PeerSize \in Nat \ {0}
      BY <1>1, MetainfoAssumption
    <2>8. /\ Missing(Joined(tracker, PeerSize), PeerSize) = 0
          /\ Cut(Joined(tracker, PeerSize), PeerSize) = tracker
      BY <2>7, CutJoined
    <2> QED BY <2>1, <2>5, <2>6, <2>8 DEF Padded
  <1> QED BY <1>3, <1>4

-----------------------------------------------------------------------------
(* The steps *)

LEMMA HashesBuilt ==
    ASSUME FieldsKept, BuildMetadata
    PROVE  /\ phase' \in {"undefined", "download"}
           /\ HashForEveryPiece'
  <1> DEFINE s == torrent.pieces
             Char == Byte \cup {"zero"}
  <1>1. phase = "done" /\ UNCHANGED <<torrent, hashes>>
    BY DEF BuildMetadata
  <1>2. s \in Text /\ hashes = Cut(s, HashSize) /\ HashSize \in Nat \ {0}
    BY <1>1, MetainfoAssumption DEF FieldsKept, Fields, Running
  <1>3. CASE \E i \in DOMAIN hashes : Missing(hashes[i], HashSize) > 1
    BY <1>3 DEF BuildMetadata, Fail, Undefined, HashForEveryPiece
  <1>4. CASE ~ \E i \in DOMAIN hashes : Missing(hashes[i], HashSize) > 1
    <2>1. /\ phase' = "download"
          /\ metadata'.num_pieces = Len(hashes)
          /\ metadata'.piece_hashes = [i \in DOMAIN hashes |-> Padded(hashes[i], HashSize)]
      BY <1>4 DEF BuildMetadata
    <2>2. s \in Seq(Char)
      BY <1>2 DEF Text
    <2>3. torrent'.pieces = s
      BY <1>1
    <2> HIDE DEF s, Char
    <2>4. /\ Len(hashes) = (Len(s) + HashSize - 1) \div HashSize
          /\ DOMAIN hashes = 1 .. Len(hashes) /\ Len(hashes) \in Nat
      <3>1. AreParts(Cut(s, HashSize), Parts(Len(s), HashSize), s, Len(s), Char, HashSize)
        BY <1>2, <2>2, CutParts
      <3>2. hashes \in Seq(Seq(Char)) /\ Len(hashes) = Parts(Len(s), HashSize)
        BY <1>2, <3>1 DEF AreParts
      <3> QED BY <3>2 DEF Parts
    <2>5. ASSUME NEW i \in 1 .. Len(hashes), i * HashSize <= Len(s)
          PROVE  metadata'.piece_hashes[i]
                     = SubSeq(s, (i - 1) * HashSize + 1, i * HashSize)
      <3>1. metadata'.piece_hashes[i] = Padded(hashes[i], HashSize)
        BY <2>1, <2>4
      <3> QED BY <1>2, <2>5, <3>1, WholePart
    <2>6. Len(metadata'.piece_hashes) = Len(hashes)
      BY <2>1, <2>4
    <2> QED BY <2>1, <2>3, <2>4, <2>5, <2>6 DEF HashForEveryPiece
  <1> QED BY <1>3, <1>4

LEMMA MetaInit == Init => MetaInv
  BY DEF Init, MetaInv, FileRead, FieldsKept, TruncatedRejected, Replied,
         PeersAreTheTrackers, HashForEveryPiece, Running

LEMMA MetaNext ==
    ASSUME Codec, MetaInv, [Next]_metainfoVars
    PROVE  MetaInv'
  <1> USE DEF MetaInv
  <1>1. CASE DecodeFile
    <2>1. /\ phase = "decode" /\ phase' = "parse" /\ decoded' = decode(file)
          /\ UNCHANGED <<metainfo, file>>
      BY <1>1 DEF DecodeFile, authored
    <2> QED BY <2>1 DEF FileRead, FieldsKept, TruncatedRejected, Replied,
                        PeersAreTheTrackers, HashForEveryPiece, Running
  <1>2. CASE ParseTorrent
    <2>1. /\ phase = "parse" /\ UNCHANGED <<metainfo, file, decoded, hashes>>
          /\ UNCHANGED <<tracker, response, peers, asked, metadata>>
      BY <1>2 DEF ParseTorrent, authored, fromTracker
    <2>2. phase' \in Endings \cup {"split"}
      BY <1>2, FileParsed
    <2>3. FileRead' /\ Replied' /\ PeersAreTheTrackers' /\ HashForEveryPiece'
      BY <2>1, <2>2
      DEF FileRead, Replied, PeersAreTheTrackers, HashForEveryPiece, Endings
    <2>4. Whole' = Whole /\ InfoDict' = InfoDict
      BY <2>1 DEF Whole, InfoDict
    <2>5. TruncatedRejected'
      <3>1. phase' = "split" => Whole \/ Torn(encode(BDict(metainfo)), file)
        BY <1>2, FileParsed
      <3> QED BY <2>1, <2>2, <2>4, <3>1 DEF TruncatedRejected, Endings
    <2>6. FieldsKept'
      <3>1. phase' = "split" => torrent'.pieces \in Text
        BY <1>2, FileParsed
      <3>2. Length \in DOMAIN InfoDict /\ Whole => phase' = "split" /\ torrent' = OfFile
        BY <1>2, FileParsed
      <3>3. OfFile' = OfFile
        BY <2>1, <2>4 DEF OfFile
      <3> QED BY <2>2, <2>4, <3>1, <3>2, <3>3 DEF FieldsKept, Fields, Endings, Running
    <2> QED BY <2>3, <2>5, <2>6
  <1>3. CASE SplitHashes
    <2>1. /\ phase = "split" /\ phase' = "announce"
          /\ hashes' = Cut(torrent.pieces, HashSize)
          /\ UNCHANGED <<metainfo, file, torrent>>
      BY <1>3 DEF SplitHashes, authored
    <2>2. FileRead' /\ Replied' /\ PeersAreTheTrackers' /\ HashForEveryPiece'
      BY <2>1 DEF FileRead, Replied, PeersAreTheTrackers, HashForEveryPiece
    <2>3. Whole' = Whole /\ InfoDict' = InfoDict /\ OfFile' = OfFile
      BY <2>1 DEF Whole, InfoDict, OfFile
    <2>4. TruncatedRejected'
      BY <2>1, <2>3 DEF TruncatedRejected
    <2>5. FieldsKept'
      BY <2>1, <2>3 DEF FieldsKept, Fields, Running
    <2> QED BY <2>2, <2>4, <2>5
  <1>4. ASSUME phase \in Running \ {"split"}, phase' \notin {"decode", "parse", "split"},
               UNCHANGED <<metainfo, file, torrent, hashes>>
        PROVE  FileRead' /\ FieldsKept' /\ TruncatedRejected'
    <2>1. Whole' = Whole /\ InfoDict' = InfoDict /\ OfFile' = OfFile
      BY <1>4 DEF Whole, InfoDict, OfFile
    <2>2. Fields' = Fields
      BY <1>4 DEF Fields, Running
    <2> QED BY <1>4, <2>1, <2>2 DEF FileRead, FieldsKept, TruncatedRejected, Running
  <1>5. CASE BuildUrl
    <2>1. /\ phase = "announce" /\ phase' \in {"request", "undefined"}
          /\ UNCHANGED <<metainfo, file, torrent, hashes>>
      BY <1>5 DEF BuildUrl, authored, Fail, Undefined
    <2>2. FileRead' /\ FieldsKept' /\ TruncatedRejected'
      BY <1>4, <2>1 DEF Running
    <2>3. Replied' /\ PeersAreTheTrackers' /\ HashForEveryPiece'
      BY <2>1 DEF Replied, PeersAreTheTrackers, HashForEveryPiece
    <2> QED BY <2>2, <2>3
  <1>6. CASE HttpGet
    <2>1. /\ phase = "request" /\ phase' = "reply"
          /\ tracker' \in PeerLists
          /\ response' \in Beginnings(encode(BDict(AnswerDict(tracker'))))
          /\ UNCHANGED <<metainfo, file, torrent, hashes, asked>>
      BY <1>6 DEF HttpGet, authored
    <2>2. FileRead' /\ FieldsKept' /\ TruncatedRejected'
      BY <1>4, <2>1 DEF Running
    <2>3. Replied' /\ PeersAreTheTrackers' /\ HashForEveryPiece'
      BY <2>1 DEF Replied, PeersAreTheTrackers, HashForEveryPiece, AnswerDict
    <2> QED BY <2>2, <2>3
  <1>7. CASE DecodeResponse
    <2>1. /\ phase = "reply" /\ phase' = "peers" /\ decoded' = decode(response)
          /\ UNCHANGED <<metainfo, file, torrent, hashes, asked, tracker, response>>
      BY <1>7 DEF DecodeResponse, authored, fromTracker
    <2>2. FileRead' /\ FieldsKept' /\ TruncatedRejected'
      BY <1>4, <2>1 DEF Running
    <2>3. AnswerDict(tracker)' = AnswerDict(tracker)
      BY <2>1 DEF AnswerDict
    <2>4. Replied' /\ PeersAreTheTrackers' /\ HashForEveryPiece'
      BY <2>1, <2>3 DEF Replied, PeersAreTheTrackers, HashForEveryPiece
    <2> QED BY <2>2, <2>4
  <1>8. CASE ParsePeers
    <2>1. /\ phase = "peers"
          /\ UNCHANGED <<metainfo, file, torrent, hashes, asked, tracker, response>>
      BY <1>8 DEF ParsePeers, authored
    <2>2. phase' \in Endings \cup {"done"}
      BY <1>8, PeersParsed
    <2>3. FileRead' /\ FieldsKept' /\ TruncatedRejected'
      BY <1>4, <2>1, <2>2 DEF Running, Endings
    <2>4. AnswerDict(tracker)' = AnswerDict(tracker)
      BY <2>1 DEF AnswerDict
    <2>5. phase' = "done" => \/ peers' = tracker /\ asked = torrent.info_hash
                            \/ Torn(encode(BDict(AnswerDict(tracker))), response)
      BY <1>8, PeersParsed
    <2>6. PeersAreTheTrackers'
      BY <2>1, <2>2, <2>4, <2>5 DEF PeersAreTheTrackers, Endings
    <2>7. Replied' /\ HashForEveryPiece'
      BY <2>2 DEF Replied, HashForEveryPiece, Endings
    <2> QED BY <2>3, <2>6, <2>7
  <1>9. CASE BuildMetadata
    <2>1. /\ phase = "done"
          /\ UNCHANGED <<metainfo, file, torrent, hashes, asked, tracker, response, peers>>
      BY <1>9 DEF BuildMetadata, authored, fromTracker
    <2>2. phase' \in {"undefined", "download"} /\ HashForEveryPiece'
      BY <1>9, HashesBuilt
    <2>3. FileRead' /\ FieldsKept' /\ TruncatedRejected'
      BY <1>4, <2>1, <2>2 DEF Running
    <2>4. AnswerDict(tracker)' = AnswerDict(tracker)
      BY <2>1 DEF AnswerDict
    <2>5. PeersAreTheTrackers'
      BY <2>1, <2>2, <2>4 DEF PeersAreTheTrackers
    <2>6. Replied'
      BY <2>2 DEF Replied
    <2> QED BY <2>2, <2>3, <2>5, <2>6
  <1>10. CASE UNCHANGED metainfoVars
    <2>1. /\ UNCHANGED <<metainfo, file, phase, decoded, torrent, hashes>>
          /\ UNCHANGED <<asked, tracker, response, peers, metadata>>
      BY <1>10 DEF metainfoVars, authored, fromTracker
    <2>2. Whole' = Whole /\ InfoDict' = InfoDict /\ OfFile' = OfFile
      BY <2>1 DEF Whole, InfoDict, OfFile
    <2>3. AnswerDict(tracker)' = AnswerDict(tracker)
      BY <2>1 DEF AnswerDict
    <2>4. FileRead' /\ FieldsKept' /\ TruncatedRejected'
      BY <2>1, <2>2 DEF FileRead, FieldsKept, Fields, TruncatedRejected
    <2>5. Replied' /\ PeersAreTheTrackers' /\ HashForEveryPiece'
      BY <2>1, <2>3 DEF Replied, PeersAreTheTrackers, HashForEveryPiece
    <2> QED BY <2>4, <2>5
  <1> QED BY <1>1, <1>2, <1>3, <1>5, <1>6, <1>7, <1>8, <1>9, <1>10 DEF Next

LEMMA MetaHolds == ASSUME Codec PROVE Spec => []MetaInv
  <1>1. MetaInv /\ [Next]_metainfoVars => MetaInv'
    BY MetaNext
  <1> QED BY <1>1, MetaInit, PTL DEF Spec

-----------------------------------------------------------------------------
(* The properties *)

\* decode gives back what encode wrote, for every dictionary that a torrent or a
\* tracker can be the encoding of, and takes nothing that ends early for one, unless
\* it ends inside the length of a string.
THEOREM CodecKept == ASSUME IsCodec, AuthoredTrees PROVE Spec => []CodecInverts
  <1>1. MetaInv => CodecInverts
    <2> SUFFICES ASSUME MetaInv PROVE CodecInverts
      OBVIOUS
    <2>1. phase = "decode" => Promised(metainfo, file)
      BY CodecHolds DEF MetaInv, FileRead, Codec
    <2>2. ASSUME phase = "reply"
          PROVE  Promised(AnswerDict(tracker), response)
      <3> DEFINE f == AnswerDict(tracker)
      <3>1. tracker \in PeerLists /\ response \in Beginnings(encode(BDict(f)))
        BY <2>2 DEF MetaInv, Replied
      <3>2. f \in {ReplyDict(list) : list \in PeerLists} \cup {RefusalDict}
        BY <3>1 DEF AnswerDict
      <3> HIDE DEF f
      <3>3. Promised(f, response)
        BY <3>1, <3>2, CodecHolds DEF Codec
      <3> QED BY <3>3 DEF f
    <2> QED BY <2>1, <2>2 DEF CodecInverts
  <1> QED BY <1>1, CodecHolds, MetaHolds, PTL

\* parse_torrent takes every whole torrent of
\* one file for what its author encoded, unknown keys included, and the hashes are
\* its pieces string cut up.
THEOREM TorrentParsed == ASSUME IsCodec, AuthoredTrees PROVE Spec => []TorrentIsTheFiles
  <1>1. MetaInv => TorrentIsTheFiles
    <2> SUFFICES ASSUME MetaInv, phase \notin {"decode", "parse"},
                        Length \in DOMAIN InfoDict, Whole
                 PROVE  /\ torrent = OfFile
                        /\ phase # "split" =>
                               /\ Joined(hashes, HashSize) = torrent.pieces
                               /\ \A i \in DOMAIN hashes : Len(hashes[i]) <= HashSize
      BY DEF TorrentIsTheFiles, OfFile
    <2>1. Fields /\ torrent = OfFile
      BY DEF MetaInv, FieldsKept
    <2> DEFINE Char == Byte \cup {"zero"}
               s == torrent.pieces
    <2>2. s \in Seq(Char) /\ HashSize \in Nat \ {0}
      BY <2>1, MetainfoAssumption DEF Fields, Text
    <2> HIDE DEF Char, s
    <2>3. AreParts(Cut(s, HashSize), Parts(Len(s), HashSize), s, Len(s), Char, HashSize)
      BY <2>2, CutParts
    <2>4. \A i \in DOMAIN Cut(s, HashSize) : Len(Cut(s, HashSize)[i]) <= HashSize
      BY <2>2, <2>3 DEF AreParts
    <2>5. Joined(Cut(s, HashSize), HashSize) = s
      BY <2>2, JoinedCut
    <2> QED BY <2>1, <2>4, <2>5 DEF Fields, s
  <1> QED BY <1>1, CodecHolds, MetaHolds, PTL

\* The program goes on only from a whole file, or from one that
\* ends inside the length of a string.
THEOREM CutFilesRejected == ASSUME IsCodec, AuthoredTrees PROVE Spec => []TruncatedRejected
  <1>1. MetaInv => TruncatedRejected
    BY DEF MetaInv
  <1> QED BY <1>1, CodecHolds, MetaHolds, PTL

\* The compact list of peers is taken apart as the tracker put it together.
THEOREM PeersRight == ASSUME IsCodec, AuthoredTrees PROVE Spec => []PeersAreTheTrackers
  <1>1. MetaInv => PeersAreTheTrackers
    BY DEF MetaInv
  <1> QED BY <1>1, CodecHolds, MetaHolds, PTL

\* main copies twenty bytes from every hash; for a torrent whose pieces string has
\* any length this changes none that is whole.
THEOREM HashesRight == ASSUME IsCodec, AuthoredTrees PROVE Spec => []HashForEveryPiece
  <1>1. MetaInv => HashForEveryPiece
    BY DEF MetaInv
  <1> QED BY <1>1, CodecHolds, MetaHolds, PTL
=============================================================================
