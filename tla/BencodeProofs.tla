--------------------------- MODULE BencodeProofs ---------------------------
(***************************************************************************)
(* The codec of bencode.cpp keeps its promise for every value and every    *)
(* byte at which its encoding may end.                                     *)
(***************************************************************************)
EXTENDS BencodeCalls, FiniteSetTheorems, SequenceTheorems, TLAPS

-----------------------------------------------------------------------------
(* Induction *)

\* A set of numbers that is not empty has a least one.
LEMMA LeastNumber ==
    ASSUME NEW S, S \subseteq Nat, S # {}
    PROVE  \E n \in S : \A m \in S : n <= m
  <1> DEFINE R == {ss \in Nat \X Nat : ss[1] < ss[2]}
  <1>1. R = OpToRel(<, Nat)
    BY Zenon DEF OpToRel
  <1>2. IsWellFoundedOn(R, Nat)
    BY <1>1, NatLessThanWellFounded
  <1>3. \A m, n \in Nat : <<m, n>> \in R <=> m < n
    OBVIOUS
  <1> HIDE DEF R
  <1>4. PICK n \in S : \A m \in S : ~ (<<m, n>> \in R)
    BY <1>2, WFMin
  <1>5. n \in Nat /\ \A m \in S : m \in Nat /\ ~(m < n)
    BY <1>3, <1>4
  <1> QED BY <1>5

\* What holds of a number when it holds of all that are less holds of all.
LEMMA AllNumbers ==
    ASSUME NEW S, \A n \in Nat : (\A m \in 0 .. n - 1 : m \in S) => n \in S
    PROVE  \A n \in Nat : n \in S
  <1> SUFFICES ASSUME Nat \ S # {} PROVE FALSE
    OBVIOUS
  <1>1. PICK n \in Nat \ S : \A m \in Nat \ S : n <= m
    BY LeastNumber
  <1>2. \A m \in 0 .. n - 1 : m \in S
    BY <1>1
  <1> QED BY <1>1, <1>2

LEMMA EachNumber ==
    ASSUME NEW S, 0 \in S, \A n \in Nat : n \in S => n + 1 \in S
    PROVE  \A n \in Nat : n \in S
  <1>1. ASSUME NEW n \in Nat, \A m \in 0 .. n - 1 : m \in S
        PROVE  n \in S
    <2>1. CASE n = 0
      BY <2>1
    <2>2. CASE n > 0
      <3>1. n - 1 \in S /\ n - 1 \in Nat
        BY <1>1, <2>2
      <3>2. (n - 1) + 1 \in S
        BY <3>1
      <3> QED BY <3>2
    <2> QED BY <2>1, <2>2
  <1> QED BY <1>1, AllNumbers

\* A loop that takes k turns has a result after each.
Runs(f, n, T, start, turn) ==
    /\ f \in [0 .. n -> T]
    /\ f[0] = start
    /\ \A k \in 1 .. n : f[k] = turn[k][f[k - 1]]

LEMMA LoopRuns ==
    ASSUME NEW T, NEW start \in T, NEW n \in Nat, NEW turn \in [1 .. n -> [T -> T]]
    PROVE  \E f : Runs(f, n, T, start, turn)
  <1> DEFINE S == {m \in Nat : m <= n => \E f : Runs(f, m, T, start, turn)}
  <1>1. 0 \in S
    <2>1. Runs([k \in 0 .. 0 |-> start], 0, T, start, turn)
      BY DEF Runs
    <2> QED BY <2>1
  <1>2. ASSUME NEW m \in Nat, m \in S
        PROVE  m + 1 \in S
    <2> SUFFICES ASSUME m + 1 <= n
                 PROVE  \E f : Runs(f, m + 1, T, start, turn)
      OBVIOUS
    <2>1. PICK f : Runs(f, m, T, start, turn)
      BY <1>2
    <2> DEFINE g == [k \in 0 .. m + 1 |-> IF k = m + 1 THEN turn[m + 1][f[m]] ELSE f[k]]
    <2>2. f[m] \in T /\ turn[m + 1][f[m]] \in T
      BY <2>1 DEF Runs
    <2>3. g \in [0 .. m + 1 -> T] /\ g[0] = start
      BY <2>1, <2>2 DEF Runs
    <2>4. ASSUME NEW k \in 1 .. m + 1
          PROVE  g[k] = turn[k][g[k - 1]]
      BY <2>1 DEF Runs
    <2> QED BY <2>3, <2>4 DEF Runs
  <1>3. \A m \in Nat : m \in S
    <2> HIDE DEF S
    <2> QED BY <1>1, <1>2, EachNumber
  <1> QED BY <1>3

-----------------------------------------------------------------------------
(* Bytes and digits *)

LEMMA BytesAreSequence ==
    /\ Len(Bytes) \in Nat
    /\ DOMAIN Bytes = 1 .. Len(Bytes)
  BY BencodeAssumption

LEMMA CodeIsPlace ==
    ASSUME NEW k \in DOMAIN Bytes
    PROVE  Code(Bytes[k]) = k
  BY BencodeAssumption DEF Code, codes

LEMMA CodeType ==
    ASSUME NEW c
    PROVE  Code(c) \in Nat
  <1>1. CASE c \in Byte
    BY <1>1, CodeIsPlace, BytesAreSequence DEF Byte
  <1>2. CASE c \notin Byte
    BY <1>2 DEF Code, codes, Byte
  <1> QED BY <1>1, <1>2

LEMMA WeightType ==
    ASSUME NEW c
    PROVE  Weight(c) \in Int
  BY CodeType DEF Weight

\* The digits are ten bytes, none of which stands for anything else.
LEMMA DigitIsByte ==
    ASSUME NEW n \in 0 .. 9
    PROVE  /\ IsDigit(Digit[n])
           /\ Digit[n] \in Byte
           /\ Weight(Digit[n]) = n
  <1>1. IsDigit(Digit[n])
    BY DEF IsDigit, DigitBytes, Digit, Digits
  <1>2. PICK k \in 1 .. Len(Bytes) - 9 : \A m \in 0 .. 9 : Bytes[k + m] = Digit[m]
    BY BencodeAssumption
  <1>3. k + n \in DOMAIN Bytes /\ k + 0 \in DOMAIN Bytes
    BY BytesAreSequence
  <1>4. Digit[0] = "0"
    BY DEF Digit, Digits
  <1>5. Code(Digit[n]) = k + n /\ Code(Digit[0]) = k + 0
    BY SMTT(30), <1>2, <1>3, CodeIsPlace
  <1>6. Weight(Digit[n]) = n
    BY <1>2, <1>4, <1>5 DEF Weight
  <1>7. Digit[n] \in Byte
    BY <1>2, <1>3 DEF Byte
  <1> QED BY <1>1, <1>6, <1>7

LEMMA SyntaxIsByte ==
    /\ Syntax \subseteq Byte
    /\ \A c \in Syntax \cup {"zero"} : ~IsDigit(c)
  <1>1. Syntax \subseteq Byte
    BY BencodeAssumption DEF Byte
  <1>2. \A c \in Syntax \cup {"zero"} : ~IsDigit(c)
    BY DEF Syntax, IsDigit, DigitBytes
  <1> QED BY <1>1, <1>2

LEMMA DigitsAreBytes == DigitBytes \subseteq Byte
  <1> SUFFICES ASSUME NEW c \in DigitBytes PROVE c \in Byte
    OBVIOUS
  <1>1. \E n \in 0 .. 9 : c = Digit[n]
    BY DEF DigitBytes, Digit, Digits
  <1> QED BY <1>1, DigitIsByte

-----------------------------------------------------------------------------
(* Numerals *)

\* The digits of n, when g has those of lesser numbers.
DigitsOf(g, n) == IF n < 10 THEN <<Digit[n]>>
                  ELSE g[n \div 10] \o <<Digit[n % 10]>>

\* g has the digits of the numbers below m.
AreDigits(g, m) == \A n \in 0 .. m - 1 : g[n] = DigitsOf(g, n)

LEMMA Tenth ==
    ASSUME NEW n \in Nat, n >= 10
    PROVE  /\ n \div 10 \in 0 .. n - 1
           /\ n % 10 \in 0 .. 9
           /\ 10 * (n \div 10) + (n % 10) = n
  OBVIOUS

LEMMA DigitsOfLess ==
    ASSUME NEW g, NEW h, NEW n \in Nat, \A j \in 0 .. n - 1 : g[j] = h[j]
    PROVE  DigitsOf(g, n) = DigitsOf(h, n)
  <1>1. CASE n < 10
    BY <1>1 DEF DigitsOf
  <1>2. CASE n >= 10
    <2>1. g[n \div 10] = h[n \div 10]
      BY <1>2, Tenth
    <2>2. DigitsOf(g, n) = g[n \div 10] \o <<Digit[n % 10]>>
      BY <1>2 DEF DigitsOf
    <2>3. DigitsOf(h, n) = h[n \div 10] \o <<Digit[n % 10]>>
      BY <1>2 DEF DigitsOf
    <2> QED BY <2>1, <2>2, <2>3
  <1> QED BY <1>1, <1>2

LEMMA SameDigits ==
    ASSUME NEW g, NEW h, NEW m \in Nat, AreDigits(g, m), AreDigits(h, m),
           NEW n \in 0 .. m - 1
    PROVE  g[n] = h[n]
  <1> DEFINE S == {k \in Nat : k < m => g[k] = h[k]}
  <1>1. ASSUME NEW k \in Nat, \A j \in 0 .. k - 1 : j \in S
        PROVE  k \in S
    <2> SUFFICES ASSUME k < m PROVE g[k] = h[k]
      OBVIOUS
    <2>1. DigitsOf(g, k) = DigitsOf(h, k)
      <3>1. \A j \in 0 .. k - 1 : g[j] = h[j]
        BY <1>1
      <3> QED BY <3>1, DigitsOfLess
    <2> QED BY <2>1 DEF AreDigits
  <1>2. \A k \in Nat : k \in S
    <2> HIDE DEF S
    <2> QED BY <1>1, AllNumbers
  <1> QED BY <1>2

LEMMA DigitsExist ==
    ASSUME NEW m \in Nat
    PROVE  \E g : AreDigits(g, m)
  <1> DEFINE S == {k \in Nat : \E g : AreDigits(g, k)}
  <1>1. 0 \in S
    BY DEF AreDigits
  <1>2. ASSUME NEW k \in Nat, k \in S
        PROVE  k + 1 \in S
    <2>1. PICK g : AreDigits(g, k)
      BY <1>2
    <2> DEFINE h == [n \in 0 .. k |-> IF n = k THEN DigitsOf(g, k) ELSE g[n]]
    <2>2. ASSUME NEW n \in 0 .. k
          PROVE  h[n] = DigitsOf(h, n)
      <3>1. \A j \in 0 .. n - 1 : g[j] = h[j]
        OBVIOUS
      <3>2. h[n] = DigitsOf(g, n)
        BY <2>1 DEF AreDigits
      <3> HIDE DEF h
      <3> QED BY <3>1, <3>2, DigitsOfLess
    <2> HIDE DEF h
    <2>3. AreDigits(h, k + 1)
      BY <2>2 DEF AreDigits
    <2> QED BY <2>3
  <1>3. \A k \in Nat : k \in S
    <2> HIDE DEF S
    <2> QED BY <1>1, <1>2, EachNumber
  <1> QED BY <1>3

\* digits is what its definition says.
LEMMA DigitsUnfold ==
    ASSUME NEW n \in Nat
    PROVE  digits[n] = DigitsOf(digits, n)
  <1> DEFINE part(m) == CHOOSE g : AreDigits(g, m + 1)
             all == [m \in Nat |-> part(m)[m]]
  <1>1. \A m \in Nat : AreDigits(part(m), m + 1)
    BY DigitsExist
  <1>2. ASSUME NEW m \in Nat
        PROVE  all[m] = DigitsOf(all, m)
    <2> HIDE DEF part
    <2>1. ASSUME NEW j \in 0 .. m - 1
          PROVE  part(m)[j] = part(j)[j]
      <3>1. AreDigits(part(m), j + 1) /\ AreDigits(part(j), j + 1)
        <4>1. AreDigits(part(m), m + 1) /\ AreDigits(part(j), j + 1)
          BY <1>1
        <4> QED BY <4>1 DEF AreDigits
      <3> QED BY <3>1, SameDigits
    <2>2. DigitsOf(part(m), m) = DigitsOf(all, m)
      <3>1. \A j \in 0 .. m - 1 : part(m)[j] = all[j]
        BY <2>1
      <3> HIDE DEF all
      <3> QED BY <3>1, DigitsOfLess
    <2>3. part(m)[m] = DigitsOf(part(m), m)
      BY <1>1 DEF AreDigits
    <2> QED BY <2>2, <2>3
  <1>3. all = [m \in Nat |-> DigitsOf(all, m)]
    <2> DEFINE rhs == [m \in Nat |-> DigitsOf(all, m)]
    <2>1. \A m \in Nat : all[m] = rhs[m]
      BY <1>2
    <2> QED BY <2>1
  <1> HIDE DEF all
  <1>4. digits = [m \in Nat |-> DigitsOf(digits, m)]
    BY <1>3 DEF digits, DigitsOf
  <1> QED BY <1>4

\* One byte of a number is read.
Counted(n, c) == IF c = "-" THEN n ELSE 10 * n + Weight(c)

\* f has the magnitudes of the beginnings of s.
IsCount(f, s) == /\ f \in [0 .. Len(s) -> Int]
                 /\ f[0] = 0
                 /\ \A k \in 1 .. Len(s) : f[k] = Counted(f[k - 1], s[k])

LEMMA CountedType ==
    ASSUME NEW n \in Int, NEW c
    PROVE  Counted(n, c) \in Int
  BY WeightType DEF Counted

LEMMA MagnitudeCounts ==
    ASSUME NEW s, Len(s) \in Nat
    PROVE  \E f : IsCount(f, s) /\ Magnitude(s) = f[Len(s)]
  <1> DEFINE turn == [k \in 1 .. Len(s) |-> [n \in Int |-> Counted(n, s[k])]]
  <1>1. turn \in [1 .. Len(s) -> [Int -> Int]]
    BY CountedType
  <1>2. PICK g : Runs(g, Len(s), Int, 0, turn)
    <2> HIDE DEF turn
    <2>1. 0 \in Int
      OBVIOUS
    <2> QED BY <1>1, <2>1, LoopRuns
  <1>3. g \in [0 .. Len(s) -> Int] /\ g[0] = 0
    BY <1>2 DEF Runs
  <1>4. ASSUME NEW k \in 1 .. Len(s)
        PROVE  g[k] = Counted(g[k - 1], s[k])
    <2>1. g[k] = turn[k][g[k - 1]]
      BY <1>2 DEF Runs
    <2>2. g[k - 1] \in Int
      BY <1>3
    <2> QED BY <2>1, <2>2
  <1>5. g = [k \in 0 .. Len(s) |-> IF k = 0 THEN 0
                                  ELSE IF s[k] = "-" THEN g[k - 1]
                                  ELSE 10 * g[k - 1] + Weight(s[k])]
    <2> DEFINE rhs == [k \in 0 .. Len(s) |-> IF k = 0 THEN 0
                                  ELSE IF s[k] = "-" THEN g[k - 1]
                                  ELSE 10 * g[k - 1] + Weight(s[k])]
    <2>1. \A k \in 0 .. Len(s) : g[k] = rhs[k]
      BY <1>3, <1>4 DEF Counted
    <2> QED BY <1>3, <2>1
  <1> DEFINE f[k \in 0 .. Len(s)] == IF k = 0 THEN 0
                                     ELSE IF s[k] = "-" THEN f[k - 1]
                                     ELSE 10 * f[k - 1] + Weight(s[k])
  <1>6. f = [k \in 0 .. Len(s) |-> IF k = 0 THEN 0
                                  ELSE IF s[k] = "-" THEN f[k - 1]
                                  ELSE 10 * f[k - 1] + Weight(s[k])]
    <2> HIDE DEF turn
    <2> QED BY <1>5
  <1>7. Magnitude(s) = f[Len(s)]
    BY DEF Magnitude
  <1> HIDE DEF f
  <1>8. DOMAIN f = 0 .. Len(s) /\ f[0] = 0
    BY <1>6
  <1>9. ASSUME NEW k \in 1 .. Len(s)
        PROVE  f[k] = Counted(f[k - 1], s[k])
    BY <1>6 DEF Counted
  <1>10. ASSUME NEW k \in 0 .. Len(s)
         PROVE  f[k] \in Int
    <2> DEFINE S == {m \in Nat : m <= Len(s) => f[m] \in Int}
    <2>1. 0 \in S
      BY <1>8
    <2>2. ASSUME NEW m \in Nat, m \in S
          PROVE  m + 1 \in S
      <3> SUFFICES ASSUME m + 1 <= Len(s) PROVE f[m + 1] \in Int
        OBVIOUS
      <3>1. f[m + 1] = Counted(f[m], s[m + 1])
        BY <1>9
      <3> QED BY <2>2, <3>1, CountedType
    <2>3. \A m \in Nat : m \in S
      <3> HIDE DEF S
      <3> QED BY <2>1, <2>2, EachNumber
    <2> QED BY <2>3
  <1>11. f \in [0 .. Len(s) -> Int]
    BY <1>6, <1>8, <1>10
  <1> QED BY <1>7, <1>8, <1>9, <1>11 DEF IsCount

LEMMA MagnitudeType ==
    ASSUME NEW s, Len(s) \in Nat
    PROVE  Magnitude(s) \in Int
  BY MagnitudeCounts DEF IsCount

\* Two counts agree as long as the bytes do.
LEMMA CountsAgree ==
    ASSUME NEW s, NEW t, NEW f, NEW g, IsCount(f, s), IsCount(g, t),
           NEW d \in Nat, g[d] = 0,
           NEW m \in Nat, m <= Len(s), d + m <= Len(t),
           Len(s) \in Nat, Len(t) \in Nat,
           \A k \in 1 .. m : t[d + k] = s[k]
    PROVE  g[d + m] = f[m]
  <1> DEFINE S == {k \in Nat : k <= m => g[d + k] = f[k]}
  <1>1. 0 \in S
    BY DEF IsCount
  <1>2. ASSUME NEW k \in Nat, k \in S
        PROVE  k + 1 \in S
    <2> SUFFICES ASSUME k + 1 <= m PROVE g[d + k + 1] = f[k + 1]
      OBVIOUS
    <2>1. f[k + 1] = Counted(f[k], s[k + 1])
      <3>1. (k + 1) - 1 = k /\ k + 1 \in 1 .. Len(s)
        OBVIOUS
      <3> QED BY <3>1 DEF IsCount
    <2>2. g[d + k + 1] = Counted(g[d + k], t[d + k + 1])
      <3>1. (d + k + 1) - 1 = d + k /\ d + k + 1 \in 1 .. Len(t)
        OBVIOUS
      <3> QED BY <3>1 DEF IsCount
    <2>3. t[d + k + 1] = s[k + 1]
      <3>1. d + (k + 1) = d + k + 1 /\ k + 1 \in 1 .. m
        OBVIOUS
      <3> QED BY <3>1
    <2> QED BY <1>2, <2>1, <2>2, <2>3
  <1>3. \A k \in Nat : k \in S
    <2> HIDE DEF S
    <2> QED BY <1>1, <1>2, EachNumber
  <1> QED BY <1>3

\* A byte more.
LEMMA MagnitudeAppend ==
    ASSUME NEW T, NEW s \in Seq(T), NEW c \in T
    PROVE  Magnitude(s \o <<c>>) = Counted(Magnitude(s), c)
  <1> DEFINE t == s \o <<c>>
             n == Len(s)
  <1>1. n \in Nat /\ Len(t) = n + 1 /\ t[n + 1] = c
    OBVIOUS
  <1>2. \A k \in 1 .. n : t[k] = s[k]
    OBVIOUS
  <1>3. PICK f : IsCount(f, s) /\ Magnitude(s) = f[n]
    BY <1>1, MagnitudeCounts
  <1>4. PICK g : IsCount(g, t) /\ Magnitude(t) = g[n + 1]
    <2> HIDE DEF t, n
    <2>1. Len(t) \in Nat
      BY <1>1
    <2> QED BY <1>1, <2>1, MagnitudeCounts
  <1> HIDE DEF t, n
  <1>5. g[n] = f[n]
    <2>1. g[0] = 0
      BY <1>4 DEF IsCount
    <2>2. \A k \in 1 .. n : t[0 + k] = s[k]
      BY <1>2
    <2>3. g[0 + n] = f[n]
      BY <1>1, <1>3, <1>4, <2>1, <2>2, CountsAgree DEF n
    <2> QED BY <1>1, <2>3
  <1>6. g[n + 1] = Counted(g[n], c)
    <2>1. (n + 1) - 1 = n /\ n + 1 \in 1 .. Len(t)
      BY <1>1
    <2> QED BY <1>1, <1>4, <2>1 DEF IsCount
  <1> QED BY <1>3, <1>4, <1>5, <1>6 DEF t

\* A sign in front.
LEMMA MagnitudeSigned ==
    ASSUME NEW T, NEW s \in Seq(T), "-" \in T
    PROVE  Magnitude(<<"-">> \o s) = Magnitude(s)
  <1> DEFINE t == <<"-">> \o s
             n == Len(s)
  <1>1. n \in Nat /\ Len(t) = n + 1 /\ t[1] = "-"
    OBVIOUS
  <1>2. \A k \in 1 .. n : t[1 + k] = s[k]
    OBVIOUS
  <1>3. PICK f : IsCount(f, s) /\ Magnitude(s) = f[n]
    BY <1>1, MagnitudeCounts
  <1>4. PICK g : IsCount(g, t) /\ Magnitude(t) = g[n + 1]
    <2> HIDE DEF t, n
    <2>1. Len(t) \in Nat
      BY <1>1
    <2> QED BY <1>1, <2>1, MagnitudeCounts
  <1> HIDE DEF t, n
  <1>5. g[1] = 0
    <2>1. 1 \in 1 .. Len(t) /\ 1 - 1 = 0
      BY <1>1
    <2>2. g[1] = Counted(g[0], t[1])
      BY <1>4, <2>1 DEF IsCount
    <2> QED BY <1>1, <1>4, <2>2 DEF IsCount, Counted
  <1>6. g[1 + n] = f[n]
    <2>1. Len(s) \in Nat /\ Len(t) \in Nat /\ n <= Len(s) /\ 1 + n <= Len(t) /\ 1 \in Nat
      BY <1>1 DEF n
    <2>2. ASSUME NEW d \in Nat, d = 1
          PROVE  g[d + n] = f[n]
      <3>1. g[d] = 0 /\ d + n <= Len(t) /\ \A k \in 1 .. n : t[d + k] = s[k]
        BY <1>2, <1>5, <2>1, <2>2
      <3> QED BY SMTT(30), <1>1, <1>3, <1>4, <2>1, <3>1, CountsAgree
    <2> QED BY <2>2
  <1>7. 1 + n = n + 1
    BY <1>1
  <1> QED BY <1>3, <1>4, <1>6, <1>7 DEF t

\* A numeral is digits, at least one, and counts as its number.
LEMMA DigitsCount ==
    ASSUME NEW n \in Nat
    PROVE  /\ digits[n] \in Seq(DigitBytes)
           /\ digits[n] # <<>>
           /\ Magnitude(digits[n]) = n
  <1> DEFINE S == {m \in Nat : /\ digits[m] \in Seq(DigitBytes)
                               /\ digits[m] # <<>>
                               /\ Magnitude(digits[m]) = m}
  <1>1. ASSUME NEW m \in Nat, \A j \in 0 .. m - 1 : j \in S
        PROVE  m \in S
    <2>1. CASE m < 10
      <3> DEFINE c == Digit[m]
      <3>1. m \in 0 .. 9
        BY <2>1
      <3>2. c \in DigitBytes /\ Weight(c) = m /\ c # "-"
        BY <3>1, DigitIsByte, SyntaxIsByte DEF IsDigit, Syntax
      <3> HIDE DEF c
      <3>3. digits[m] = <<c>>
        BY <2>1, DigitsUnfold DEF DigitsOf, c
      <3>4. <<>> \in Seq(DigitBytes) /\ <<>> \o <<c>> = <<c>>
        BY <3>2
      <3>5. Magnitude(<<c>>) = Counted(Magnitude(<<>>), c)
        BY <3>2, <3>4, MagnitudeAppend
      <3>6. Magnitude(<<>>) = 0
        <4>1. Len(<<>>) = 0
          OBVIOUS
        <4>2. PICK f : IsCount(f, <<>>) /\ Magnitude(<<>>) = f[Len(<<>>)]
          BY <4>1, MagnitudeCounts
        <4> QED BY <4>1, <4>2 DEF IsCount
      <3>7. Counted(0, c) = m
        BY <3>2 DEF Counted
      <3>8. <<c>> \in Seq(DigitBytes) /\ <<c>> # <<>>
        BY <3>2
      <3> QED BY <3>3, <3>5, <3>6, <3>7, <3>8
    <2>2. CASE m >= 10
      <3> DEFINE q == m \div 10
                 c == Digit[m % 10]
      <3>1. q \in 0 .. m - 1 /\ m % 10 \in 0 .. 9 /\ 10 * q + (m % 10) = m
        BY <2>2, Tenth
      <3>2. c \in DigitBytes /\ Weight(c) = m % 10 /\ c # "-"
        BY <3>1, DigitIsByte, SyntaxIsByte DEF IsDigit, Syntax
      <3>3. digits[m] = digits[q] \o <<c>>
        <4>1. digits[m] = DigitsOf(digits, m)
          BY DigitsUnfold
        <4>2. DigitsOf(digits, m) = digits[q] \o <<c>>
          BY <2>2 DEF DigitsOf
        <4> QED BY <4>1, <4>2
      <3> HIDE DEF q, c
      <3>4. digits[q] \in Seq(DigitBytes) /\ Magnitude(digits[q]) = q
        BY <1>1, <3>1
      <3>5. Magnitude(digits[m]) = Counted(q, c)
        BY <3>2, <3>3, <3>4, MagnitudeAppend
      <3>6. Counted(q, c) = m
        BY <3>1, <3>2 DEF Counted
      <3>7. digits[m] \in Seq(DigitBytes) /\ digits[m] # <<>>
        BY <3>2, <3>3, <3>4
      <3> QED BY <3>5, <3>6, <3>7
    <2> QED BY <2>1, <2>2
  <1>2. \A m \in Nat : m \in S
    <2> HIDE DEF S
    <2> QED BY <1>1, AllNumbers
  <1> QED BY <1>2

LEMMA DecimalBytes ==
    ASSUME NEW n \in Int
    PROVE  /\ Decimal(n) \in Seq(DigitBytes \cup {"-"})
           /\ Decimal(n) # <<>>
           /\ n >= 0 => Decimal(n) = digits[n]
  <1>1. CASE n >= 0
    BY <1>1, DigitsCount DEF Decimal
  <1>2. CASE n < 0
    <2>1. -n \in Nat
      BY <1>2
    <2>2. digits[-n] \in Seq(DigitBytes)
      BY <2>1, DigitsCount
    <2> QED BY <1>2, <2>2 DEF Decimal
  <1> QED BY <1>1, <1>2

\* What decode_integer reads is what to_string wrote.
LEMMA NumberInverts ==
    ASSUME NEW n \in Int
    PROVE  Number(Decimal(n)) = n
  <1>1. ASSUME NEW m \in Nat
        PROVE  /\ digits[m] \in Seq(DigitBytes) /\ Magnitude(digits[m]) = m
               /\ ~Contains(digits[m], "-")
    <2>1. digits[m] \in Seq(DigitBytes) /\ Magnitude(digits[m]) = m
      BY DigitsCount
    <2>2. "-" \notin DigitBytes
      BY SyntaxIsByte DEF Syntax, IsDigit
    <2> QED BY <2>1, <2>2 DEF Contains
  <1>2. CASE n >= 0
    BY <1>1, <1>2 DEF Decimal, Number
  <1>3. CASE n < 0
    <2> DEFINE d == digits[-n]
    <2>1. -n \in Nat
      BY <1>3
    <2>2. d \in Seq(DigitBytes) /\ Magnitude(d) = -n
      BY <1>1, <2>1
    <2> HIDE DEF d
    <2>3. Decimal(n) = <<"-">> \o d
      BY <1>3 DEF Decimal, d
    <2>4. Contains(<<"-">> \o d, "-")
      <3>1. (<<"-">> \o d)[1] = "-" /\ 1 \in 1 .. Len(<<"-">> \o d)
        BY <2>2
      <3> QED BY <3>1 DEF Contains
    <2>5. Magnitude(<<"-">> \o d) = -n
      <3> DEFINE T == DigitBytes \cup {"-"}
      <3>1. d \in Seq(T) /\ "-" \in T
        BY <2>2
      <3> HIDE DEF T
      <3> QED BY <2>2, <3>1, MagnitudeSigned
    <2> QED BY <2>1, <2>3, <2>4, <2>5 DEF Number
  <1> QED BY <1>2, <1>3

\* So is what stoi reads.
LEMMA StoiInverts ==
    ASSUME NEW n \in Nat
    PROVE  IsNumber(digits[n]) /\ Stoi(digits[n]) = n
  <1> DEFINE d == digits[n]
  <1>1. d \in Seq(DigitBytes) /\ d # <<>> /\ Magnitude(d) = n
    BY DigitsCount
  <1> HIDE DEF d
  <1>2. Head(d) \in DigitBytes /\ Head(d) # "-"
    <2>1. Head(d) \in DigitBytes
      BY <1>1
    <2> QED BY <2>1, SyntaxIsByte DEF Syntax, IsDigit
  <1>3. Unsigned(d) = d
    BY <1>2 DEF Unsigned
  <1>4. IsNumber(d)
    BY <1>1, <1>2, <1>3 DEF IsNumber, IsDigit
  <1>5. SelectInSeq(d, LAMBDA c : ~IsDigit(c)) = 0
    <2>1. {i \in 1 .. Len(d) : ~IsDigit(d[i])} = {}
      BY <1>1 DEF IsDigit
    <2> QED BY <2>1 DEF SelectInSeq
  <1>6. Stoi(d) = n
    BY <1>1, <1>2, <1>3, <1>5 DEF Stoi
  <1> QED BY <1>4, <1>6 DEF d

-----------------------------------------------------------------------------
(* Searching a text *)

LEMMA FindFirst ==
    ASSUME NEW text \in Text, NEW c, NEW pos \in Nat, NEW p \in pos .. Len(text) - 1,
           text[p + 1] = c, \A k \in pos .. p - 1 : text[k + 1] # c
    PROVE  Find(text, c, pos) = p
  <1> DEFINE hits == {k \in pos .. Len(text) - 1 : text[k + 1] = c}
  <1>0. Len(text) \in Nat
    BY DEF Text
  <1>1. p \in hits /\ \A k \in hits : p <= k
    <2>1. ASSUME NEW k \in hits, k < p PROVE FALSE
      <3>1. k \in pos .. p - 1 /\ text[k + 1] = c
        BY <1>0, <2>1
      <3> QED BY <3>1
    <2>2. p \in hits
      BY <1>0
    <2>3. \A k \in hits : k \in Int
      BY <1>0
    <2> QED BY <2>1, <2>2, <2>3
  <1>2. hits # {} /\ hits \subseteq Int
    BY <1>0, <1>1
  <1>3. Find(text, c, pos) = Min(hits)
    BY <1>2 DEF Find
  <1> HIDE DEF hits
  <1>4. ASSUME NEW q \in hits, \A k \in hits : q <= k
        PROVE  q = p
    BY <1>1, <1>2, <1>4
  <1>5. Min(hits) = p
    BY <1>1, <1>4 DEF Min
  <1> QED BY <1>3, <1>5

LEMMA FindNone ==
    ASSUME NEW text, NEW c, NEW pos, \A k \in pos .. Len(text) - 1 : text[k + 1] # c
    PROVE  Find(text, c, pos) = Npos
  BY DEF Find

LEMMA FindType ==
    ASSUME NEW text \in Text, NEW c, NEW pos \in Nat
    PROVE  \/ Find(text, c, pos) = Npos
           \/ Find(text, c, pos) \in pos .. Len(text) - 1
  <1> DEFINE hits == {k \in pos .. Len(text) - 1 : text[k + 1] = c}
  <1>1. hits \subseteq Nat
    BY DEF Text
  <1>2. CASE hits = {}
    BY <1>2 DEF Find
  <1>3. CASE hits # {}
    <2>1. Find(text, c, pos) = Min(hits)
      BY <1>3 DEF Find
    <2>2. Min(hits) \in hits
      <3> HIDE DEF hits
      <3>1. PICK q \in hits : \A k \in hits : q <= k
        BY <1>1, <1>3, LeastNumber
      <3> QED BY <3>1 DEF Min
    <2> QED BY <2>1, <2>2
  <1> QED BY <1>2, <1>3

\* The text has e at pos.
Holds(text, pos, e) ==
    /\ pos + Len(e) <= Len(text)
    /\ \A k \in 1 .. Len(e) : text[pos + k] = e[k]

LEMMA HoldsParts ==
    ASSUME NEW T, NEW a \in Seq(T), NEW b \in Seq(T), NEW text \in Text, NEW pos \in Nat,
           Holds(text, pos, a \o b)
    PROVE  Holds(text, pos, a) /\ Holds(text, pos + Len(a), b)
  <1> DEFINE m == Len(a)
             n == Len(b)
  <1>1. m \in Nat /\ n \in Nat /\ Len(a \o b) = m + n /\ Len(text) \in Nat
    BY DEF Text
  <1>2. \A k \in 1 .. m : (a \o b)[k] = a[k]
    OBVIOUS
  <1>3. \A k \in 1 .. n : (a \o b)[m + k] = b[k]
    OBVIOUS
  <1>4. pos + m + n <= Len(text) /\ \A k \in 1 .. m + n : text[pos + k] = (a \o b)[k]
    BY <1>1 DEF Holds
  <1>5. Holds(text, pos, a)
    <2>1. ASSUME NEW k \in 1 .. m
          PROVE  text[pos + k] = a[k]
      <3>1. k \in 1 .. m + n
        BY <1>1
      <3> QED BY <1>2, <1>4, <3>1
    <2> QED BY <1>1, <1>4, <2>1 DEF Holds
  <1>6. ASSUME NEW k \in 1 .. n
        PROVE  text[pos + m + k] = b[k]
    <2>1. m + k \in 1 .. m + n /\ pos + (m + k) = pos + m + k
      BY <1>1
    <2> QED BY <1>3, <1>4, <2>1
  <1> QED BY <1>1, <1>4, <1>5, <1>6 DEF Holds

\* A text that may end early, though not inside the length of a string.  The whole
\* of it is that of a dictionary.
IsCut(text, whole) ==
    /\ text \in Text /\ whole \in Text
    /\ Len(whole) >= 1 /\ whole[1] = "d"
    /\ Len(text) <= Len(whole)
    /\ \A k \in 1 .. Len(text) : text[k] = whole[k]
    /\ Len(text) \in 1 .. Len(whole) - 1 /\ IsDigit(whole[Len(text)]) =>
           ~IsDigit(whole[Len(text) + 1]) /\ whole[Len(text) + 1] # ":"

\* What the text holds where the whole holds e.
LEMMA CutHolds ==
    ASSUME NEW text, NEW whole, IsCut(text, whole), NEW e, Len(e) \in Nat,
           NEW pos \in Nat, Holds(whole, pos, e),
           NEW k \in 1 .. Len(e), pos + k <= Len(text)
    PROVE  text[pos + k] = e[k]
  <1>1. Len(text) \in Nat
    BY DEF IsCut, Text
  <1>2. pos + k \in 1 .. Len(text)
    BY <1>1
  <1> QED BY <1>2 DEF IsCut, Holds

-----------------------------------------------------------------------------
(* Strings and integers *)

LEMMA SizedParts ==
    ASSUME NEW s \in Seq(Byte)
    PROVE  /\ digits[Len(s)] \in Seq(Byte) /\ digits[Len(s)] # <<>>
           /\ \A k \in 1 .. Len(digits[Len(s)]) : IsDigit(digits[Len(s)][k])
           /\ <<":">> \in Seq(Byte)
           /\ Sized(s) = (digits[Len(s)] \o <<":">>) \o s
           /\ Sized(s) \in Seq(Byte)
           /\ Len(Sized(s)) = Len(digits[Len(s)]) + 1 + Len(s)
  <1> DEFINE d == digits[Len(s)]
  <1>1. d \in Seq(DigitBytes) /\ d # <<>> /\ Decimal(Len(s)) = d
    BY DigitsCount, DecimalBytes
  <1>2. Sized(s) = (d \o <<":">>) \o s
    BY <1>1 DEF Sized
  <1> HIDE DEF d
  <1>3. ":" \in Byte
    BY SyntaxIsByte DEF Syntax
  <1>4. d \in Seq(Byte) /\ \A k \in 1 .. Len(d) : IsDigit(d[k])
    BY <1>1, DigitsAreBytes DEF IsDigit
  <1>5. Sized(s) \in Seq(Byte) /\ Len(Sized(s)) = Len(d) + 1 + Len(s)
    BY <1>2, <1>3, <1>4
  <1> QED BY <1>1, <1>2, <1>3, <1>4, <1>5 DEF d

\* A part of a text that is e.
LEMMA BetweenIs ==
    ASSUME NEW T, NEW text \in Seq(T), NEW e \in Seq(T), NEW pos \in Nat,
           pos + Len(e) <= Len(text), \A k \in 1 .. Len(e) : text[pos + k] = e[k]
    PROVE  Between(text, pos, pos + Len(e)) = e
  <1> DEFINE m == Len(e)
             t == SubSeq(text, pos + 1, pos + m)
  <1>1. m \in Nat /\ Len(text) \in Nat /\ pos + m # Npos
    BY DEF Npos
  <1>2. Between(text, pos, pos + m) = t
    BY <1>1 DEF Between
  <1>3. t \in Seq(T) /\ Len(t) = m /\ \A k \in 1 .. m : t[k] = text[pos + k]
    <2>1. \A k \in pos + 1 .. pos + m : text[k] \in T
      BY <1>1
    <2>2. pos + 1 \in Int /\ pos + m \in Int
      BY <1>1
    <2>3. /\ t \in Seq(T)
          /\ Len(t) = IF pos + 1 <= pos + m THEN pos + m - (pos + 1) + 1 ELSE 0
          /\ \A k \in 1 .. pos + m - (pos + 1) + 1 : t[k] = text[(pos + 1) + k - 1]
      BY <2>1, <2>2, SubSeqProperties
    <2> HIDE DEF t
    <2>4. pos + m - (pos + 1) + 1 = m /\ \A k \in 1 .. m : (pos + 1) + k - 1 = pos + k
      BY <1>1
    <2>5. Len(t) = m
      BY <1>1, <2>3
    <2> QED BY <2>3, <2>4, <2>5
  <1> HIDE DEF t
  <1>4. t = e
    BY <1>1, <1>3
  <1> QED BY <1>2, <1>4 DEF m

\* decode_string finds the length that encode wrote.
LEMMA LengthFound ==
    ASSUME NEW text, NEW whole, IsCut(text, whole), NEW s \in Seq(Byte),
           NEW pos \in Nat, Holds(whole, pos, Sized(s)),
           pos + Len(digits[Len(s)]) < Len(text)
    PROVE  /\ Find(text, ":", pos) = pos + Len(digits[Len(s)])
           /\ Between(text, pos, pos + Len(digits[Len(s)])) = digits[Len(s)]
  <1> DEFINE d == digits[Len(s)]
             m == Len(d)
             e == Sized(s)
  <1>1. /\ d \in Seq(Byte) /\ d # <<>> /\ \A k \in 1 .. m : IsDigit(d[k])
        /\ e = (d \o <<":">>) \o s /\ e \in Seq(Byte) /\ Len(e) = m + 1 + Len(s)
    BY SizedParts
  <1> HIDE DEF d, e
  <1>2. m \in Nat /\ Len(s) \in Nat
    BY <1>1
  <1>3. text \in Text /\ Len(text) \in Nat
    BY DEF IsCut, Text
  <1>4. e[m + 1] = ":" /\ \A k \in 1 .. m : e[k] = d[k]
    <2>1. (d \o <<":">>) \in Seq(Byte \cup {":"}) /\ Len(d \o <<":">>) = m + 1
      BY <1>1
    <2>2. (d \o <<":">>)[m + 1] = ":" /\ \A k \in 1 .. m : (d \o <<":">>)[k] = d[k]
      BY <1>1
    <2> QED BY <1>1, <1>2, <2>1, <2>2
  <1>5. \A k \in 1 .. m + 1 : text[pos + k] = e[k]
    <2> SUFFICES ASSUME NEW k \in 1 .. m + 1
                 PROVE  text[pos + k] = e[k]
      OBVIOUS
    <2>1. k \in 1 .. Len(e) /\ pos + k <= Len(text) /\ Len(e) \in Nat
      BY <1>1, <1>2, <1>3 DEF d
    <2>2. Holds(whole, pos, e)
      BY DEF e
    <2> QED BY <2>1, <2>2, CutHolds
  <1>6. Find(text, ":", pos) = pos + m
    <2>1. pos + m \in pos .. Len(text) - 1
      BY <1>2, <1>3 DEF d
    <2>2. text[(pos + m) + 1] = ":"
      <3>1. m + 1 \in 1 .. m + 1 /\ pos + (m + 1) = (pos + m) + 1
        BY <1>2
      <3> QED BY <1>4, <1>5, <3>1
    <2>3. ASSUME NEW k \in pos .. pos + m - 1
          PROVE  text[k + 1] # ":"
      <3>1. k - pos + 1 \in 1 .. m /\ k - pos + 1 \in 1 .. m + 1 /\ pos + (k - pos + 1) = k + 1
        BY <1>2
      <3>2. text[k + 1] = d[k - pos + 1]
        BY <1>4, <1>5, <3>1
      <3>3. IsDigit(text[k + 1])
        BY <1>1, <3>1, <3>2
      <3> QED BY <3>3, SyntaxIsByte DEF Syntax
    <2> QED BY <1>3, <2>1, <2>2, <2>3, FindFirst
  <1>7. Between(text, pos, pos + m) = d
    <2>1. text \in Seq(Byte \cup {"zero"}) /\ d \in Seq(Byte \cup {"zero"})
      BY <1>1, <1>3 DEF Text
    <2>2. pos + m <= Len(text)
      BY <1>2, <1>3 DEF d
    <2>3. \A k \in 1 .. m : text[pos + k] = d[k]
      BY <1>2, <1>4, <1>5
    <2> QED BY <2>1, <2>2, <2>3, BetweenIs
  <1> QED BY <1>6, <1>7 DEF d

LEMMA StringDecoded ==
    ASSUME NEW text, NEW whole, IsCut(text, whole), NEW s \in Seq(Byte),
           NEW pos \in Nat, Holds(whole, pos, Sized(s)),
           pos + Len(Sized(s)) <= Len(text)
    PROVE  DecodeString(text, pos) = Decoded(BStr(s), pos + Len(Sized(s)))
  <1> DEFINE d == digits[Len(s)]
             m == Len(d)
             n == Len(s)
             e == Sized(s)
             p == pos + m
             start == p + 1
             end == start + n
  <1>1. /\ d \in Seq(Byte) /\ e = (d \o <<":">>) \o s /\ e \in Seq(Byte)
        /\ Len(e) = m + 1 + n
    BY SizedParts
  <1>2. n \in Nat /\ IsNumber(d) /\ Stoi(d) = n
    BY StoiInverts
  <1>3. text \in Text /\ Len(text) \in Nat
    BY DEF IsCut, Text
  <1>4. m \in Nat /\ end = pos + Len(e) /\ p < Len(text) /\ end <= Len(text)
    BY <1>1, <1>2, <1>3
  <1>5. Find(text, ":", pos) = p /\ Between(text, pos, p) = d
    BY <1>4, LengthFound
  <1>6. Taken(text, start, end) = s
    <2>1. end - start = n
      BY <1>2, <1>4
    <2>2. ASSUME NEW i \in 1 .. n
          PROVE  At(text, start + i - 1) = s[i]
      <3>1. /\ start + i - 1 # Len(text) /\ (start + i - 1) + 1 = pos + (m + 1 + i)
            /\ m + 1 + i \in 1 .. Len(e) /\ pos + (m + 1 + i) <= Len(text)
        BY <1>1, <1>2, <1>3, <1>4
      <3>2. e[m + 1 + i] = s[i]
        <4> HIDE DEF d, e
        <4>1. d \o <<":">> \in Seq(Byte \cup {":"}) /\ Len(d \o <<":">>) = m + 1
          BY <1>1
        <4> QED BY <1>1, <4>1
      <3>3. text[pos + (m + 1 + i)] = e[m + 1 + i]
        <4> DEFINE j == m + 1 + i
        <4>1. Len(e) \in Nat /\ Holds(whole, pos, e)
          BY <1>1
        <4>2. j \in 1 .. Len(e) /\ pos + j <= Len(text)
          BY <3>1
        <4> HIDE DEF e, j
        <4>3. text[pos + j] = e[j]
          BY <4>1, <4>2, CutHolds
        <4> QED BY <4>3 DEF j
      <3> QED BY <3>1, <3>2, <3>3 DEF At
    <2> HIDE DEF start, end
    <2> QED BY <2>1, <2>2 DEF Taken
  <1> HIDE DEF d, m
  <1>7. end <= Len(text) + 1
    BY <1>3, <1>4
  <1>8. DecodeString(text, pos) = Decoded(BStr(Taken(text, start, end)), end)
    BY <1>2, <1>3, <1>4, <1>5, <1>7 DEF DecodeString
  <1> QED BY <1>4, <1>6, <1>8

\* Where a text ends early decoding fails, there or when it goes on.
Dead(outcome, n) == Failed(outcome) \/ outcome.pos \in {0, n + 1}

LEMMA NothingLeft ==
    ASSUME NEW text \in Text
    PROVE  DecodeString(text, Len(text)) = Throws
  <1> DEFINE n == Len(text)
  <1>1. n \in Nat
    BY DEF Text
  <1>2. Find(text, ":", n) = Npos
    BY <1>1, FindNone
  <1>3. Between(text, n, Npos) = <<>>
    BY <1>1 DEF Between, Text
  <1>4. ~IsNumber(<<>>)
    BY DEF IsNumber, Unsigned
  <1> QED BY <1>2, <1>3, <1>4 DEF DecodeString

LEMMA StringCut ==
    ASSUME NEW text, NEW whole, IsCut(text, whole), NEW s \in Seq(Byte),
           NEW pos \in 0 .. Len(text), Holds(whole, pos, Sized(s)),
           pos + Len(Sized(s)) > Len(text)
    PROVE  Dead(DecodeString(text, pos), Len(text))
  <1> DEFINE d == digits[Len(s)]
             m == Len(d)
             n == Len(text)
             e == Sized(s)
             p == pos + m
  <1>1. /\ d \in Seq(Byte) /\ d # <<>> /\ \A k \in 1 .. m : IsDigit(d[k])
        /\ e = (d \o <<":">>) \o s /\ e \in Seq(Byte) /\ Len(e) = m + 1 + Len(s)
    BY SizedParts
  <1>2. Len(s) \in Nat /\ IsNumber(d) /\ Stoi(d) = Len(s)
    BY StoiInverts
  <1>3. text \in Text /\ n \in Nat /\ pos \in Nat
    BY DEF IsCut, Text
  <1>4. m \in Nat /\ m > 0
    BY <1>1
  <1>5. CASE pos = n
    BY <1>3, <1>5, NothingLeft DEF Dead, Failed, Throws
  <1>6. CASE p < n
    <2> DEFINE end == p + 1 + Len(s)
    <2>1. Find(text, ":", pos) = p /\ Between(text, pos, p) = d
      BY <1>3, <1>6, LengthFound
    <2>2. end > n /\ end \in Nat
      BY <1>1, <1>2, <1>3, <1>4
    <2> HIDE DEF d, m
    <2>3. CASE end > n + 1
      <3>1. DecodeString(text, pos) = Undefined
        BY <1>2, <1>3, <1>4, <2>1, <2>3 DEF DecodeString
      <3> QED BY <3>1 DEF Dead, Failed, Undefined
    <2>4. CASE end = n + 1
      <3>1. DecodeString(text, pos) = Decoded(BStr(Taken(text, p + 1, end)), end)
        BY <1>2, <1>3, <1>4, <2>1, <2>4 DEF DecodeString
      <3> QED BY <2>4, <3>1 DEF Dead, Decoded
    <2> QED BY <1>3, <2>2, <2>3, <2>4
  <1>7. CASE pos < n /\ n <= p
    <2> HIDE DEF d, e
    <2>1. Holds(whole, pos, e) /\ Len(whole) \in Nat
      BY DEF e, IsCut, Text
    <2>2. pos + Len(e) <= Len(whole) /\ \A k \in 1 .. Len(e) : whole[pos + k] = e[k]
      BY <2>1 DEF Holds
    <2>3. e[m + 1] = ":" /\ \A k \in 1 .. m : e[k] = d[k]
      <3>1. (d \o <<":">>) \in Seq(Byte \cup {":"}) /\ Len(d \o <<":">>) = m + 1
        BY <1>1
      <3>2. (d \o <<":">>)[m + 1] = ":" /\ \A k \in 1 .. m : (d \o <<":">>)[k] = d[k]
        BY <1>1
      <3> QED BY <1>1, <1>4, <3>1, <3>2
    <2> DEFINE k == n - pos
    <2>4. k \in 1 .. m /\ pos + k = n /\ pos + (k + 1) = n + 1 /\ k + 1 \in 1 .. m + 1
      BY <1>3, <1>4, <1>7
    <2>5. n \in 1 .. Len(whole) - 1 /\ k \in 1 .. Len(e) /\ k + 1 \in 1 .. Len(e)
      <3>1. Len(e) = m + 1 + Len(s)
        BY <1>1 DEF d, e
      <3> QED BY <1>2, <1>3, <1>4, <1>7, <2>1, <2>2, <2>4, <3>1
    <2> HIDE DEF k
    <2>6. IsDigit(whole[n])
      BY <1>1, <2>2, <2>3, <2>4, <2>5
    <2>7. whole[n + 1] = ":" \/ IsDigit(whole[n + 1])
      <3>1. whole[n + 1] = e[k + 1]
        BY <2>2, <2>4, <2>5
      <3>2. k + 1 = m + 1 \/ k + 1 \in 1 .. m
        BY <1>4, <2>4
      <3> QED BY <1>1, <2>3, <3>1, <3>2
    <2> QED BY <2>5, <2>6, <2>7 DEF IsCut
  <1> QED BY <1>3, <1>4, <1>5, <1>6, <1>7

\* What encode writes for an integer.
IntegerText(n) == <<"i">> \o Decimal(n) \o <<"e">>

LEMMA IntegerParts ==
    ASSUME NEW n \in Int
    PROVE  /\ Decimal(n) \in Seq(Byte)
           /\ Len(Decimal(n)) \in Nat
           /\ Len(IntegerText(n)) = Len(Decimal(n)) + 2
           /\ IntegerText(n) \in Seq(Byte)
           /\ IntegerText(n)[1] = "i"
           /\ IntegerText(n)[Len(Decimal(n)) + 2] = "e"
           /\ \A k \in 1 .. Len(Decimal(n)) :
                  IntegerText(n)[k + 1] = Decimal(n)[k] /\ Decimal(n)[k] # "e"
  <1> DEFINE d == Decimal(n)
  <1>1. d \in Seq(DigitBytes \cup {"-"})
    BY DecimalBytes
  <1>2. "-" \in Byte /\ "i" \in Byte /\ "e" \in Byte
    BY SyntaxIsByte DEF Syntax
  <1>3. d \in Seq(Byte)
    BY <1>1, <1>2, DigitsAreBytes
  <1>4. \A k \in 1 .. Len(d) : d[k] # "e"
    <2>1. "e" \notin DigitBytes \cup {"-"}
      BY SyntaxIsByte DEF Syntax, IsDigit
    <2> QED BY <1>1, <2>1
  <1>5. IntegerText(n) = (<<"i">> \o d) \o <<"e">>
    BY DEF IntegerText
  <1> HIDE DEF d
  <1> QED BY <1>2, <1>3, <1>4, <1>5 DEF d

LEMMA IntegerDecoded ==
    ASSUME NEW text, NEW whole, IsCut(text, whole), NEW i \in Int,
           NEW pos \in Nat, Holds(whole, pos, IntegerText(i)),
           pos + Len(IntegerText(i)) <= Len(text)
    PROVE  DecodeInteger(text, pos) = Decoded(BInt(i), pos + Len(IntegerText(i)))
  <1> DEFINE d == Decimal(i)
             m == Len(d)
             e == IntegerText(i)
             p == (pos + 1) + m
  <1>1. /\ d \in Seq(Byte) /\ m \in Nat /\ Len(e) = m + 2
        /\ e[m + 2] = "e" /\ \A k \in 1 .. m : e[k + 1] = d[k] /\ d[k] # "e"
    BY IntegerParts
  <1>2. Number(d) = i
    BY NumberInverts
  <1>3. text \in Text /\ Len(text) \in Nat
    BY DEF IsCut, Text
  <1> HIDE DEF d, e
  <1>4. \A k \in 1 .. m + 2 : text[pos + k] = e[k]
    <2> SUFFICES ASSUME NEW k \in 1 .. m + 2
                 PROVE  text[pos + k] = e[k]
      OBVIOUS
    <2>1. k \in 1 .. Len(e) /\ pos + k <= Len(text) /\ Len(e) \in Nat
      BY <1>1, <1>3 DEF e
    <2>2. Holds(whole, pos, e)
      BY DEF e
    <2> QED BY <2>1, <2>2, CutHolds
  <1>5. Find(text, "e", pos + 1) = p
    <2>1. pos + 1 \in Nat /\ p \in pos + 1 .. Len(text) - 1
      BY <1>1, <1>3 DEF e
    <2>2. text[p + 1] = "e"
      <3>1. p + 1 = pos + (m + 2) /\ m + 2 \in 1 .. m + 2
        BY <1>1
      <3> QED BY <1>1, <1>4, <3>1
    <2>3. ASSUME NEW k \in pos + 1 .. p - 1
          PROVE  text[k + 1] # "e"
      <3> DEFINE j == k - pos
      <3>1. j \in 1 .. m /\ j + 1 \in 1 .. m + 2 /\ pos + (j + 1) = k + 1
        BY <1>1
      <3> HIDE DEF j
      <3>2. text[k + 1] = e[j + 1]
        BY <1>4, <3>1
      <3> QED BY <1>1, <3>1, <3>2
    <2> HIDE DEF p
    <2> QED BY <1>3, <2>1, <2>2, <2>3, FindFirst
  <1>6. Between(text, pos + 1, p) = d
    <2>1. text \in Seq(Byte \cup {"zero"}) /\ d \in Seq(Byte \cup {"zero"})
      BY <1>1, <1>3 DEF Text
    <2>2. (pos + 1) + m <= Len(text) /\ pos + 1 \in Nat
      BY <1>1, <1>3 DEF e
    <2>3. ASSUME NEW k \in 1 .. m
          PROVE  text[(pos + 1) + k] = d[k]
      <3>1. (pos + 1) + k = pos + (k + 1) /\ k + 1 \in 1 .. m + 2
        BY <1>1
      <3> QED BY <1>1, <1>4, <3>1
    <2> QED BY <2>1, <2>2, <2>3, BetweenIs
  <1> HIDE DEF m
  <1>7. DecodeInteger(text, pos) = Decoded(BInt(i), p + 1)
    BY <1>2, <1>5, <1>6 DEF DecodeInteger
  <1>8. p + 1 = pos + Len(e)
    BY <1>1
  <1> QED BY <1>7, <1>8 DEF e

LEMMA IntegerCut ==
    ASSUME NEW text, NEW whole, IsCut(text, whole), NEW i \in Int,
           NEW pos \in 0 .. Len(text) - 1, Holds(whole, pos, IntegerText(i)),
           pos + Len(IntegerText(i)) > Len(text)
    PROVE  Dead(DecodeInteger(text, pos), Len(text))
  <1> DEFINE d == Decimal(i)
             m == Len(d)
             e == IntegerText(i)
  <1>1. /\ m \in Nat /\ Len(e) = m + 2
        /\ \A k \in 1 .. m : e[k + 1] = d[k] /\ d[k] # "e"
    BY IntegerParts
  <1>2. Len(text) \in Nat /\ pos \in Nat
    BY DEF IsCut, Text
  <1> HIDE DEF d, e
  <1>3. ASSUME NEW k \in pos + 1 .. Len(text) - 1
        PROVE  text[k + 1] # "e"
    <2>1. /\ k - pos \in 1 .. m /\ (k - pos) + 1 \in 1 .. Len(e)
          /\ pos + ((k - pos) + 1) = k + 1 /\ k + 1 <= Len(text) /\ Len(e) \in Nat
      BY <1>1, <1>2 DEF e
    <2>2. Holds(whole, pos, e)
      BY DEF e
    <2>3. text[pos + ((k - pos) + 1)] = e[(k - pos) + 1]
      BY <1>2, <2>1, <2>2, CutHolds
    <2> QED BY <1>1, <2>1, <2>3
  <1>4. Find(text, "e", pos + 1) = Npos
    BY <1>3, FindNone
  <1>5. DecodeInteger(text, pos).pos = 0
    BY <1>4 DEF DecodeInteger, Decoded, Npos
  <1> QED BY <1>5 DEF Dead

-----------------------------------------------------------------------------
(* The order of keys *)

LEMMA CodesDiffer ==
    ASSUME NEW c \in Byte, NEW d \in Byte, c # d
    PROVE  Code(c) < Code(d) \/ Code(d) < Code(c)
  <1>1. Code(c) # Code(d)
    BY CodeIsPlace DEF Byte
  <1> QED BY <1>1, CodeType

LEMMA BeforeIrreflexive ==
    ASSUME NEW a \in Seq(Byte)
    PROVE  ~Before(a, a)
  BY CodeType DEF Before

\* n bytes of a and b agree, and then a ends or has the lesser byte.
BeforeAt(a, b, n) ==
    /\ n \in 0 .. Len(b) - 1 /\ n <= Len(a)
    /\ \A i \in 1 .. n : a[i] = b[i]
    /\ n = Len(a) \/ Code(a[n + 1]) < Code(b[n + 1])

LEMMA BeforeTransitive ==
    ASSUME NEW a \in Seq(Byte), NEW b \in Seq(Byte), NEW c \in Seq(Byte),
           Before(a, b), Before(b, c)
    PROVE  Before(a, c)
  <1>1. PICK m : BeforeAt(a, b, m)
    BY DEF Before, BeforeAt
  <1>2. PICK n : BeforeAt(b, c, n)
    BY DEF Before, BeforeAt
  <1>3. /\ Len(a) \in Nat /\ Len(b) \in Nat /\ Len(c) \in Nat
        /\ m \in Nat /\ n \in Nat
        /\ m < Len(b) /\ m <= Len(a) /\ n < Len(c) /\ n <= Len(b)
    BY <1>1, <1>2 DEF BeforeAt
  <1>4. \E k \in Nat : BeforeAt(a, c, k)
    <2>1. CASE m < n
      <3>1. m + 1 \in 1 .. n
        BY <1>3, <2>1
      <3>2. b[m + 1] = c[m + 1]
        BY <1>2, <3>1 DEF BeforeAt
      <3>3. BeforeAt(a, c, m)
        BY <1>1, <1>2, <1>3, <2>1, <3>2 DEF BeforeAt
      <3> QED BY <1>3, <3>3
    <2>2. CASE m = n
      <3>1. Code(b[m + 1]) < Code(c[m + 1])
        BY <1>2, <1>3, <2>2 DEF BeforeAt
      <3>2. m = Len(a) \/ Code(a[m + 1]) < Code(c[m + 1])
        BY <1>1, <3>1, CodeType DEF BeforeAt
      <3>3. BeforeAt(a, c, m)
        BY <1>1, <1>2, <1>3, <2>2, <3>2 DEF BeforeAt
      <3> QED BY <1>3, <3>3
    <2>3. CASE n < m
      <3>1. n + 1 \in 1 .. m
        BY <1>3, <2>3
      <3>2. a[n + 1] = b[n + 1]
        BY <1>1, <3>1 DEF BeforeAt
      <3>3. Code(b[n + 1]) < Code(c[n + 1])
        BY <1>2, <1>3, <2>3 DEF BeforeAt
      <3>4. BeforeAt(a, c, n)
        BY <1>1, <1>2, <1>3, <2>3, <3>2, <3>3 DEF BeforeAt
      <3> QED BY <1>3, <3>4
    <2> QED BY <1>3, <2>1, <2>2, <2>3
  <1> QED BY <1>4 DEF Before, BeforeAt

LEMMA BeforeTotal ==
    ASSUME NEW a \in Seq(Byte), NEW b \in Seq(Byte), a # b
    PROVE  Before(a, b) \/ Before(b, a)
  <1> DEFINE differ(n) == n = Len(a) \/ n = Len(b) \/ a[n + 1] # b[n + 1]
             S == {n \in Nat : n <= Len(a) /\ n <= Len(b) /\ differ(n)}
  <1>1. Len(a) \in Nat /\ Len(b) \in Nat
    OBVIOUS
  <1>2. S # {}
    <2>1. Len(a) \in S \/ Len(b) \in S
      BY <1>1
    <2> QED BY <2>1
  <1>3. PICK n \in S : \A k \in S : n <= k
    <2>1. S \subseteq Nat
      OBVIOUS
    <2> HIDE DEF S
    <2> QED BY <1>2, <2>1, LeastNumber
  <1>4. ASSUME NEW i \in 1 .. n
        PROVE  a[i] = b[i]
    <2>1. n \in Nat /\ n <= Len(a) /\ n <= Len(b)
      BY <1>3
    <2>2. i - 1 \in Nat /\ i - 1 < Len(a) /\ i - 1 < Len(b) /\ (i - 1) + 1 = i
      BY <1>1, <2>1
    <2>3. i - 1 \notin S
      <3> HIDE DEF S
      <3> QED BY <1>3, <2>1
    <2> QED BY <2>2, <2>3
  <1>5. CASE n = Len(a) /\ n = Len(b)
    <2>1. Len(a) = Len(b) /\ \A i \in 1 .. Len(a) : a[i] = b[i]
      BY <1>4, <1>5
    <2>2. a = b
      BY <2>1
    <2> QED BY <2>2
  <1>6. CASE n = Len(a) /\ n < Len(b)
    <2>1. n \in 0 .. Len(b) - 1 /\ n <= Len(a)
      BY <1>1, <1>3, <1>6
    <2> QED BY <1>4, <1>6, <2>1 DEF Before
  <1>7. CASE n = Len(b) /\ n < Len(a)
    <2>1. n \in 0 .. Len(a) - 1 /\ n <= Len(b)
      BY <1>1, <1>3, <1>7
    <2>2. \A i \in 1 .. n : b[i] = a[i]
      BY <1>4
    <2> QED BY <1>7, <2>1, <2>2 DEF Before
  <1>8. CASE n < Len(a) /\ n < Len(b)
    <2>1. n + 1 \in 1 .. Len(a) /\ n + 1 \in 1 .. Len(b)
      BY <1>1, <1>3, <1>8
    <2>2. a[n + 1] \in Byte /\ b[n + 1] \in Byte /\ a[n + 1] # b[n + 1]
      BY <1>3, <1>8, <2>1
    <2>3. Code(a[n + 1]) < Code(b[n + 1]) \/ Code(b[n + 1]) < Code(a[n + 1])
      BY <2>2, CodesDiffer
    <2>4. /\ n \in 0 .. Len(b) - 1 /\ n <= Len(a) /\ n \in 0 .. Len(a) - 1 /\ n <= Len(b)
          /\ \A i \in 1 .. n : b[i] = a[i]
      BY <1>1, <1>3, <1>4, <1>8
    <2> QED BY <1>4, <2>3, <2>4 DEF Before
  <1>9. n <= Len(a) /\ n <= Len(b)
    BY <1>3
  <1>10. n \in Nat
    BY <1>3
  <1> QED BY <1>1, <1>5, <1>6, <1>7, <1>8, <1>9, <1>10

\* Every key has a place of its own in the order.
LEMMA SortedKeys ==
    ASSUME NEW keys, IsFiniteSet(keys), keys \subseteq Seq(Byte)
    PROVE  /\ Sorted(keys) \in Seq(keys)
           /\ \A k \in keys : \E i \in 1 .. Len(Sorted(keys)) : Sorted(keys)[i] = k
  <1> DEFINE n == Cardinality(keys)
             less(k) == {j \in keys : Before(j, k)}
             rank == [k \in keys |-> Cardinality(less(k)) + 1]
  <1>1. n \in Nat
    BY FS_CardinalityType
  <1>2. ASSUME NEW k \in keys
        PROVE  /\ IsFiniteSet(less(k)) /\ Cardinality(less(k)) \in Nat
               /\ Cardinality(less(k)) < n
    <2>1. less(k) \in SUBSET keys /\ less(k) # keys
      BY BeforeIrreflexive
    <2> HIDE DEF less
    <2>2. /\ IsFiniteSet(less(k)) /\ Cardinality(less(k)) <= n
          /\ Cardinality(less(k)) # n
      BY <2>1, FS_Subset
    <2>3. Cardinality(less(k)) \in Nat
      BY <2>2, FS_CardinalityType
    <2> QED BY <1>1, <2>2, <2>3
  <1>3. ASSUME NEW a \in keys, NEW b \in keys, Before(a, b)
        PROVE  Cardinality(less(a)) < Cardinality(less(b))
    <2>1. less(a) \in SUBSET less(b)
      BY <1>3, BeforeTransitive
    <2>2. a \in less(b) /\ a \notin less(a)
      BY <1>3, BeforeIrreflexive
    <2> HIDE DEF less
    <2>3. /\ Cardinality(less(a)) <= Cardinality(less(b))
          /\ Cardinality(less(b)) # Cardinality(less(a))
      BY <1>2, <2>1, <2>2, FS_Subset
    <2> QED BY <1>2, <2>3
  <1>4. rank \in Injection(keys, 1 .. n)
    <2>1. rank \in [keys -> 1 .. n]
      <3> HIDE DEF less
      <3> QED BY <1>1, <1>2
    <2>2. ASSUME NEW a \in keys, NEW b \in keys, rank[a] = rank[b]
          PROVE  a = b
      <3>1. Cardinality(less(a)) = Cardinality(less(b))
        <4> HIDE DEF less
        <4> QED BY <1>2, <2>2
      <3>2. ~Before(a, b) /\ ~Before(b, a)
        <4> HIDE DEF less
        <4>1. Cardinality(less(a)) \in Nat /\ Cardinality(less(b)) \in Nat
          BY <1>2
        <4> QED BY <1>3, <3>1, <4>1
      <3> QED BY <3>2, BeforeTotal
    <2> HIDE DEF rank
    <2> QED BY <2>1, <2>2 DEF Injection, IsInjective
  <1>5. rank \in Surjection(keys, 1 .. n)
    <2>1. IsFiniteSet(1 .. n) /\ Cardinality(1 .. n) = n
      BY <1>1, FS_Interval
    <2> HIDE DEF rank
    <2> QED BY <1>4, <2>1, FS_Injection
  <1>6. ASSUME NEW i \in 1 .. n
        PROVE  /\ Sorted(keys)[i] \in keys
               /\ Cardinality(less(Sorted(keys)[i])) = i - 1
    <2>1. PICK k \in keys : rank[k] = i
      <3> HIDE DEF rank
      <3> QED BY <1>5 DEF Surjection
    <2>2. Cardinality(less(k)) = i - 1
      <3> HIDE DEF less
      <3> QED BY <1>2, <2>1
    <2>3. Sorted(keys)[i] = CHOOSE j \in keys : Cardinality(less(j)) = i - 1
      BY DEF Sorted
    <2> HIDE DEF less
    <2> QED BY <2>2, <2>3
  <1>7. Sorted(keys) \in Seq(keys) /\ Len(Sorted(keys)) = n
    <2>1. Sorted(keys) \in [1 .. n -> keys]
      BY <1>6 DEF Sorted
    <2> QED BY <1>1, <2>1
  <1>8. ASSUME NEW k \in keys
        PROVE  Sorted(keys)[rank[k]] = k /\ rank[k] \in 1 .. n
    <2> DEFINE j == Sorted(keys)[rank[k]]
    <2>1. rank[k] \in 1 .. n
      BY <1>4 DEF Injection
    <2>2. j \in keys /\ Cardinality(less(j)) = rank[k] - 1
      <3> HIDE DEF rank, less
      <3> QED BY <1>6, <2>1
    <2>3. rank[j] = rank[k]
      <3> HIDE DEF less, j
      <3> QED BY <1>2, <2>2
    <2> HIDE DEF rank, j
    <2>4. j = k
      BY <1>4, <2>2, <2>3 DEF Injection, IsInjective
    <2> QED BY <2>1, <2>4 DEF j
  <1> QED BY <1>7, <1>8

-----------------------------------------------------------------------------
(* The calls *)

\* The codec of Bencode, whose definitions call each other and cannot be read
\* here: what they say, of every value and of the calls that end, is a hypothesis.
CONSTANTS Encode(_), Decode(_, _, _), Items(_, _, _, _, _), Entries(_, _, _, _, _)

EncodeCalls == \A v : IsTree(v) => Encode(v) = EncodeCall(Encode, v)

DecodeCalls ==
    \A text \in Text : \A active, seen \in SUBSET (0 .. Len(text)) : \A pos, result :
        /\ Decode(text, pos, active) = DecodeCall(Items, Entries, text, pos, active)
        /\ Items(text, pos, result, seen, active) =
               ItemsCall(Decode, Items, text, pos, result, seen, active)
        /\ Entries(text, pos, result, seen, active) =
               EntriesCall(Decode, Entries, text, pos, result, seen, active)

\* decode looks at one byte.
LEMMA DecodeIs ==
    ASSUME DecodeCalls, NEW text \in Text, NEW active \in SUBSET (0 .. Len(text)),
           NEW pos
    PROVE  /\ pos \notin 0 .. Len(text) => Decode(text, pos, active) = Undefined
           /\ pos \in active => Decode(text, pos, active) = Diverges
           /\ pos \in (0 .. Len(text)) \ active =>
                  /\ IsDigit(At(text, pos)) =>
                         Decode(text, pos, active) = DecodeString(text, pos)
                  /\ At(text, pos) = "i" =>
                         Decode(text, pos, active) = DecodeInteger(text, pos)
                  /\ At(text, pos) = "l" =>
                         Decode(text, pos, active) =
                             Items(text, pos + 1, <<>>, {}, active \cup {pos})
                  /\ At(text, pos) = "d" =>
                         Decode(text, pos, active) =
                             Entries(text, pos + 1, <<>>, {}, active \cup {pos})
                  /\ ~IsDigit(At(text, pos)) /\ At(text, pos) \notin {"i", "l", "d"} =>
                         Decode(text, pos, active) = Throws
  <1>1. Decode(text, pos, active) = DecodeCall(Items, Entries, text, pos, active)
    BY DEF DecodeCalls
  <1>2. \A c \in {"i", "l", "d"} : ~IsDigit(c)
    BY SyntaxIsByte DEF Syntax
  <1> QED BY <1>1, <1>2 DEF DecodeCall, Readable

\* One turn of the loop of decode_list.
LEMMA ItemsIs ==
    ASSUME DecodeCalls, NEW text \in Text, NEW active \in SUBSET (0 .. Len(text)),
           NEW seen \in SUBSET (0 .. Len(text)), NEW pos, NEW result
    PROVE  /\ pos \notin 0 .. Len(text) =>
                  Items(text, pos, result, seen, active) = Undefined
           /\ pos \in seen => Items(text, pos, result, seen, active) = Diverges
           /\ pos \in (0 .. Len(text)) \ seen =>
                  /\ At(text, pos) = "e" =>
                         Items(text, pos, result, seen, active) =
                             Decoded(BList(result), pos + 1)
                  /\ At(text, pos) # "e" /\ Failed(Decode(text, pos, active)) =>
                         Items(text, pos, result, seen, active) =
                             Decode(text, pos, active)
                  /\ At(text, pos) # "e" /\ ~Failed(Decode(text, pos, active)) =>
                         Items(text, pos, result, seen, active) =
                             Items(text, Decode(text, pos, active).pos,
                                   Append(result, Decode(text, pos, active).value),
                                   seen \cup {pos}, active)
  <1>1. Items(text, pos, result, seen, active) =
            ItemsCall(Decode, Items, text, pos, result, seen, active)
    BY DEF DecodeCalls
  <1> QED BY <1>1 DEF ItemsCall, Readable

\* One turn of the loop of decode_dict.
ValueAt(text, pos, active) == Decode(text, DecodeString(text, pos).pos, active)

LEMMA EntriesIs ==
    ASSUME DecodeCalls, NEW text \in Text, NEW active \in SUBSET (0 .. Len(text)),
           NEW seen \in SUBSET (0 .. Len(text)), NEW pos, NEW result
    PROVE  /\ pos \notin 0 .. Len(text) =>
                  Entries(text, pos, result, seen, active) = Undefined
           /\ pos \in seen => Entries(text, pos, result, seen, active) = Diverges
           /\ pos \in (0 .. Len(text)) \ seen =>
                  /\ At(text, pos) = "e" =>
                         Entries(text, pos, result, seen, active) =
                             Decoded(BDict(result), pos + 1)
                  /\ At(text, pos) # "e" /\ Failed(DecodeString(text, pos)) =>
                         Entries(text, pos, result, seen, active) =
                             DecodeString(text, pos)
                  /\ /\ At(text, pos) # "e" /\ ~Failed(DecodeString(text, pos))
                     /\ Failed(ValueAt(text, pos, active))
                     => Entries(text, pos, result, seen, active) =
                            ValueAt(text, pos, active)
  <1>1. Entries(text, pos, result, seen, active) =
            EntriesCall(Decode, Entries, text, pos, result, seen, active)
    BY DEF DecodeCalls
  <1> QED BY <1>1 DEF EntriesCall, Readable, Closed, ValueAt

\* A turn reads an entry, and the loop goes on after it.
GoesOn(text, pos, result, seen, active) ==
    Entries(text, pos, result, seen, active) =
        Entries(text, ValueAt(text, pos, active).pos,
                Assigned(result, DecodeString(text, pos).value.string,
                         ValueAt(text, pos, active).value),
                seen \cup {pos}, active)

LEMMA EntriesGoOn ==
    ASSUME DecodeCalls, NEW text \in Text, NEW active \in SUBSET (0 .. Len(text)),
           NEW seen \in SUBSET (0 .. Len(text)), NEW result,
           NEW pos \in (0 .. Len(text)) \ seen, At(text, pos) # "e",
           ~Failed(DecodeString(text, pos)), ~Failed(ValueAt(text, pos, active))
    PROVE  GoesOn(text, pos, result, seen, active)
  <1>1. Entries(text, pos, result, seen, active) =
            EntriesCall(Decode, Entries, text, pos, result, seen, active)
    BY DEF DecodeCalls
  <1> QED BY <1>1 DEF EntriesCall, Readable, Closed, ValueAt, GoesOn

-----------------------------------------------------------------------------
(* What encode writes *)

LEMMA Concatenated ==
    ASSUME NEW T, NEW a \in Seq(T), NEW b \in Seq(T), NEW c, c = a \o b
    PROVE  /\ c \in Seq(T)
           /\ Len(a) \in Nat /\ Len(b) \in Nat
           /\ Len(c) = Len(a) + Len(b)
           /\ \A k \in 1 .. Len(a) : c[k] = a[k]
           /\ \A k \in 1 .. Len(b) : c[Len(a) + k] = b[k]
  OBVIOUS

\* What a loop that appends the parts to the start has after each of m turns.
IsLoop(f, m, start, part) ==
    f = [k \in 0 .. m |-> IF k = 0 THEN start ELSE f[k - 1] \o part[k]]

\* f has what a loop has written after each of its m turns.
Grows(f, m, start, part) ==
    /\ f \in [0 .. m -> Seq(Byte)]
    /\ f[0] = start
    /\ \A k \in 1 .. m : f[k] = f[k - 1] \o part[k]

LEMMA GrowsOnce ==
    ASSUME NEW m \in Nat, NEW start \in Seq(Byte), NEW part \in [1 .. m -> Seq(Byte)],
           NEW f, IsLoop(f, m, start, part)
    PROVE  Grows(f, m, start, part)
  <1>0. ASSUME NEW k \in 0 .. m
        PROVE  /\ k = 0 => f[k] = start
               /\ k # 0 => f[k] = f[k - 1] \o part[k]
    BY DEF IsLoop
  <1>1. f[0] = start /\ \A k \in 1 .. m : f[k] = f[k - 1] \o part[k]
    <2>1. 0 \in 0 .. m /\ \A k \in 1 .. m : k \in 0 .. m /\ k # 0
      OBVIOUS
    <2> QED BY <1>0, <2>1
  <1> DEFINE S == {k \in Nat : k <= m => f[k] \in Seq(Byte)}
  <1>2. 0 \in S
    BY <1>1
  <1>3. ASSUME NEW k \in Nat, k \in S
        PROVE  k + 1 \in S
    <2> SUFFICES ASSUME k + 1 <= m PROVE f[k + 1] \in Seq(Byte)
      OBVIOUS
    <2>1. (k + 1) - 1 = k /\ k + 1 \in 1 .. m
      OBVIOUS
    <2>2. f[k + 1] = f[k] \o part[k + 1]
      BY <1>1, <2>1
    <2>3. f[k] \in Seq(Byte) /\ part[k + 1] \in Seq(Byte)
      BY <1>3, <2>1
    <2> QED BY <2>2, <2>3, Concatenated
  <1>4. \A k \in Nat : k \in S
    <2> HIDE DEF S
    <2> QED BY <1>2, <1>3, EachNumber
  <1>5. ASSUME NEW k \in 0 .. m
        PROVE  f[k] \in Seq(Byte)
    <2>1. k \in Nat /\ k <= m
      OBVIOUS
    <2>2. k \in S
      BY <1>4, <2>1
    <2> QED BY <2>1, <2>2
  <1>6. f = [k \in 0 .. m |-> f[k]]
    <2> DEFINE rhs == [k \in 0 .. m |-> IF k = 0 THEN start ELSE f[k - 1] \o part[k]]
    <2>1. f = rhs /\ DOMAIN rhs = 0 .. m
      BY DEF IsLoop
    <2> HIDE DEF rhs
    <2>2. DOMAIN f = 0 .. m
      BY <2>1
    <2>3. rhs = [k \in DOMAIN rhs |-> rhs[k]]
      BY DEF rhs
    <2> QED BY <2>1, <2>3
  <1>7. f \in [0 .. m -> Seq(Byte)]
    BY <1>5, <1>6
  <1> QED BY <1>1, <1>7 DEF Grows

LEMMA GrowsExists ==
    ASSUME NEW m \in Nat, NEW start \in Seq(Byte), NEW part \in [1 .. m -> Seq(Byte)]
    PROVE  \E f : IsLoop(f, m, start, part)
  <1> DEFINE T == Seq(Byte)
             turn == [k \in 1 .. m |-> [s \in T |-> s \o part[k]]]
  <1>1. turn \in [1 .. m -> [T -> T]]
    OBVIOUS
  <1>2. PICK f : Runs(f, m, T, start, turn)
    <2> HIDE DEF turn, T
    <2>1. start \in T
      BY DEF T
    <2> QED BY <1>1, <2>1, LoopRuns
  <1>3. DOMAIN f = 0 .. m /\ f[0] = start
    BY <1>2 DEF Runs
  <1>4. ASSUME NEW k \in 1 .. m
        PROVE  f[k] = f[k - 1] \o part[k]
    <2>1. k - 1 \in 0 .. m
      OBVIOUS
    <2>2. f[k] = turn[k][f[k - 1]] /\ f[k - 1] \in T
      <3> HIDE DEF turn, T
      <3> QED BY <1>2, <2>1 DEF Runs
    <2>3. \A t \in T : turn[k][t] = t \o part[k]
      OBVIOUS
    <2> HIDE DEF turn, T
    <2> QED BY <2>2, <2>3
  <1>5. IsLoop(f, m, start, part)
    <2> DEFINE turned(k) == IF k = 0 THEN start ELSE f[k - 1] \o part[k]
    <2>1. \A k \in 0 .. m : f[k] = turned(k)
      <3>1. ASSUME NEW k \in 0 .. m
            PROVE  f[k] = turned(k)
        <4>1. CASE k = 0
          BY <1>3, <4>1
        <4>2. CASE k \in 1 .. m
          <5>1. f[k] = f[k - 1] \o part[k]
            BY <1>4, <4>2
          <5>2. k # 0
            BY <4>2
          <5> QED BY <5>1, <5>2
        <4> QED BY <4>1, <4>2
      <3> HIDE DEF turned
      <3> QED BY <3>1
    <2>2. f = [k \in 0 .. m |-> f[k]]
      <3> HIDE DEF T, turn
      <3> QED BY <1>2 DEF Runs
    <2> HIDE DEF turned
    <2>3. f = [k \in 0 .. m |-> turned(k)]
      BY <2>1, <2>2
    <2> QED BY <2>3 DEF turned, IsLoop
  <1> QED BY <1>5

\* Each part is where its turn left it.
HoldsEach(text, pos, f, m, part) ==
    \A k \in 1 .. m : /\ Holds(text, pos + Len(f[k - 1]), part[k])
                      /\ Len(f[k]) = Len(f[k - 1]) + Len(part[k])

LEMMA GrowsHolds ==
    ASSUME NEW m \in Nat, NEW start, NEW part \in [1 .. m -> Seq(Byte)],
           NEW f, Grows(f, m, start, part),
           NEW text \in Text, NEW pos \in Nat, Holds(text, pos, f[m])
    PROVE  HoldsEach(text, pos, f, m, part)
  <1> DEFINE S == {j \in Nat : j <= m => Holds(text, pos, f[m - j])}
  <1>1. ASSUME NEW k \in 1 .. m
        PROVE  /\ f[k - 1] \in Seq(Byte) /\ part[k] \in Seq(Byte)
               /\ f[k] = f[k - 1] \o part[k]
    BY DEF Grows
  <1>2. 0 \in S
    OBVIOUS
  <1>3. ASSUME NEW j \in Nat, j \in S
        PROVE  j + 1 \in S
    <2> SUFFICES ASSUME j + 1 <= m PROVE Holds(text, pos, f[m - (j + 1)])
      OBVIOUS
    <2> DEFINE k == m - j
    <2>1. k \in 1 .. m /\ k - 1 = m - (j + 1) /\ Holds(text, pos, f[k])
      BY <1>3
    <2> HIDE DEF k
    <2>2. Holds(text, pos, f[k - 1])
      BY ZenonT(30), <1>1, <2>1, HoldsParts
    <2> QED BY <2>1, <2>2
  <1>4. \A j \in Nat : j \in S
    <2> HIDE DEF S
    <2> QED BY <1>2, <1>3, EachNumber
  <1>5. ASSUME NEW k \in 0 .. m
        PROVE  Holds(text, pos, f[k])
    <2>1. m - k \in Nat /\ m - k <= m /\ m - (m - k) = k
      OBVIOUS
    <2>2. m - k \in S
      BY <1>4, <2>1
    <2> QED BY <2>1, <2>2
  <1>6. ASSUME NEW k \in 1 .. m
        PROVE  /\ Holds(text, pos + Len(f[k - 1]), part[k])
               /\ Len(f[k]) = Len(f[k - 1]) + Len(part[k])
    <2>1. Holds(text, pos, f[k - 1] \o part[k])
      <3>1. Holds(text, pos, f[k])
        BY <1>5
      <3> QED BY <1>1, <3>1
    <2>2. Holds(text, pos + Len(f[k - 1]), part[k])
      BY <1>1, <2>1, HoldsParts
    <2>3. Len(f[k]) = Len(f[k - 1]) + Len(part[k])
      <3>1. f[k - 1] \in Seq(Byte) /\ part[k] \in Seq(Byte) /\ f[k] = f[k - 1] \o part[k]
        BY <1>1
      <3> HIDE DEF S
      <3> QED BY <3>1, Concatenated, SMT
    <2> QED BY <2>2, <2>3
  <1> QED BY <1>6 DEF HoldsEach

\* What is written stays, and keeps its first byte.
LEMMA GrowsFrom ==
    ASSUME NEW m \in Nat, NEW start, start # <<>>, NEW part \in [1 .. m -> Seq(Byte)],
           NEW f, Grows(f, m, start, part)
    PROVE  \A k \in 0 .. m : /\ f[k] \in Seq(Byte) /\ Len(f[k]) >= 1
                             /\ f[k][1] = start[1]
                             /\ Len(f[k]) <= Len(f[m])
  <1>1. ASSUME NEW k \in 1 .. m
        PROVE  /\ f[k - 1] \in Seq(Byte) /\ part[k] \in Seq(Byte)
               /\ f[k] = f[k - 1] \o part[k]
    BY SMTT(30) DEF Grows
  <1> DEFINE S == {k \in Nat : k <= m => Len(f[k]) >= 1 /\ f[k][1] = start[1]}
  <1>2. 0 \in S
    <2>1. f[0] \in Seq(Byte) /\ f[0] = start
      BY DEF Grows
    <2> QED BY <2>1
  <1>3. ASSUME NEW k \in Nat, k \in S
        PROVE  k + 1 \in S
    <2> SUFFICES ASSUME k + 1 <= m
                 PROVE  Len(f[k + 1]) >= 1 /\ f[k + 1][1] = start[1]
      OBVIOUS
    <2>1. k + 1 \in 1 .. m /\ (k + 1) - 1 = k
      OBVIOUS
    <2>2. /\ f[k] \in Seq(Byte) /\ part[k + 1] \in Seq(Byte)
          /\ f[k + 1] = f[k] \o part[k + 1]
      BY <1>1, <2>1
    <2>3. Len(f[k]) >= 1 /\ f[k][1] = start[1]
      BY <1>3
    <2> DEFINE a == f[k]
               b == part[k + 1]
               c == f[k + 1]
    <2>4. a \in Seq(Byte) /\ b \in Seq(Byte) /\ c = a \o b
      BY <2>2
    <2> HIDE DEF a, b, c
    <2>5. /\ Len(a) \in Nat /\ Len(b) \in Nat /\ Len(c) = Len(a) + Len(b)
          /\ \A i \in 1 .. Len(a) : c[i] = a[i]
      BY <2>4, Concatenated
    <2>6. Len(a) >= 1 /\ a[1] = start[1]
      BY <2>3 DEF a
    <2>7. Len(c) >= 1
      BY <2>5, <2>6
    <2>8. 1 \in 1 .. Len(a)
      BY <2>5, <2>6
    <2>9. c[1] = start[1]
      BY <2>5, <2>6, <2>8
    <2> QED BY <2>7, <2>9 DEF c
  <1>4. \A k \in Nat : k \in S
    <2> HIDE DEF S
    <2> QED BY <1>2, <1>3, EachNumber
  <1> DEFINE R == {j \in Nat : j <= m => Len(f[m - j]) <= Len(f[m])}
  <1>5. 0 \in R
    <2>1. Len(f[m]) \in Nat
      BY DEF Grows
    <2> QED BY <2>1
  <1>6. ASSUME NEW j \in Nat, j \in R
        PROVE  j + 1 \in R
    <2> SUFFICES ASSUME j + 1 <= m PROVE Len(f[m - (j + 1)]) <= Len(f[m])
      OBVIOUS
    <2> DEFINE k == m - j
    <2>1. k \in 1 .. m /\ k - 1 = m - (j + 1) /\ Len(f[k]) <= Len(f[m])
      BY <1>6
    <2> HIDE DEF k
    <2>2. /\ f[k - 1] \in Seq(Byte) /\ part[k] \in Seq(Byte)
          /\ f[k] = f[k - 1] \o part[k] /\ Len(f[m]) \in Nat
      BY <1>1, <2>1 DEF Grows
    <2>3. Len(f[k - 1]) <= Len(f[k]) /\ Len(f[k]) \in Nat /\ Len(f[k - 1]) \in Nat
      <3>1. /\ Len(f[k - 1]) \in Nat /\ Len(part[k]) \in Nat
            /\ Len(f[k]) = Len(f[k - 1]) + Len(part[k])
        BY <2>2, Concatenated, SMT
      <3> DEFINE x == Len(f[k - 1])
                 y == Len(part[k])
                 z == Len(f[k])
      <3> HIDE DEF x, y, z
      <3>2. x \in Nat /\ y \in Nat /\ z = x + y
        BY <3>1 DEF x, y, z
      <3>3. x <= z /\ z \in Nat /\ x \in Nat
        BY <3>2
      <3> QED BY <3>3 DEF x, z
    <2> QED BY <2>1, <2>2, <2>3
  <1>7. \A j \in Nat : j \in R
    <2> HIDE DEF R
    <2> QED BY <1>5, <1>6, EachNumber
  <1>8. ASSUME NEW k \in 0 .. m
        PROVE  Len(f[k]) <= Len(f[m])
    <2>1. m - k \in Nat /\ m - k <= m /\ m - (m - k) = k
      OBVIOUS
    <2>2. m - k \in R
      BY <1>7, <2>1
    <2> QED BY <2>1, <2>2
  <1>9. \A k \in 0 .. m : f[k] \in Seq(Byte)
    BY DEF Grows
  <1> QED BY <1>4, <1>8, <1>9

\* A value is of one kind.
LEMMA Kinds ==
    ASSUME NEW V, NEW depth, IsForest(V, depth), NEW v \in V
    PROVE  /\ IsTree(v) /\ depth[v] \in Nat
           /\ Is("int", v) \/ Is("string", v) \/ Is("list", v) \/ Is("dict", v)
           /\ Is("int", v) => /\ v = BInt(v.int) /\ v.int \in Int
                              /\ DOMAIN v = {"int"}
           /\ Is("string", v) => /\ v = BStr(v.string) /\ v.string \in Seq(Byte)
                                 /\ DOMAIN v = {"string"}
           /\ Is("list", v) => /\ v = BList(v.list) /\ v.list \in Seq(V)
                               /\ \A k \in 1 .. Len(v.list) :
                                      depth[v.list[k]] < depth[v]
                               /\ DOMAIN v = {"list"}
           /\ Is("dict", v) => /\ v = BDict(v.dict) /\ IsDict(v.dict)
                               /\ IsFiniteSet(DOMAIN v.dict)
                               /\ DOMAIN v.dict \subseteq Seq(Byte)
                               /\ \A k \in DOMAIN v.dict :
                                      v.dict[k] \in V /\ depth[v.dict[k]] < depth[v]
                               /\ DOMAIN v = {"dict"}
  <1>1. IsTree(v)
    BY DEF IsTree
  <1>2. depth[v] \in Nat
    BY DEF IsForest
  <1>3. \/ Is("int", v) /\ v = BInt(v.int) /\ v.int \in Int
        \/ Is("string", v) /\ v = BStr(v.string) /\ v.string \in Seq(Byte)
        \/ /\ Is("list", v) /\ v = BList(v.list) /\ v.list \in Seq(V)
           /\ \A k \in DOMAIN v.list : depth[v.list[k]] < depth[v]
        \/ /\ Is("dict", v) /\ v = BDict(v.dict) /\ IsDict(v.dict)
           /\ IsFiniteSet(DOMAIN v.dict) /\ DOMAIN v.dict \subseteq Seq(Byte)
           /\ \A k \in DOMAIN v.dict : v.dict[k] \in V /\ depth[v.dict[k]] < depth[v]
    BY DEF IsForest
  <1>4. v = BInt(v.int) => DOMAIN v = {"int"}
    BY DEF BInt
  <1>5. v = BStr(v.string) => DOMAIN v = {"string"}
    BY DEF BStr
  <1>6. v = BList(v.list) => DOMAIN v = {"list"}
    BY DEF BList
  <1>7. v = BDict(v.dict) => DOMAIN v = {"dict"}
    BY DEF BDict
  <1> DEFINE D == DOMAIN v
  <1>8. Is("int", v) <=> "int" \in D
    BY DEF Is
  <1>9. Is("string", v) <=> "string" \in D
    BY DEF Is
  <1>10. Is("list", v) <=> "list" \in D
    BY DEF Is
  <1>11. Is("dict", v) <=> "dict" \in D
    BY DEF Is
  <1>12. v.list \in Seq(V) => DOMAIN v.list = 1 .. Len(v.list)
    OBVIOUS
  <1> HIDE DEF D
  <1>13. D = DOMAIN v
    BY DEF D
  <1> QED BY <1>1, <1>2, <1>3, <1>4, <1>5, <1>6, <1>7, <1>8, <1>9, <1>10, <1>11, <1>12, <1>13

\* The text of a list, as long as those of its items are texts.
LEMMA ListText ==
    ASSUME EncodeCalls, NEW V, NEW depth, IsForest(V, depth), NEW v \in V,
           Is("list", v), \A k \in 1 .. Len(v.list) : Encode(v.list[k]) \in Seq(Byte)
    PROVE  \E f : /\ Grows(f, Len(v.list), <<"l">>,
                           [k \in 1 .. Len(v.list) |-> Encode(v.list[k])])
                  /\ Encode(v) = f[Len(v.list)] \o <<"e">>
  <1> DEFINE m == Len(v.list)
             item(k) == Encode(v.list[k])
             part == [k \in 1 .. m |-> item(k)]
             start == <<"l">>
             f[k \in 0 .. m] == IF k = 0 THEN start ELSE f[k - 1] \o item(k)
  <1>1. IsTree(v) /\ v.list \in Seq(V) /\ DOMAIN v = {"list"}
    BY Kinds
  <1>2. m \in Nat /\ start \in Seq(Byte) /\ part \in [1 .. m -> Seq(Byte)]
    <2>1. "l" \in Byte
      BY SyntaxIsByte DEF Syntax
    <2>2. start \in Seq(Byte)
      BY <2>1
    <2>3. m \in Nat
      BY <1>1
    <2> HIDE DEF start
    <2> QED BY <2>2, <2>3
  <1>3. Encode(v) = EncodeCall(Encode, v)
    BY <1>1 DEF EncodeCalls
  <1>4. EncodeCall(Encode, v) = Appended(start, m, item) \o <<"e">>
    BY <1>1 DEF EncodeCall, Is
  <1>5. Appended(start, m, item) = f[m]
    BY DEF Appended
  <1>6. f = [k \in 0 .. m |-> IF k = 0 THEN start ELSE f[k - 1] \o item(k)]
    <2>1. PICK g : IsLoop(g, m, start, part)
      <3> HIDE DEF m, start, part
      <3> QED BY <1>2, GrowsExists
    <2>2. g = [k \in 0 .. m |-> IF k = 0 THEN start ELSE g[k - 1] \o item(k)]
      <3> DEFINE turned(k) == IF k = 0 THEN start ELSE g[k - 1] \o part[k]
                 turns(k) == IF k = 0 THEN start ELSE g[k - 1] \o item(k)
      <3>1. g = [k \in 0 .. m |-> turned(k)]
        BY <2>1 DEF IsLoop
      <3>2. \A k \in 0 .. m : turned(k) = turns(k)
        BY <1>2
      <3> HIDE DEF turned, turns
      <3>3. g = [k \in 0 .. m |-> turns(k)]
        BY <3>1, <3>2
      <3> QED BY <3>3 DEF turns
    <2> HIDE DEF m, start, item
    <2> QED BY <2>2
  <1> HIDE DEF f
  <1>7. IsLoop(f, m, start, part)
    <2> DEFINE turned(k) == IF k = 0 THEN start ELSE f[k - 1] \o part[k]
               turns(k) == IF k = 0 THEN start ELSE f[k - 1] \o item(k)
    <2>1. f = [k \in 0 .. m |-> turns(k)]
      BY <1>6
    <2>2. \A k \in 0 .. m : turned(k) = turns(k)
      BY <1>2
    <2> HIDE DEF turned, turns
    <2>3. f = [k \in 0 .. m |-> turned(k)]
      BY <2>1, <2>2
    <2> QED BY <2>3 DEF turned, IsLoop
  <1>8. Grows(f, m, start, part)
    <2> HIDE DEF m, start, part
    <2> QED BY <1>2, <1>7, GrowsOnce
  <1>9. Encode(v) = f[m] \o <<"e">>
    BY <1>3, <1>4, <1>5
  <1> QED BY <1>8, <1>9

\* The text of a dictionary, likewise; its keys are in their order.
Entry(f, k) == Sized(Sorted(DOMAIN f)[k]) \o Encode(f[Sorted(DOMAIN f)[k]])

EntryTexts(f) == [k \in 1 .. Len(Sorted(DOMAIN f)) |-> Entry(f, k)]

LEMMA DictText ==
    ASSUME EncodeCalls, NEW V, NEW depth, IsForest(V, depth), NEW v \in V,
           Is("dict", v), \A k \in DOMAIN v.dict : Encode(v.dict[k]) \in Seq(Byte)
    PROVE  /\ Sorted(DOMAIN v.dict) \in Seq(DOMAIN v.dict)
           /\ EntryTexts(v.dict) \in [1 .. Len(Sorted(DOMAIN v.dict)) -> Seq(Byte)]
           /\ \E f : /\ Grows(f, Len(Sorted(DOMAIN v.dict)), <<"d">>, EntryTexts(v.dict))
                     /\ Encode(v) = f[Len(Sorted(DOMAIN v.dict))] \o <<"e">>
  <1> DEFINE keys == Sorted(DOMAIN v.dict)
             m == Len(keys)
             item(k) == Sized(keys[k]) \o Encode(v.dict[keys[k]])
             part == EntryTexts(v.dict)
             start == <<"d">>
             f[k \in 0 .. m] == IF k = 0 THEN start ELSE f[k - 1] \o item(k)
  <1>1. /\ IsTree(v) /\ DOMAIN v = {"dict"}
        /\ IsFiniteSet(DOMAIN v.dict) /\ DOMAIN v.dict \subseteq Seq(Byte)
    BY Kinds
  <1>2. keys \in Seq(DOMAIN v.dict) /\ m \in Nat
    <2>1. keys \in Seq(DOMAIN v.dict)
      BY <1>1, SortedKeys
    <2> HIDE DEF keys
    <2> QED BY <2>1
  <1>3. part = [k \in 1 .. m |-> item(k)]
    BY DEF EntryTexts, Entry
  <1>4. start \in Seq(Byte)
    BY SyntaxIsByte DEF Syntax
  <1>5. \A k \in 1 .. m : item(k) \in Seq(Byte)
    <2> HIDE DEF keys
    <2> SUFFICES ASSUME NEW k \in 1 .. m PROVE item(k) \in Seq(Byte)
      OBVIOUS
    <2> DEFINE a == Sized(keys[k])
               b == Encode(v.dict[keys[k]])
    <2>1. keys[k] \in DOMAIN v.dict
      BY <1>2
    <2>2. a \in Seq(Byte) /\ b \in Seq(Byte)
      BY <1>1, <2>1, SizedParts
    <2> HIDE DEF a, b
    <2>3. a \o b \in Seq(Byte)
      BY <2>2
    <2> QED BY <2>3 DEF a, b
  <1>6. part \in [1 .. m -> Seq(Byte)]
    <2> HIDE DEF item, m, part
    <2> QED BY <1>3, <1>5
  <1>7. Encode(v) = EncodeCall(Encode, v)
    BY <1>1 DEF EncodeCalls
  <1>8. EncodeCall(Encode, v) = Appended(start, m, item) \o <<"e">>
    BY <1>1 DEF EncodeCall, Is
  <1>9. Appended(start, m, item) = f[m]
    BY DEF Appended
  <1>10. \A k \in 1 .. m : part[k] = item(k)
    <2> HIDE DEF item, m, part
    <2> QED BY <1>3
  <1> HIDE DEF part
  <1>11. f = [k \in 0 .. m |-> IF k = 0 THEN start ELSE f[k - 1] \o item(k)]
    <2>1. PICK g : IsLoop(g, m, start, part)
      <3> HIDE DEF m, start
      <3> QED BY <1>2, <1>4, <1>6, GrowsExists
    <2>2. g = [k \in 0 .. m |-> IF k = 0 THEN start ELSE g[k - 1] \o item(k)]
      <3> HIDE DEF item, m, start
      <3> DEFINE turned(k) == IF k = 0 THEN start ELSE g[k - 1] \o part[k]
                 turns(k) == IF k = 0 THEN start ELSE g[k - 1] \o item(k)
      <3>1. g = [k \in 0 .. m |-> turned(k)]
        BY <2>1 DEF IsLoop
      <3>2. \A k \in 0 .. m : turned(k) = turns(k)
        BY <1>2, <1>10
      <3> HIDE DEF turned, turns
      <3>3. g = [k \in 0 .. m |-> turns(k)]
        BY <3>1, <3>2
      <3> QED BY <3>3 DEF turns
    <2> HIDE DEF m, start, item
    <2> QED BY <2>2
  <1> HIDE DEF f
  <1>12. IsLoop(f, m, start, part)
    <2> HIDE DEF item, m, start
    <2> DEFINE turned(k) == IF k = 0 THEN start ELSE f[k - 1] \o part[k]
               turns(k) == IF k = 0 THEN start ELSE f[k - 1] \o item(k)
    <2>1. f = [k \in 0 .. m |-> turns(k)]
      BY <1>11
    <2>2. \A k \in 0 .. m : turned(k) = turns(k)
      BY <1>2, <1>10
    <2> HIDE DEF turned, turns
    <2>3. f = [k \in 0 .. m |-> turned(k)]
      BY <2>1, <2>2
    <2> QED BY <2>3 DEF turned, IsLoop
  <1>13. Grows(f, m, start, part)
    <2> HIDE DEF m, start
    <2> QED BY <1>2, <1>4, <1>6, <1>12, GrowsOnce
  <1>14. Encode(v) = f[m] \o <<"e">>
    BY <1>7, <1>8, <1>9
  <1> HIDE DEF item
  <1> QED BY <1>2, <1>6, <1>13, <1>14 DEF part

\* The text of a value tells its kind by its first byte.
Opens(v, c) == /\ Is("string", v) => IsDigit(c)
               /\ Is("int", v)    => c = "i"
               /\ Is("list", v)   => c = "l"
               /\ Is("dict", v)   => c = "d"

LEMMA OpensNotEnd ==
    ASSUME NEW V, NEW depth, IsForest(V, depth), NEW v \in V, NEW c, Opens(v, c)
    PROVE  c # "e"
  <1>1. ~IsDigit("e")
    BY SyntaxIsByte DEF Syntax
  <1>2. Is("int", v) \/ Is("string", v) \/ Is("list", v) \/ Is("dict", v)
    BY Kinds
  <1> QED BY <1>1, <1>2 DEF Opens

LEMMA Written ==
    ASSUME NEW m \in Nat, NEW c \in Byte, NEW part \in [1 .. m -> Seq(Byte)],
           NEW f, Grows(f, m, <<c>>, part)
    PROVE  /\ f[m] \o <<"e">> \in Seq(Byte)
           /\ f[m] \in Seq(Byte) /\ Len(f[m] \o <<"e">>) = Len(f[m]) + 1
           /\ Len(f[m]) >= 1
           /\ (f[m] \o <<"e">>)[1] = c
  <1> DEFINE t == f[m]
  <1>1. t \in Seq(Byte) /\ Len(t) >= 1 /\ t[1] = c
    <2> DEFINE start == <<c>>
    <2>1. start # <<>> /\ start[1] = c /\ m \in 0 .. m
      OBVIOUS
    <2>2. Grows(f, m, start, part)
      OBVIOUS
    <2> HIDE DEF start
    <2>3. \A k \in 0 .. m : f[k] \in Seq(Byte) /\ Len(f[k]) >= 1 /\ f[k][1] = start[1]
      BY <2>1, <2>2, GrowsFrom
    <2> QED BY <2>1, <2>3
  <1>2. <<"e">> \in Seq(Byte)
    BY SyntaxIsByte DEF Syntax
  <1> HIDE DEF t
  <1>3. t \o <<"e">> \in Seq(Byte) /\ Len(t \o <<"e">>) = Len(t) + 1 /\ (t \o <<"e">>)[1] = t[1]
    BY <1>1, <1>2
  <1> QED BY <1>1, <1>3 DEF t

LEMMA EncodeBytes ==
    ASSUME EncodeCalls, NEW V, NEW depth, IsForest(V, depth), NEW v \in V
    PROVE  /\ Encode(v) \in Seq(Byte)
           /\ Len(Encode(v)) >= 1
           /\ Opens(v, Encode(v)[1])
  <1> DEFINE Ok(w) == /\ Encode(w) \in Seq(Byte)
                      /\ Len(Encode(w)) >= 1
                      /\ Opens(w, Encode(w)[1])
             S == {d \in Nat : \A w \in V : depth[w] = d => Ok(w)}
  <1>1. ASSUME NEW d \in Nat, \A j \in 0 .. d - 1 : j \in S
        PROVE  d \in S
    <2> SUFFICES ASSUME NEW w \in V, depth[w] = d PROVE Ok(w)
      OBVIOUS
    <2>1. ASSUME NEW x \in V, depth[x] < depth[w]
          PROVE  Ok(x)
      <3>1. depth[x] \in 0 .. d - 1
        BY <2>1, Kinds
      <3>2. depth[x] \in S
        BY <1>1, <3>1
      <3> HIDE DEF Ok
      <3> QED BY <3>2
    <2>2. CASE Is("string", w)
      <3>1. w.string \in Seq(Byte) /\ DOMAIN w = {"string"} /\ IsTree(w)
        BY <2>2, Kinds
      <3>2. Encode(w) = Sized(w.string)
        <4>1. Encode(w) = EncodeCall(Encode, w)
          BY <3>1 DEF EncodeCalls
        <4> QED BY <2>2, <3>1, <4>1 DEF EncodeCall, Is
      <3> DEFINE e == Sized(w.string)
                 t == digits[Len(w.string)]
      <3>3. /\ t \in Seq(Byte) /\ t # <<>> /\ \A k \in 1 .. Len(t) : IsDigit(t[k])
            /\ e = (t \o <<":">>) \o w.string /\ e \in Seq(Byte)
            /\ Len(e) = Len(t) + 1 + Len(w.string)
        BY <3>1, SizedParts
      <3> HIDE DEF e, t
      <3>4. Len(e) >= 1 /\ e[1] = t[1] /\ 1 \in 1 .. Len(t)
        <4>1. /\ t \o <<":">> \in Seq(Byte \cup {":"}) /\ (t \o <<":">>)[1] = t[1]
              /\ Len(t \o <<":">>) = Len(t) + 1 /\ Len(t) >= 1
          BY <3>3
        <4>2. Len(e) >= 1 /\ 1 \in 1 .. Len(t)
          BY <3>1, <3>3, <4>1
        <4>3. e[1] = t[1]
          BY <3>1, <3>3, <4>1
        <4> QED BY <4>2, <4>3
      <3>5. IsDigit(e[1])
        BY <3>3, <3>4
      <3> QED BY <3>1, <3>2, <3>3, <3>4, <3>5 DEF Opens, Is, e
    <2>3. CASE Is("int", w)
      <3>1. w.int \in Int /\ DOMAIN w = {"int"} /\ IsTree(w)
        BY <2>3, Kinds
      <3>2. Encode(w) = IntegerText(w.int)
        <4>1. Encode(w) = EncodeCall(Encode, w)
          BY <3>1 DEF EncodeCalls
        <4> QED BY <2>3, <3>1, <4>1 DEF EncodeCall, Is, IntegerText
      <3>3. /\ IntegerText(w.int) \in Seq(Byte) /\ IntegerText(w.int)[1] = "i"
            /\ Len(IntegerText(w.int)) >= 1
        <4> DEFINE n == Len(Decimal(w.int))
        <4>1. n \in Nat /\ Len(IntegerText(w.int)) = n + 2
          BY <3>1, IntegerParts
        <4>2. IntegerText(w.int) \in Seq(Byte) /\ IntegerText(w.int)[1] = "i"
          BY <3>1, IntegerParts
        <4> HIDE DEF n
        <4> QED BY <4>1, <4>2
      <3> QED BY <3>1, <3>2, <3>3 DEF Opens, Is
    <2>4. CASE Is("list", w)
      <3> DEFINE m == Len(w.list)
                 part == [k \in 1 .. m |-> Encode(w.list[k])]
      <3>1. /\ w.list \in Seq(V) /\ DOMAIN w = {"list"} /\ m \in Nat
            /\ \A k \in 1 .. m : w.list[k] \in V /\ depth[w.list[k]] < depth[w]
        BY <2>4, Kinds
      <3>2. \A k \in 1 .. m : Encode(w.list[k]) \in Seq(Byte)
        BY <2>1, <3>1
      <3>3. PICK f : Grows(f, m, <<"l">>, part) /\ Encode(w) = f[m] \o <<"e">>
        BY <2>4, <3>2, ListText
      <3>4. part \in [1 .. m -> Seq(Byte)] /\ "l" \in Byte
        BY <3>2, SyntaxIsByte DEF Syntax
      <3> HIDE DEF part, m
      <3> DEFINE t == f[m] \o <<"e">>
      <3>5. /\ t \in Seq(Byte) /\ t[1] = "l"
            /\ f[m] \in Seq(Byte) /\ Len(f[m]) >= 1 /\ Len(t) = Len(f[m]) + 1
        BY <3>1, <3>3, <3>4, Written
      <3> HIDE DEF t
      <3>6. Len(t) >= 1
        BY <3>5
      <3>7. Encode(w) = t
        BY <3>3 DEF t
      <3> QED BY <3>1, <3>5, <3>6, <3>7 DEF Opens, Is
    <2>5. CASE Is("dict", w)
      <3> DEFINE m == Len(Sorted(DOMAIN w.dict))
                 part == EntryTexts(w.dict)
      <3>1. /\ DOMAIN w = {"dict"}
            /\ \A k \in DOMAIN w.dict : w.dict[k] \in V /\ depth[w.dict[k]] < depth[w]
        BY <2>5, Kinds
      <3>2. \A k \in DOMAIN w.dict : Encode(w.dict[k]) \in Seq(Byte)
        BY <2>1, <3>1
      <3>3. /\ Sorted(DOMAIN w.dict) \in Seq(DOMAIN w.dict)
            /\ part \in [1 .. m -> Seq(Byte)]
            /\ \E f : Grows(f, m, <<"d">>, part) /\ Encode(w) = f[m] \o <<"e">>
        BY <2>5, <3>2, DictText
      <3> HIDE DEF part
      <3>4. PICK f : Grows(f, m, <<"d">>, part) /\ Encode(w) = f[m] \o <<"e">>
        BY <3>3
      <3>5. m \in Nat
        BY <3>3
      <3>6. "d" \in Byte
        BY SyntaxIsByte DEF Syntax
      <3> HIDE DEF m
      <3> DEFINE t == f[m] \o <<"e">>
      <3>7. /\ t \in Seq(Byte) /\ t[1] = "d"
            /\ f[m] \in Seq(Byte) /\ Len(f[m]) >= 1 /\ Len(t) = Len(f[m]) + 1
        BY <3>3, <3>4, <3>5, <3>6, Written
      <3> HIDE DEF t
      <3>8. Len(t) >= 1
        BY <3>7
      <3>9. Encode(w) = t
        BY <3>4 DEF t
      <3> QED BY <3>1, <3>7, <3>8, <3>9 DEF Opens, Is
    <2> QED BY <2>2, <2>3, <2>4, <2>5, Kinds
  <1>2. \A d \in Nat : d \in S
    <2> HIDE DEF S
    <2> QED BY <1>1, AllNumbers
  <1>3. depth[v] \in S
    BY <1>2, Kinds
  <1> QED BY <1>3

-----------------------------------------------------------------------------
(* What decode reads *)

LEMMA AtIs ==
    ASSUME NEW text \in Text, NEW pos \in 0 .. Len(text)
    PROVE  /\ pos = Len(text) => At(text, pos) = "zero"
           /\ pos < Len(text) => At(text, pos) = text[pos + 1]
  <1>1. Len(text) \in Nat
    BY DEF Text
  <1> QED BY <1>1 DEF At

LEMMA EndThrows ==
    ASSUME DecodeCalls, NEW text \in Text, NEW active \in SUBSET (0 .. Len(text) - 1)
    PROVE  Decode(text, Len(text), active) = Throws
  <1> DEFINE n == Len(text)
  <1>1. n \in Nat /\ n \in 0 .. n
    BY DEF Text
  <1>2. n \in (0 .. n) \ active /\ active \in SUBSET (0 .. n)
    BY <1>1
  <1>3. At(text, n) = "zero"
    BY <1>1, AtIs
  <1>4. ~IsDigit("zero") /\ "zero" \notin {"i", "l", "d"}
    BY SyntaxIsByte
  <1> HIDE DEF n
  <1>5. Decode(text, n, active) = Throws
    BY <1>2, <1>3, <1>4, DecodeIs DEF n
  <1> QED BY <1>5 DEF n

LEMMA FailuresFail == Failed(Throws) /\ Failed(Undefined) /\ Failed(Diverges)
  BY DEF Failed, Throws, Undefined, Diverges

LEMMA DecodedIs ==
    ASSUME NEW v, NEW pos
    PROVE  /\ ~Failed(Decoded(v, pos))
           /\ Decoded(v, pos).value = v
           /\ Decoded(v, pos).pos = pos
  BY DEF Failed, Decoded

\* A text that ends early starts as the whole does.
LEMMA StartIs ==
    ASSUME NEW text, NEW whole, IsCut(text, whole)
    PROVE  /\ text \in Text /\ Len(text) \in Nat
           /\ Len(text) > 0 => text[1] = "d"
           /\ 0 \in 0 .. Len(text)
           /\ At(text, 0) \in {"d", "zero"}
  <1>1. text \in Text /\ Len(text) \in Nat
    BY DEF IsCut, Text
  <1>2. Len(text) > 0 => text[1] = "d"
    BY <1>1 DEF IsCut
  <1>3. 0 \in 0 .. Len(text)
    BY <1>1
  <1>4. At(text, 0) \in {"d", "zero"}
    <2>1. CASE Len(text) = 0
      BY <1>3, <2>1, <1>1, AtIs
    <2>2. CASE Len(text) > 0
      <3>1. At(text, 0) = text[0 + 1]
        BY <1>3, <2>2, <1>1, AtIs
      <3> QED BY <1>2, <2>2, <3>1
    <2> QED BY <1>1, <2>1, <2>2
  <1> QED BY <1>1, <1>2, <1>3, <1>4

\* From the start, or from beyond the end, no loop ends.
LEMMA StuckItems ==
    ASSUME DecodeCalls, NEW text, NEW whole, IsCut(text, whole),
           NEW active \in SUBSET (0 .. Len(text)), 0 \in active,
           NEW seen \in SUBSET (0 .. Len(text)),
           NEW pos \in {0, Len(text) + 1}, NEW result
    PROVE  Failed(Items(text, pos, result, seen, active))
  <1>1. text \in Text /\ Len(text) \in Nat /\ 0 \in 0 .. Len(text) /\ At(text, 0) # "e"
    BY StartIs
  <1>2. CASE pos = Len(text) + 1
    <2>1. pos \notin 0 .. Len(text)
      BY <1>1, <1>2
    <2>2. Items(text, pos, result, seen, active) = Undefined
      BY <1>1, <2>1, ItemsIs
    <2> QED BY <2>2, FailuresFail
  <1>3. CASE pos = 0 /\ pos \in seen
    <2>1. Items(text, pos, result, seen, active) = Diverges
      BY <1>1, <1>3, ItemsIs
    <2> QED BY <2>1, FailuresFail
  <1>4. CASE pos = 0 /\ pos \notin seen
    <2>1. Decode(text, pos, active) = Diverges
      BY <1>1, <1>4, DecodeIs
    <2>2. Failed(Decode(text, pos, active))
      BY <2>1, FailuresFail
    <2>3. pos \in (0 .. Len(text)) \ seen /\ At(text, pos) # "e"
      BY <1>1, <1>4
    <2>4. Items(text, pos, result, seen, active) = Decode(text, pos, active)
      BY <1>1, <2>2, <2>3, ItemsIs
    <2> QED BY <2>2, <2>4
  <1> QED BY <1>2, <1>3, <1>4

LEMMA StartIsNoString ==
    ASSUME NEW text, NEW whole, IsCut(text, whole)
    PROVE  DecodeString(text, 0) = Throws
  <1>1. text \in Text /\ Len(text) \in Nat /\ (Len(text) > 0 => text[1] = "d")
    BY StartIs
  <1>2. CASE Len(text) = 0
    BY <1>1, <1>2, NothingLeft
  <1>3. CASE Len(text) > 0
    <2> DEFINE colon == Find(text, ":", 0)
               end == IF colon = Npos THEN Len(text) ELSE colon
               number == SubSeq(text, 1, end)
    <2>1. colon = Npos \/ colon \in 0 .. Len(text) - 1
      BY <1>1, FindType
    <2>2. colon # 0
      <3>1. ASSUME colon = 0 PROVE FALSE
        <4> DEFINE hits == {k \in 0 .. Len(text) - 1 : text[k + 1] = ":"}
        <4>1. hits # {} /\ colon = Min(hits)
          BY <3>1 DEF Find, Npos
        <4>2. 0 \notin hits
          BY <1>1, <1>3
        <4>3. Min(hits) \in hits
          <5>1. hits \subseteq Nat
            BY <1>1
          <5> HIDE DEF hits
          <5>2. PICK q \in hits : \A k \in hits : q <= k
            BY <4>1, <5>1, LeastNumber
          <5> QED BY <5>2 DEF Min
        <4> QED BY <3>1, <4>1, <4>2, <4>3
      <3> QED BY <3>1
    <2>3. end \in 1 .. Len(text)
      BY <1>1, <1>3, <2>1, <2>2 DEF Npos
    <2>4. Between(text, 0, colon) = number
      BY DEF Between
    <2> HIDE DEF end, colon
    <2>5. number # <<>> /\ Head(number) = "d"
      BY <1>1, <1>3, <2>3 DEF Text
    <2> HIDE DEF number
    <2>6. Unsigned(number) = number
      BY <2>5 DEF Unsigned
    <2>7. ~IsNumber(number)
      <3>1. ~IsDigit("d")
        BY SyntaxIsByte DEF Syntax
      <3> QED BY <2>5, <2>6, <3>1 DEF IsNumber
    <2> QED BY <2>4, <2>7 DEF DecodeString, colon
  <1> QED BY <1>1, <1>2, <1>3

LEMMA StuckEntries ==
    ASSUME DecodeCalls, NEW text, NEW whole, IsCut(text, whole),
           NEW active \in SUBSET (0 .. Len(text)),
           NEW seen \in SUBSET (0 .. Len(text)),
           NEW pos \in {0, Len(text) + 1}, NEW result
    PROVE  Failed(Entries(text, pos, result, seen, active))
  <1>1. text \in Text /\ Len(text) \in Nat /\ 0 \in 0 .. Len(text) /\ At(text, 0) # "e"
    BY StartIs
  <1> DEFINE key == DecodeString(text, pos)
  <1>2. CASE pos = Len(text) + 1
    <2>1. pos \notin 0 .. Len(text)
      BY <1>1, <1>2
    <2>2. Entries(text, pos, result, seen, active) = Undefined
      BY <1>1, <2>1, EntriesIs
    <2> QED BY <2>2, FailuresFail
  <1>3. CASE pos = 0 /\ pos \in seen
    <2>1. Entries(text, pos, result, seen, active) = Diverges
      BY <1>1, <1>3, EntriesIs
    <2> QED BY <2>1, FailuresFail
  <1>4. CASE pos = 0 /\ pos \notin seen
    <2>1. key = Throws /\ Failed(key)
      BY <1>4, StartIsNoString, FailuresFail
    <2>2. pos \in (0 .. Len(text)) \ seen /\ At(text, pos) # "e"
      BY <1>1, <1>4
    <2>3. Entries(text, pos, result, seen, active) = key
      <3> HIDE DEF key
      <3>1. text \in Text
        BY <1>1
      <3>2. Failed(DecodeString(text, pos))
        BY <2>1 DEF key
      <3>3. Entries(text, pos, result, seen, active) = DecodeString(text, pos)
        BY <2>2, <3>1, <3>2, EntriesIs
      <3> QED BY <3>3 DEF key
    <2> QED BY <2>1, <2>3
  <1> QED BY <1>2, <1>3, <1>4

\* What decode makes of a value that the whole text has somewhere: the value, or,
\* where the text ends before the value does, a failure or a position from which
\* the loops fail.
Fits(text, outcome, v, end) ==
    IF end <= Len(text) THEN outcome = Decoded(v, end) ELSE Dead(outcome, Len(text))

Reads(text, whole, v) ==
    \A pos \in 0 .. Len(text) : \A active \in SUBSET (0 .. pos - 1) :
        Holds(whole, pos, Encode(v)) /\ 0 \in active \cup {pos} =>
            Fits(text, Decode(text, pos, active), v, pos + Len(Encode(v)))

LEMMA DeadEnds ==
    ASSUME NEW text, NEW outcome, NEW v, NEW end \in Nat, Len(text) \in Nat, end > Len(text),
           Failed(outcome)
    PROVE  Fits(text, outcome, v, end)
  BY DEF Fits, Dead

\* The first byte of a value, where the text has it.
LEMMA FirstByte ==
    ASSUME EncodeCalls, NEW V, NEW depth, IsForest(V, depth), NEW v \in V,
           NEW text, NEW whole, IsCut(text, whole),
           NEW pos \in 0 .. Len(text) - 1, Holds(whole, pos, Encode(v))
    PROVE  Opens(v, At(text, pos)) /\ At(text, pos) # "e"
  <1> DEFINE e == Encode(v)
  <1>1. Len(e) \in Nat /\ 1 \in 1 .. Len(e) /\ Opens(v, e[1])
    BY EncodeBytes
  <1>2. text \in Text /\ Len(text) \in Nat /\ pos \in Nat /\ pos + 1 <= Len(text)
    BY StartIs
  <1>3. Holds(whole, pos, e)
    OBVIOUS
  <1> HIDE DEF e
  <1>4. text[pos + 1] = e[1]
    BY <1>1, <1>2, <1>3, CutHolds
  <1>5. At(text, pos) = text[pos + 1]
    BY <1>2, AtIs
  <1> QED BY <1>1, <1>4, <1>5, OpensNotEnd

\* One turn of decode_list.
LEMMA ItemRead ==
    ASSUME DecodeCalls, EncodeCalls, NEW V, NEW depth, IsForest(V, depth), NEW w \in V,
           NEW text, NEW whole, IsCut(text, whole), Reads(text, whole, w),
           NEW pos \in 0 .. Len(text), Holds(whole, pos, Encode(w)),
           NEW active \in SUBSET (0 .. pos - 1), 0 \in active,
           NEW seen \in SUBSET (0 .. pos - 1), NEW result,
           NEW next, next = pos + Len(Encode(w))
    PROVE  /\ next <= Len(text) =>
                  Items(text, pos, result, seen, active) =
                      Items(text, next, Append(result, w), seen \cup {pos}, active)
           /\ next > Len(text) => Failed(Items(text, pos, result, seen, active))
  <1> DEFINE n == Len(text)
             o == Decode(text, pos, active)
  <1>1. text \in Text /\ n \in Nat /\ pos \in Nat /\ next \in Nat /\ next > pos
    <2>1. Len(Encode(w)) \in Nat /\ Len(Encode(w)) >= 1
      BY EncodeBytes
    <2> QED BY <2>1, StartIs
  <1>2. /\ active \in SUBSET (0 .. n) /\ seen \in SUBSET (0 .. n)
        /\ pos \in (0 .. n) \ seen /\ 0 .. n = 0 .. Len(text)
        /\ seen \cup {pos} \in SUBSET (0 .. n)
    BY <1>1
  <1>3. Fits(text, o, w, next)
    BY DEF Reads
  <1>4. CASE pos = n
    <2>1. active \in SUBSET (0 .. n - 1)
      BY <1>4
    <2>2. o = Throws
      BY <1>1, <1>4, <2>1, EndThrows
    <2>3. Failed(o) /\ At(text, pos) # "e"
      BY <1>1, <1>4, <2>2, FailuresFail, AtIs
    <2> HIDE DEF o
    <2>4. Items(text, pos, result, seen, active) = o
      BY <1>1, <1>2, <2>3, ItemsIs DEF o
    <2> QED BY <1>1, <1>4, <2>3, <2>4
  <1>5. CASE pos < n
    <2>1. At(text, pos) # "e"
      <3>1. pos \in 0 .. Len(text) - 1
        BY <1>1, <1>5
      <3> QED BY <3>1, FirstByte
    <2>2. CASE next <= n
      <3>1. o = Decoded(w, next)
        BY <1>3, <2>2 DEF Fits
      <3>2. ~Failed(o) /\ o.value = w /\ o.pos = next
        BY <3>1, DecodedIs
      <3>3. Items(text, pos, result, seen, active) =
                Items(text, o.pos, Append(result, o.value), seen \cup {pos}, active)
        BY ZenonT(30), <1>1, <1>2, <2>1, <3>2, ItemsIs
      <3> QED BY <1>1, <2>2, <3>2, <3>3
    <2>3. CASE next > n
      <3>1. Dead(o, n)
        BY <1>1, <1>3, <2>3 DEF Fits
      <3>2. CASE Failed(o)
        <4>1. Items(text, pos, result, seen, active) = o
          BY <1>1, <1>2, <2>1, <3>2, ItemsIs
        <4> QED BY <1>1, <2>3, <3>2, <4>1
      <3>3. CASE ~Failed(o) /\ o.pos \in {0, n + 1}
        <4>1. Items(text, pos, result, seen, active) =
                  Items(text, o.pos, Append(result, o.value), seen \cup {pos}, active)
          BY ZenonT(30), <1>1, <1>2, <2>1, <3>3, ItemsIs
        <4>2. Failed(Items(text, o.pos, Append(result, o.value), seen \cup {pos}, active))
          BY <1>2, <3>3, StuckItems
        <4> QED BY <1>1, <2>3, <4>1, <4>2
      <3> QED BY <3>1, <3>2, <3>3 DEF Dead
    <2> QED BY <1>1, <2>2, <2>3
  <1> QED BY <1>1, <1>4, <1>5

\* The last turn.
LEMMA ItemsEnd ==
    ASSUME DecodeCalls, NEW text, NEW whole, IsCut(text, whole),
           NEW pos \in 0 .. Len(text), Holds(whole, pos, <<"e">>),
           NEW active \in SUBSET (0 .. pos - 1),
           NEW seen \in SUBSET (0 .. pos - 1), NEW result
    PROVE  /\ pos < Len(text) =>
                  Items(text, pos, result, seen, active) =
                      Decoded(BList(result), pos + 1)
           /\ pos = Len(text) => Failed(Items(text, pos, result, seen, active))
  <1> DEFINE n == Len(text)
             o == Decode(text, pos, active)
  <1>1. text \in Text /\ n \in Nat /\ pos \in Nat
    BY StartIs
  <1>2. /\ active \in SUBSET (0 .. n) /\ seen \in SUBSET (0 .. n)
        /\ pos \in (0 .. n) \ seen
    BY <1>1
  <1>3. CASE pos < n
    <2> DEFINE e == <<"e">>
    <2>1. Len(e) \in Nat /\ 1 \in 1 .. Len(e) /\ e[1] = "e" /\ Holds(whole, pos, e)
          /\ pos + 1 <= Len(text)
      BY <1>1, <1>3
    <2> HIDE DEF e
    <2>2. text[pos + 1] = e[1]
      BY <1>1, <2>1, CutHolds
    <2>3. At(text, pos) = "e"
      BY <1>1, <1>3, <2>1, <2>2, AtIs
    <2>4. pos # n
      BY <1>1, <1>3
    <2>5. Items(text, pos, result, seen, active) = Decoded(BList(result), pos + 1)
      BY ZenonT(30), <1>1, <1>2, <2>3, ItemsIs
    <2> QED BY <2>4, <2>5
  <1>4. CASE pos = n
    <2>1. active \in SUBSET (0 .. n - 1)
      BY <1>4
    <2>2. o = Throws
      BY <1>1, <1>4, <2>1, EndThrows
    <2>3. Failed(o) /\ At(text, pos) # "e"
      BY <1>1, <1>4, <2>2, FailuresFail, AtIs
    <2> HIDE DEF o
    <2>4. Items(text, pos, result, seen, active) = o
      BY <1>1, <1>2, <2>3, ItemsIs DEF o
    <2> QED BY <1>1, <1>4, <2>3, <2>4
  <1> QED BY <1>1, <1>3, <1>4

\* One turn of decode_dict.
LEMMA EntryRead ==
    ASSUME DecodeCalls, EncodeCalls, NEW V, NEW depth, IsForest(V, depth), NEW w \in V,
           NEW text, NEW whole, IsCut(text, whole), Reads(text, whole, w),
           NEW pos \in 0 .. Len(text), NEW key \in Seq(Byte),
           Holds(whole, pos, Sized(key) \o Encode(w)),
           NEW active \in SUBSET (0 .. pos - 1), 0 \in active,
           NEW seen \in SUBSET (0 .. pos - 1), NEW result,
           NEW next, next = pos + Len(Sized(key) \o Encode(w))
    PROVE  /\ next <= Len(text) =>
                  Entries(text, pos, result, seen, active) =
                      Entries(text, next, Assigned(result, key, w), seen \cup {pos}, active)
           /\ next > Len(text) => Failed(Entries(text, pos, result, seen, active))
  <1> DEFINE n == Len(text)
             a == Sized(key)
             e == Encode(w)
             t == digits[Len(key)]
             mid == pos + Len(a)
             k == DecodeString(text, pos)
             o == ValueAt(text, pos, active)
  <1>1. a \in Seq(Byte) /\ Len(a) \in Nat /\ Len(a) >= 1
    <2>1. /\ a \in Seq(Byte) /\ t \in Seq(Byte)
          /\ Len(a) = Len(t) + 1 + Len(key)
      BY SizedParts
    <2> HIDE DEF a, t
    <2>2. Len(key) \in Nat /\ Len(t) \in Nat
      BY <2>1
    <2> QED BY <2>1, <2>2
  <1>2. e \in Seq(Byte) /\ Len(e) \in Nat /\ Len(e) >= 1
    BY EncodeBytes
  <1>3. text \in Text /\ n \in Nat /\ pos \in Nat /\ whole \in Text
    BY StartIs DEF IsCut
  <1>4. Holds(whole, pos, a) /\ Holds(whole, mid, e) /\ next = mid + Len(e)
    <2> HIDE DEF a, e, mid
    <2>1. Holds(whole, pos, a \o e) /\ next = pos + Len(a \o e)
      BY DEF a, e
    <2>2. Len(a \o e) = Len(a) + Len(e)
      BY <1>1, <1>2
    <2>3. Holds(whole, pos, a) /\ Holds(whole, pos + Len(a), e)
      BY <1>1, <1>2, <1>3, <2>1, HoldsParts
    <2> QED BY <1>1, <1>2, <1>3, <2>1, <2>2, <2>3 DEF mid
  <1>5. mid \in Nat /\ mid > pos /\ next \in Nat /\ next > mid
    <2> HIDE DEF a, e
    <2> QED BY <1>1, <1>2, <1>3, <1>4
  <1>6. /\ active \in SUBSET (0 .. n) /\ seen \in SUBSET (0 .. n)
        /\ pos \in (0 .. n) \ seen /\ seen \cup {pos} \in SUBSET (0 .. n)
    BY <1>3
  <1>7. CASE pos = n
    <2>1. Failed(k) /\ At(text, pos) # "e"
      BY <1>3, <1>7, NothingLeft, FailuresFail, AtIs
    <2>2. Entries(text, pos, result, seen, active) = k
      BY <1>3, <1>6, <2>1, EntriesIs
    <2> QED BY <1>3, <1>5, <1>7, <2>1, <2>2
  <1>8. CASE pos < n
    <2>1. At(text, pos) # "e"
      <3>1. At(text, pos) = text[pos + 1]
        BY <1>3, <1>8, AtIs
      <3>2. text[pos + 1] = a[1]
        <4> HIDE DEF a
        <4>1. 1 \in 1 .. Len(a) /\ pos + 1 <= Len(text)
          BY <1>1, <1>3, <1>8
        <4> QED BY <1>1, <1>3, <1>4, <4>1, CutHolds
      <3>3. IsDigit(a[1])
        <4>1. /\ t \in Seq(Byte) /\ t # <<>> /\ \A i \in 1 .. Len(t) : IsDigit(t[i])
              /\ a = (t \o <<":">>) \o key
          BY SizedParts
        <4> HIDE DEF a, t
        <4>2. /\ t \o <<":">> \in Seq(Byte \cup {":"}) /\ (t \o <<":">>)[1] = t[1]
              /\ Len(t \o <<":">>) >= 1 /\ 1 \in 1 .. Len(t)
          BY <4>1
        <4>3. a[1] = t[1]
          BY <4>1, <4>2
        <4> QED BY <4>1, <4>2, <4>3
      <3>4. ~IsDigit("e")
        BY SyntaxIsByte DEF Syntax
      <3> QED BY <3>1, <3>2, <3>3, <3>4
    <2>2. CASE mid <= n
      <3>1. k = Decoded(BStr(key), mid)
        BY <1>3, <1>4, <2>2, StringDecoded
      <3>2. ~Failed(k) /\ k.value.string = key /\ k.pos = mid
        <4>1. ~Failed(k) /\ k.value = BStr(key) /\ k.pos = mid
          BY <3>1, DecodedIs
        <4> QED BY <4>1 DEF BStr
      <3>3. o = Decode(text, mid, active)
        BY <3>2 DEF ValueAt
      <3>4. Fits(text, o, w, next)
        <4>1. mid \in 0 .. Len(text) /\ active \in SUBSET (0 .. mid - 1)
          BY <1>3, <1>5, <2>2
        <4>2. Fits(text, Decode(text, mid, active), w, mid + Len(Encode(w)))
          BY <1>4, <4>1 DEF Reads
        <4> QED BY <1>4, <3>3, <4>2
      <3>5. CASE next <= n
        <4>1. o = Decoded(w, next)
          BY <3>4, <3>5 DEF Fits
        <4>2. ~Failed(o) /\ o.value = w /\ o.pos = next
          BY <4>1, DecodedIs
        <4>3. Entries(text, pos, result, seen, active) =
                  Entries(text, o.pos, Assigned(result, k.value.string, o.value),
                          seen \cup {pos}, active)
          <5>1. GoesOn(text, pos, result, seen, active)
            BY <1>3, <1>6, <2>1, <3>2, <4>2, EntriesGoOn
          <5> QED BY <5>1 DEF GoesOn
        <4>4. Entries(text, pos, result, seen, active) =
                  Entries(text, next, Assigned(result, key, w), seen \cup {pos}, active)
          BY <3>2, <4>2, <4>3
        <4> QED BY <1>3, <1>5, <3>5, <4>4
      <3>6. CASE next > n
        <4>1. Dead(o, n)
          BY <1>3, <1>5, <3>4, <3>6 DEF Fits
        <4>2. CASE Failed(o)
          <5>1. Entries(text, pos, result, seen, active) = o
            BY <1>3, <1>6, <2>1, <3>2, <4>2, EntriesIs
          <5> QED BY <1>3, <1>5, <3>6, <4>2, <5>1
        <4>3. CASE ~Failed(o) /\ o.pos \in {0, n + 1}
          <5>1. Entries(text, pos, result, seen, active) =
                    Entries(text, o.pos, Assigned(result, k.value.string, o.value),
                            seen \cup {pos}, active)
            <6>1. GoesOn(text, pos, result, seen, active)
              BY <1>3, <1>6, <2>1, <3>2, <4>3, EntriesGoOn
            <6> QED BY <6>1 DEF GoesOn
          <5>2. Failed(Entries(text, o.pos, Assigned(result, k.value.string, o.value),
                               seen \cup {pos}, active))
            BY <1>6, <4>3, StuckEntries
          <5> QED BY <1>3, <1>5, <3>6, <5>1, <5>2
        <4> QED BY <4>1, <4>2, <4>3 DEF Dead
      <3> QED BY <1>3, <1>5, <3>5, <3>6
    <2>3. CASE mid > n
      <3>1. Dead(k, n)
        BY <1>3, <1>4, <2>3, StringCut
      <3>2. CASE Failed(k)
        <4>1. Entries(text, pos, result, seen, active) = k
          BY <1>3, <1>6, <2>1, <3>2, EntriesIs
        <4> QED BY <1>3, <1>5, <2>3, <3>2, <4>1
      <3>3. CASE ~Failed(k) /\ k.pos \in {0, n + 1}
        <4>1. Failed(o)
          <5>1. CASE k.pos = 0
            <6>1. Decode(text, k.pos, active) = Diverges
              BY <1>3, <1>6, <5>1, DecodeIs
            <6> QED BY <6>1, FailuresFail DEF ValueAt
          <5>2. CASE k.pos = n + 1
            <6>1. k.pos \notin 0 .. Len(text)
              BY <1>3, <5>2
            <6>2. Decode(text, k.pos, active) = Undefined
              BY <1>3, <1>6, <6>1, DecodeIs
            <6> QED BY <6>2, FailuresFail DEF ValueAt
          <5> QED BY <3>3, <5>1, <5>2
        <4>2. Entries(text, pos, result, seen, active) = o
          BY <1>3, <1>6, <2>1, <3>3, <4>1, EntriesIs
        <4> QED BY <1>3, <1>5, <2>3, <4>1, <4>2
      <3> QED BY <3>1, <3>2, <3>3 DEF Dead
    <2> QED BY <1>3, <1>5, <2>2, <2>3
  <1> QED BY <1>3, <1>7, <1>8

\* The last turn.
LEMMA EntriesEnd ==
    ASSUME DecodeCalls, NEW text, NEW whole, IsCut(text, whole),
           NEW pos \in 0 .. Len(text), Holds(whole, pos, <<"e">>),
           NEW active \in SUBSET (0 .. pos - 1),
           NEW seen \in SUBSET (0 .. pos - 1), NEW result
    PROVE  /\ pos < Len(text) =>
                  Entries(text, pos, result, seen, active) =
                      Decoded(BDict(result), pos + 1)
           /\ pos = Len(text) => Failed(Entries(text, pos, result, seen, active))
  <1> DEFINE n == Len(text)
  <1>1. text \in Text /\ n \in Nat /\ pos \in Nat
    BY StartIs
  <1>2. /\ active \in SUBSET (0 .. n) /\ seen \in SUBSET (0 .. n)
        /\ pos \in (0 .. n) \ seen
    BY <1>1
  <1>3. CASE pos < n
    <2> DEFINE e == <<"e">>
    <2>1. Len(e) \in Nat /\ 1 \in 1 .. Len(e) /\ e[1] = "e" /\ Holds(whole, pos, e)
          /\ pos + 1 <= Len(text)
      BY <1>1, <1>3
    <2> HIDE DEF e
    <2>2. text[pos + 1] = e[1]
      BY <1>1, <2>1, CutHolds
    <2>3. At(text, pos) = "e"
      BY <1>1, <1>3, <2>1, <2>2, AtIs
    <2>4. pos # n
      BY <1>1, <1>3
    <2>5. Entries(text, pos, result, seen, active) = Decoded(BDict(result), pos + 1)
      BY <1>1, <1>2, <2>3, EntriesIs
    <2> QED BY <2>4, <2>5
  <1>4. CASE pos = n
    <2>1. Failed(DecodeString(text, pos)) /\ At(text, pos) # "e"
      BY <1>1, <1>4, NothingLeft, FailuresFail, AtIs
    <2>2. Entries(text, pos, result, seen, active) = DecodeString(text, pos)
      BY <1>1, <1>2, <2>1, EntriesIs
    <2> QED BY <1>1, <1>4, <2>1, <2>2
  <1> QED BY <1>1, <1>3, <1>4

LEMMA AtEndReads ==
    ASSUME DecodeCalls, EncodeCalls, NEW V, NEW depth, IsForest(V, depth), NEW v \in V,
           NEW text, NEW whole, IsCut(text, whole),
           NEW active \in SUBSET (0 .. Len(text) - 1)
    PROVE  Fits(text, Decode(text, Len(text), active), v, Len(text) + Len(Encode(v)))
  <1> DEFINE n == Len(text)
             m == Len(Encode(v))
             o == Decode(text, n, active)
  <1>1. text \in Text /\ n \in Nat
    BY StartIs
  <1>2. o = Throws
    BY <1>1, EndThrows
  <1>3. Failed(o)
    BY <1>2, FailuresFail
  <1>4. m \in Nat /\ m >= 1
    BY EncodeBytes
  <1> HIDE DEF o, m
  <1>5. n + m \in Nat /\ n + m > n
    BY <1>1, <1>4
  <1>6. Fits(text, o, v, n + m)
    BY <1>1, <1>3, <1>5, DeadEnds
  <1> QED BY <1>6 DEF o, m

LEMMA StringReads ==
    ASSUME DecodeCalls, EncodeCalls, NEW V, NEW depth, IsForest(V, depth), NEW v \in V,
           NEW text, NEW whole, IsCut(text, whole), Is("string", v)
    PROVE  Reads(text, whole, v)
  <1> SUFFICES ASSUME NEW pos \in 0 .. Len(text), NEW active \in SUBSET (0 .. pos - 1),
                      Holds(whole, pos, Encode(v))
               PROVE  Fits(text, Decode(text, pos, active), v, pos + Len(Encode(v)))
    BY DEF Reads
  <1> DEFINE n == Len(text)
             s == v.string
             e == Sized(s)
  <1>1. text \in Text /\ n \in Nat /\ pos \in Nat
    BY StartIs
  <1>2. v = BStr(s) /\ s \in Seq(Byte) /\ DOMAIN v = {"string"} /\ IsTree(v)
    BY Kinds
  <1>3. Encode(v) = e
    <2>1. Encode(v) = EncodeCall(Encode, v)
      BY <1>2 DEF EncodeCalls
    <2> QED BY <1>2, <2>1 DEF EncodeCall, Is
  <1>4. CASE pos = n
    BY <1>1, <1>4, AtEndReads
  <1>5. CASE pos < n
    <2>1. Opens(v, At(text, pos))
      <3>1. pos \in 0 .. Len(text) - 1
        BY <1>1, <1>5
      <3> QED BY <3>1, FirstByte
    <2>2. Decode(text, pos, active) = DecodeString(text, pos)
      <3>1. pos \in (0 .. n) \ active /\ active \in SUBSET (0 .. n)
        BY <1>1
      <3>2. IsDigit(At(text, pos))
        BY <2>1 DEF Opens
      <3> QED BY <1>1, <3>1, <3>2, DecodeIs
    <2>3. Holds(whole, pos, e)
      BY <1>3
    <2>4. CASE pos + Len(e) <= n
      <3>1. DecodeString(text, pos) = Decoded(v, pos + Len(e))
        BY <1>1, <1>2, <2>3, <2>4, StringDecoded
      <3> QED BY <1>3, <2>2, <2>4, <3>1 DEF Fits
    <2>5. CASE pos + Len(e) > n
      <3>1. Dead(DecodeString(text, pos), n)
        BY <1>2, <2>3, <2>5, StringCut
      <3>2. ~(pos + Len(e) <= n)
        <4>1. Len(e) \in Nat
          BY <1>3, EncodeBytes
        <4> HIDE DEF e
        <4> QED BY <1>1, <2>5, <4>1
      <3> QED BY <1>3, <2>2, <3>1, <3>2 DEF Fits
    <2>6. Len(e) \in Nat
      BY <1>3, EncodeBytes
    <2> HIDE DEF e
    <2> QED BY <1>1, <2>4, <2>5, <2>6
  <1> QED BY <1>1, <1>4, <1>5

LEMMA IntegerReads ==
    ASSUME DecodeCalls, EncodeCalls, NEW V, NEW depth, IsForest(V, depth), NEW v \in V,
           NEW text, NEW whole, IsCut(text, whole), Is("int", v)
    PROVE  Reads(text, whole, v)
  <1> SUFFICES ASSUME NEW pos \in 0 .. Len(text), NEW active \in SUBSET (0 .. pos - 1),
                      Holds(whole, pos, Encode(v))
               PROVE  Fits(text, Decode(text, pos, active), v, pos + Len(Encode(v)))
    BY DEF Reads
  <1> DEFINE n == Len(text)
             i == v.int
             e == IntegerText(i)
  <1>1. text \in Text /\ n \in Nat /\ pos \in Nat
    BY StartIs
  <1>2. v = BInt(i) /\ i \in Int /\ DOMAIN v = {"int"} /\ IsTree(v)
    BY Kinds
  <1>3. Encode(v) = e
    <2>1. Encode(v) = EncodeCall(Encode, v)
      BY <1>2 DEF EncodeCalls
    <2> QED BY <1>2, <2>1 DEF EncodeCall, Is, IntegerText
  <1>4. CASE pos = n
    BY <1>1, <1>4, AtEndReads
  <1>5. CASE pos < n
    <2>0. pos \in 0 .. Len(text) - 1
      BY <1>1, <1>5
    <2>1. Opens(v, At(text, pos))
      BY <2>0, FirstByte
    <2>2. Decode(text, pos, active) = DecodeInteger(text, pos)
      <3>1. pos \in (0 .. n) \ active /\ active \in SUBSET (0 .. n)
        BY <1>1
      <3>2. At(text, pos) = "i"
        BY <2>1 DEF Opens
      <3> QED BY <1>1, <3>1, <3>2, DecodeIs
    <2>3. Holds(whole, pos, e) /\ Len(e) \in Nat
      BY <1>3, EncodeBytes
    <2>4. CASE pos + Len(e) <= n
      <3>1. DecodeInteger(text, pos) = Decoded(v, pos + Len(e))
        BY <1>1, <1>2, <2>3, <2>4, IntegerDecoded
      <3> QED BY <1>3, <2>2, <2>4, <3>1 DEF Fits
    <2>5. CASE pos + Len(e) > n
      <3>1. Dead(DecodeInteger(text, pos), n)
        BY <1>2, <2>0, <2>3, <2>5, IntegerCut
      <3>2. ~(pos + Len(e) <= n)
        <4> HIDE DEF e
        <4> QED BY <1>1, <2>3, <2>5
      <3> QED BY <1>3, <2>2, <3>1, <3>2 DEF Fits
    <2> HIDE DEF e
    <2> QED BY <1>1, <2>3, <2>4, <2>5
  <1> QED BY <1>1, <1>4, <1>5

LEMMA Beginning ==
    ASSUME NEW T, NEW l \in Seq(T)
    PROVE  /\ SubSeq(l, 1, 0) = <<>>
           /\ SubSeq(l, 1, Len(l)) = l
           /\ \A k \in 0 .. Len(l) - 1 :
                  Append(SubSeq(l, 1, k), l[k + 1]) = SubSeq(l, 1, k + 1)
  <1>1. SubSeq(l, 1, 0) = <<>> /\ SubSeq(l, 1, Len(l)) = l
    OBVIOUS
  <1>2. ASSUME NEW k \in 0 .. Len(l) - 1
        PROVE  Append(SubSeq(l, 1, k), l[k + 1]) = SubSeq(l, 1, k + 1)
    <2> DEFINE a == Append(SubSeq(l, 1, k), l[k + 1])
               b == SubSeq(l, 1, k + 1)
    <2>1. k \in Nat /\ k + 1 \in 1 .. Len(l) /\ Len(l) \in Nat
      OBVIOUS
    <2>2. SubSeq(l, 1, k) \in Seq(T) /\ Len(SubSeq(l, 1, k)) = k
          /\ \A i \in 1 .. k : SubSeq(l, 1, k)[i] = l[i]
      BY <2>1
    <2>3. b \in Seq(T) /\ Len(b) = k + 1 /\ \A i \in 1 .. k + 1 : b[i] = l[i]
      BY <2>1
    <2>4. l[k + 1] \in T
      BY <2>1
    <2>5. a \in Seq(T) /\ Len(a) = k + 1 /\ \A i \in 1 .. k + 1 : a[i] = l[i]
      BY <2>1, <2>2, <2>4
    <2> HIDE DEF a, b
    <2>6. a = b
      BY <2>3, <2>5
    <2> QED BY <2>6 DEF a, b
  <1> QED BY <1>1, <1>2

LEMMA ListReads ==
    ASSUME DecodeCalls, EncodeCalls, NEW V, NEW depth, IsForest(V, depth), NEW v \in V,
           NEW text, NEW whole, IsCut(text, whole), Is("list", v),
           \A w \in V : depth[w] < depth[v] => Reads(text, whole, w)
    PROVE  Reads(text, whole, v)
  <1> SUFFICES ASSUME NEW pos \in 0 .. Len(text), NEW active \in SUBSET (0 .. pos - 1),
                      Holds(whole, pos, Encode(v)), 0 \in active \cup {pos}
               PROVE  Fits(text, Decode(text, pos, active), v, pos + Len(Encode(v)))
    BY DEF Reads
  <1> DEFINE n == Len(text)
             l == v.list
             m == Len(l)
             part == [k \in 1 .. m |-> Encode(l[k])]
             act == active \cup {pos}
             end == pos + Len(Encode(v))
  <1>1. text \in Text /\ n \in Nat /\ pos \in Nat /\ whole \in Text
    BY StartIs DEF IsCut
  <1>2. /\ v = BList(l) /\ l \in Seq(V) /\ m \in Nat
        /\ \A k \in 1 .. m : l[k] \in V /\ depth[l[k]] < depth[v]
    BY Kinds
  <1>3. \A k \in 1 .. m : Encode(l[k]) \in Seq(Byte) /\ Reads(text, whole, l[k])
    BY <1>2, EncodeBytes
  <1>4. PICK f : Grows(f, m, <<"l">>, part) /\ Encode(v) = f[m] \o <<"e">>
    <2>1. \A k \in 1 .. Len(v.list) : Encode(v.list[k]) \in Seq(Byte)
      BY <1>3
    <2> QED BY <2>1, ListText
  <1>5. part \in [1 .. m -> Seq(Byte)] /\ "l" \in Byte /\ \A k \in 1 .. m : part[k] = Encode(l[k])
    BY <1>3, SyntaxIsByte DEF Syntax
  <1>6. CASE pos = n
    BY <1>1, <1>6, AtEndReads
  <1>7. CASE pos < n
    <2>1. Opens(v, At(text, pos))
      <3>1. pos \in 0 .. Len(text) - 1
        BY <1>1, <1>7
      <3> QED BY <3>1, FirstByte
    <2>2. Decode(text, pos, active) = Items(text, pos + 1, <<>>, {}, act)
      <3>1. pos \in (0 .. n) \ active /\ active \in SUBSET (0 .. n)
        BY <1>1
      <3>2. At(text, pos) = "l"
        BY <2>1 DEF Opens
      <3> QED BY <1>1, <3>1, <3>2, DecodeIs
    <2> HIDE DEF l, m, part
    <2> DEFINE t == f[m]
               off(k) == pos + Len(f[k])
    <2>3. t \in Seq(Byte) /\ Len(t \o <<"e">>) = Len(t) + 1
      <3>1. m \in Nat /\ part \in [1 .. m -> Seq(Byte)] /\ "l" \in Byte
        BY <1>2, <1>5
      <3>2. Grows(f, m, <<"l">>, part)
        BY <1>4
      <3> QED BY <3>1, <3>2, Written
    <2>4. Holds(whole, pos, t) /\ Holds(whole, off(m), <<"e">>)
      <3>1. Holds(whole, pos, t \o <<"e">>)
        BY <1>4
      <3>2. <<"e">> \in Seq(Byte)
        BY SyntaxIsByte DEF Syntax
      <3> HIDE DEF t
      <3>3. Holds(whole, pos, t) /\ Holds(whole, pos + Len(t), <<"e">>)
        BY <1>1, <2>3, <3>1, <3>2, HoldsParts
      <3> QED BY <3>3 DEF t
    <2>5. ASSUME NEW k \in 1 .. m
          PROVE  /\ Holds(whole, off(k - 1), Encode(l[k]))
                 /\ Len(f[k]) = Len(f[k - 1]) + Len(Encode(l[k]))
      <3> DEFINE start == <<"l">>
      <3>1. Holds(whole, pos, f[m]) /\ Grows(f, m, start, part)
        BY <1>4, <2>4
      <3>2. m \in Nat /\ part \in [1 .. m -> Seq(Byte)] /\ part[k] = Encode(l[k])
        BY <1>2, <1>5
      <3>3. pos \in Nat /\ whole \in Text
        BY <1>1
      <3> HIDE DEF start
      <3>4. HoldsEach(whole, pos, f, m, part)
        BY <3>1, <3>2, <3>3, GrowsHolds
      <3> QED BY <3>2, <3>4 DEF HoldsEach
    <2>6. ASSUME NEW k \in 0 .. m
          PROVE  Len(f[k]) \in Nat /\ Len(f[k]) >= 1 /\ Len(f[k]) <= Len(f[m])
      <3> DEFINE start == <<"l">>
      <3>1. start # <<>> /\ Grows(f, m, start, part)
        BY <1>4
      <3> HIDE DEF start
      <3>2. f[k] \in Seq(Byte) /\ Len(f[k]) >= 1 /\ Len(f[k]) <= Len(f[m])
        BY <1>2, <1>5, <3>1, GrowsFrom
      <3> QED BY <3>2
    <2>7. off(0) = pos + 1
      <3>1. f[0] = <<"l">>
        BY <1>4 DEF Grows
      <3> QED BY <3>1
    <2>8. end = off(m) + 1 /\ end \in Nat
      <3>1. Len(Encode(v)) = Len(f[m]) + 1
        BY <1>4, <2>3
      <3>2. Len(f[m]) \in Nat
        BY <1>2, <2>6
      <3> QED BY <1>1, <3>1, <3>2
    <2> HIDE DEF end
    <2> DEFINE Inner(k) ==
                   off(k) <= n =>
                       \A seen \in SUBSET (0 .. off(k) - 1) :
                           Fits(text, Items(text, off(k), SubSeq(l, 1, k), seen, act), v, end)
    <2>9. ASSUME NEW k \in 0 .. m
          PROVE  off(k) \in Nat /\ off(k) > pos /\ off(k) < end /\ act \in SUBSET (0 .. off(k) - 1)
      <3>1. m \in 0 .. m
        BY <1>2
      <3>2. off(k) \in Nat /\ off(k) > pos /\ off(k) <= off(m) /\ off(m) \in Nat
        BY <1>1, <2>6, <3>1
      <3> HIDE DEF off
      <3>3. act \in SUBSET (0 .. off(k) - 1)
        BY <1>1, <3>2
      <3> QED BY <2>8, <3>2, <3>3
    <2> HIDE DEF act
    <2>10. Inner(m)
      <3> SUFFICES ASSUME off(m) <= n, NEW seen \in SUBSET (0 .. off(m) - 1)
                   PROVE  Fits(text, Items(text, off(m), SubSeq(l, 1, m), seen, act), v, end)
        OBVIOUS
      <3> DEFINE p == off(m)
      <3>1. m \in 0 .. m
        BY <1>2
      <3>2. p \in 0 .. Len(text) /\ act \in SUBSET (0 .. p - 1)
        BY <1>1, <2>9, <3>1
      <3>3. Holds(whole, p, <<"e">>) /\ seen \in SUBSET (0 .. p - 1) /\ end = p + 1
        BY <2>4, <2>8
      <3>4. SubSeq(l, 1, m) = l
        BY <1>2, Beginning DEF m
      <3> HIDE DEF p
      <3>5. /\ p < n => Items(text, p, l, seen, act) = Decoded(BList(l), p + 1)
            /\ p = n => Failed(Items(text, p, l, seen, act))
        BY <3>2, <3>3, ItemsEnd
      <3>6. CASE p < n
        <4>1. end <= n
          BY <1>1, <3>2, <3>3, <3>6
        <4>2. Items(text, p, l, seen, act) = Decoded(v, end)
          BY <1>2, <3>3, <3>5, <3>6
        <4> QED BY <3>4, <4>1, <4>2 DEF Fits, p
      <3>7. CASE p = n
        <4>1. end > n /\ end \in Nat
          BY <1>1, <2>8, <3>3, <3>7
        <4>2. Fits(text, Items(text, p, l, seen, act), v, end)
          BY <1>1, <3>5, <3>7, <4>1, DeadEnds
        <4> QED BY <3>4, <4>2 DEF p
      <3> QED BY <1>1, <3>2, <3>6, <3>7
    <2>11. ASSUME NEW k \in 0 .. m - 1, Inner(k + 1)
           PROVE  Inner(k)
      <3> SUFFICES ASSUME off(k) <= n, NEW seen \in SUBSET (0 .. off(k) - 1)
                   PROVE  Fits(text, Items(text, off(k), SubSeq(l, 1, k), seen, act), v, end)
        OBVIOUS
      <3> DEFINE p == off(k)
                 q == off(k + 1)
                 w == l[k + 1]
                 r == SubSeq(l, 1, k)
                 o == Items(text, p, r, seen, act)
      <3>1. k \in 0 .. m /\ k + 1 \in 0 .. m /\ k + 1 \in 1 .. m /\ (k + 1) - 1 = k
        BY <1>2
      <3>2. p \in Nat /\ p \in 0 .. Len(text) /\ act \in SUBSET (0 .. p - 1)
        BY <1>1, <2>9, <3>1
      <3>3. Holds(whole, p, Encode(w)) /\ q = p + Len(Encode(w)) /\ q \in Nat /\ q > p /\ q < end
        <4>1. Holds(whole, p, Encode(w)) /\ Len(f[k + 1]) = Len(f[k]) + Len(Encode(w))
          BY <2>5, <3>1
        <4>2. q \in Nat /\ q < end /\ p \in Nat
          BY <2>9, <3>1
        <4>3. Len(f[k]) \in Nat /\ Len(f[k + 1]) \in Nat /\ Len(Encode(w)) \in Nat /\ Len(Encode(w)) >= 1
          BY <1>2, <2>6, <3>1, EncodeBytes
        <4>4. q = p + Len(Encode(w)) /\ q > p
          <5> DEFINE x == Len(f[k])
                     y == Len(f[k + 1])
                     z == Len(Encode(w))
          <5>1. x \in Nat /\ y \in Nat /\ z \in Nat /\ z >= 1 /\ y = x + z
            BY <4>1, <4>3
          <5>2. p = pos + x /\ q = pos + y
            OBVIOUS
          <5> HIDE DEF x, y, z, p, q
          <5>3. q = p + z /\ q > p
            BY <1>1, <5>1, <5>2
          <5> QED BY <5>3 DEF z
        <4> HIDE DEF p, q, w
        <4> QED BY <4>1, <4>2, <4>4
      <3>4. w \in V /\ Reads(text, whole, w)
        BY <1>2, <1>3, <3>1
      <3>5. Append(r, w) = SubSeq(l, 1, k + 1)
        <4>1. k \in 0 .. Len(l) - 1
          BY DEF m
        <4> QED BY <1>2, <4>1, Beginning
      <3>6. 0 \in act
        BY DEF act
      <3> HIDE DEF p, q, w, r
      <3>7. seen \in SUBSET (0 .. p - 1)
        BY DEF p
      <3>8. /\ q <= n => o = Items(text, q, Append(r, w), seen \cup {p}, act)
            /\ q > n => Failed(o)
        BY <3>2, <3>3, <3>4, <3>6, <3>7, ItemRead
      <3>9. CASE q <= n
        <4>1. seen \cup {p} \in SUBSET (0 .. q - 1)
          BY <3>2, <3>3, <3>7
        <4>2. Fits(text, Items(text, q, SubSeq(l, 1, k + 1), seen \cup {p}, act), v, end)
          BY <2>11, <3>9, <4>1 DEF q
        <4>3. o = Items(text, q, SubSeq(l, 1, k + 1), seen \cup {p}, act)
          BY <3>5, <3>8, <3>9
        <4> QED BY <4>2, <4>3 DEF p, r
      <3>10. CASE q > n
        <4>1. end > n
          BY <1>1, <2>8, <3>3, <3>10
        <4>2. Fits(text, o, v, end)
          BY <1>1, <2>8, <3>8, <3>10, <4>1, DeadEnds
        <4> QED BY <4>2 DEF p, r
      <3> QED BY <1>1, <3>3, <3>9, <3>10
    <2>12. Inner(0)
      <3> DEFINE S == {j \in Nat : j <= m => Inner(m - j)}
      <3>1. 0 \in S
        <4>1. m - 0 = m
          BY <1>2
        <4> HIDE DEF Inner
        <4> QED BY <2>10, <4>1
      <3>2. ASSUME NEW j \in Nat, j \in S
            PROVE  j + 1 \in S
        <4> HIDE DEF Inner
        <4> SUFFICES ASSUME j + 1 <= m PROVE Inner(m - (j + 1))
          OBVIOUS
        <4> DEFINE k == m - (j + 1)
        <4>1. k \in 0 .. m - 1 /\ k + 1 = m - j /\ Inner(m - j)
          BY <1>2, <3>2
        <4> HIDE DEF k
        <4>2. Inner(k)
          BY <2>11, <4>1
        <4> QED BY <4>2 DEF k
      <3>3. \A j \in Nat : j \in S
        <4> HIDE DEF S
        <4> QED BY <3>1, <3>2, EachNumber
      <3>4. m \in S /\ m - m = 0
        <4> HIDE DEF S
        <4> QED BY <1>2, <3>3
      <3> HIDE DEF Inner
      <3> QED BY <1>2, <3>4
    <2>13. Fits(text, Items(text, pos + 1, <<>>, {}, act), v, end)
      <3>1. off(0) <= n
        BY <1>1, <1>7, <2>7
      <3>2. SubSeq(l, 1, 0) = <<>>
        BY <1>2, Beginning
      <3>3. {} \in SUBSET (0 .. off(0) - 1)
        OBVIOUS
      <3>4. Fits(text, Items(text, off(0), SubSeq(l, 1, 0), {}, act), v, end)
        BY <2>12, <3>1, <3>3
      <3> QED BY <2>7, <3>2, <3>4
    <2> QED BY <2>2, <2>13 DEF end
  <1> QED BY <1>1, <1>6, <1>7

\* The dictionary of the first k keys.
First(g, keys, k) == [key \in {keys[i] : i \in 1 .. k} |-> g[key]]

LEMMA FirstGrows ==
    ASSUME NEW g, NEW keys, NEW k \in Nat
    PROVE  Assigned(First(g, keys, k), keys[k + 1], g[keys[k + 1]]) = First(g, keys, k + 1)
  <1> DEFINE a == keys[k + 1]
             old == {keys[i] : i \in 1 .. k}
             new == {keys[i] : i \in 1 .. k + 1}
  <1>1. new = {a} \cup old
    <2>1. ASSUME NEW x \in new PROVE x \in {a} \cup old
      <3>1. PICK i \in 1 .. k + 1 : x = keys[i]
        BY <2>1
      <3>2. i = k + 1 \/ i \in 1 .. k
        OBVIOUS
      <3> QED BY <3>1, <3>2
    <2>2. a \in new
      <3>1. k + 1 \in 1 .. k + 1
        OBVIOUS
      <3> QED BY <3>1
    <2>3. old \subseteq new
      <3>1. 1 .. k \subseteq 1 .. k + 1
        OBVIOUS
      <3> QED BY <3>1
    <2> QED BY <2>1, <2>2, <2>3
  <1> HIDE DEF a, new, old
  <1>2. /\ First(g, keys, k) = [x \in old |-> g[x]]
        /\ First(g, keys, k + 1) = [x \in new |-> g[x]]
    BY DEF First, old, new
  <1>3. Assigned([x \in old |-> g[x]], a, g[a]) = [x \in new |-> g[x]]
    BY <1>1 DEF Assigned
  <1> QED BY <1>2, <1>3 DEF a

LEMMA FirstNone ==
    ASSUME NEW g, NEW keys
    PROVE  First(g, keys, 0) = <<>>
  <1>1. {keys[i] : i \in 1 .. 0} = {}
    OBVIOUS
  <1>2. First(g, keys, 0) = [key \in {} |-> g[key]]
    BY <1>1 DEF First
  <1> QED BY <1>2

LEMMA FirstAll ==
    ASSUME NEW g, IsDict(g), NEW keys \in Seq(DOMAIN g),
           \A key \in DOMAIN g : \E i \in 1 .. Len(keys) : keys[i] = key
    PROVE  First(g, keys, Len(keys)) = g
  <1> DEFINE D == DOMAIN g
             all == {keys[i] : i \in 1 .. Len(keys)}
  <1>1. all = D
    <2>1. ASSUME NEW x \in all PROVE x \in D
      <3>1. PICK i \in 1 .. Len(keys) : x = keys[i]
        BY <2>1
      <3> HIDE DEF D, all
      <3>2. keys \in Seq(D)
        BY DEF D
      <3> QED BY <3>1, <3>2
    <2>2. ASSUME NEW x \in D PROVE x \in all
      <3>1. PICK i \in 1 .. Len(keys) : keys[i] = x
        BY <2>2
      <3> QED BY <3>1
    <2> QED BY <2>1, <2>2
  <1>2. First(g, keys, Len(keys)) = [key \in DOMAIN g |-> g[key]]
    BY <1>1 DEF First
  <1> QED BY <1>2 DEF IsDict

\* Nothing is made of a value that does not end in the text.
Meets(text, outcome, v, end) ==
    IF end <= Len(text) THEN outcome = Decoded(v, end) ELSE Failed(outcome)

LEMMA FailureMeets ==
    ASSUME NEW text, NEW outcome, NEW v, NEW end \in Nat, Len(text) \in Nat, end > Len(text),
           Failed(outcome)
    PROVE  Meets(text, outcome, v, end)
  BY DEF Meets

LEMMA AtEndMeets ==
    ASSUME DecodeCalls, EncodeCalls, NEW V, NEW depth, IsForest(V, depth), NEW v \in V,
           NEW text, NEW whole, IsCut(text, whole),
           NEW active \in SUBSET (0 .. Len(text) - 1)
    PROVE  Meets(text, Decode(text, Len(text), active), v, Len(text) + Len(Encode(v)))
  <1> DEFINE x == Len(Encode(v))
  <1>1. text \in Text /\ Len(text) \in Nat
    BY StartIs
  <1>2. x \in Nat /\ x >= 1
    BY EncodeBytes
  <1>3. Failed(Decode(text, Len(text), active))
    BY <1>1, EndThrows, FailuresFail
  <1> HIDE DEF x
  <1>4. ~(Len(text) + x <= Len(text))
    BY <1>1, <1>2
  <1> QED BY <1>3, <1>4 DEF Meets, x

LEMMA EntryLong ==
    ASSUME NEW key \in Seq(Byte), NEW e \in Seq(Byte)
    PROVE  /\ Len(Sized(key) \o e) \in Nat
           /\ Len(Sized(key) \o e) >= 1
  <1> DEFINE a == Sized(key)
             t == digits[Len(key)]
  <1>1. /\ a \in Seq(Byte) /\ t \in Seq(Byte)
        /\ Len(a) = Len(t) + 1 + Len(key)
    BY SizedParts
  <1>2. Len(t) \in Nat /\ Len(key) \in Nat
    <2> HIDE DEF t
    <2> QED BY <1>1
  <1> HIDE DEF a, t
  <1> QED BY <1>1, <1>2 DEF a

\* The dictionary is read whole, or not at all.
LEMMA DictRead ==
    ASSUME DecodeCalls, EncodeCalls, NEW V, NEW depth, IsForest(V, depth), NEW v \in V,
           NEW text, NEW whole, IsCut(text, whole), Is("dict", v),
           \A w \in V : depth[w] < depth[v] => Reads(text, whole, w),
           NEW pos \in 0 .. Len(text), NEW active \in SUBSET (0 .. pos - 1),
           Holds(whole, pos, Encode(v)), 0 \in active \cup {pos}
    PROVE  Meets(text, Decode(text, pos, active), v, pos + Len(Encode(v)))
  <1> DEFINE n == Len(text)
             g == v.dict
             keys == Sorted(DOMAIN g)
             m == Len(keys)
             part == EntryTexts(g)
             act == active \cup {pos}
             end == pos + Len(Encode(v))
  <1>1. text \in Text /\ n \in Nat /\ pos \in Nat /\ whole \in Text
    BY StartIs DEF IsCut
  <1>2. /\ v = BDict(g) /\ IsDict(g) /\ DOMAIN g \subseteq Seq(Byte)
        /\ IsFiniteSet(DOMAIN g)
        /\ \A key \in DOMAIN g : g[key] \in V /\ depth[g[key]] < depth[v]
    BY Kinds
  <1>3. \A key \in DOMAIN g : Encode(g[key]) \in Seq(Byte) /\ Reads(text, whole, g[key])
    BY <1>2, EncodeBytes
  <1>4. /\ keys \in Seq(DOMAIN g) /\ part \in [1 .. m -> Seq(Byte)]
        /\ \E f : Grows(f, m, <<"d">>, part) /\ Encode(v) = f[m] \o <<"e">>
    <2>1. \A k \in DOMAIN v.dict : Encode(v.dict[k]) \in Seq(Byte)
      BY <1>3
    <2> QED BY <2>1, DictText
  <1>5. /\ "d" \in Byte /\ m \in Nat
        /\ \A k \in 1 .. m : keys[k] \in DOMAIN g
        /\ \A k \in 1 .. m : part[k] = Entry(g, k)
        /\ \A key \in DOMAIN g : \E i \in 1 .. m : keys[i] = key
    <2>1. "d" \in Byte
      BY SyntaxIsByte DEF Syntax
    <2>2. \A k \in 1 .. m : part[k] = Entry(g, k)
      BY DEF EntryTexts
    <2>3. \A key \in DOMAIN g : \E i \in 1 .. m : keys[i] = key
      BY <1>2, SortedKeys
    <2> DEFINE D == DOMAIN g
    <2>4. keys \in Seq(D)
      BY <1>4
    <2> HIDE DEF D, keys, g
    <2>5. m \in Nat /\ \A k \in 1 .. m : keys[k] \in D
      BY <2>4
    <2> QED BY <2>1, <2>2, <2>3, <2>5 DEF D
  <1>6. PICK f : Grows(f, m, <<"d">>, part) /\ Encode(v) = f[m] \o <<"e">>
    BY <1>4
  <1>7. CASE pos = n
    BY <1>1, <1>7, AtEndMeets
  <1>8. CASE pos < n
    <2>1. Opens(v, At(text, pos))
      <3>1. pos \in 0 .. Len(text) - 1
        BY <1>1, <1>8
      <3> QED BY <3>1, FirstByte
    <2>2. Decode(text, pos, active) = Entries(text, pos + 1, <<>>, {}, act)
      <3>1. pos \in (0 .. n) \ active /\ active \in SUBSET (0 .. n)
        BY <1>1
      <3>2. At(text, pos) = "d"
        BY <2>1 DEF Opens
      <3> QED BY <1>1, <3>1, <3>2, DecodeIs
    <2> HIDE DEF g, keys, m, part
    <2> DEFINE t == f[m]
               off(k) == pos + Len(f[k])
    <2>3. t \in Seq(Byte) /\ Len(t \o <<"e">>) = Len(t) + 1
      <3>1. m \in Nat /\ part \in [1 .. m -> Seq(Byte)] /\ "d" \in Byte
        BY <1>4, <1>5
      <3>2. Grows(f, m, <<"d">>, part)
        BY <1>6
      <3> QED BY <3>1, <3>2, Written
    <2>4. Holds(whole, pos, t) /\ Holds(whole, off(m), <<"e">>)
      <3>1. Holds(whole, pos, t \o <<"e">>)
        BY <1>6
      <3>2. <<"e">> \in Seq(Byte)
        BY SyntaxIsByte DEF Syntax
      <3> HIDE DEF t
      <3>3. Holds(whole, pos, t) /\ Holds(whole, pos + Len(t), <<"e">>)
        BY <1>1, <2>3, <3>1, <3>2, HoldsParts
      <3> QED BY <3>3 DEF t
    <2>5. ASSUME NEW k \in 1 .. m
          PROVE  /\ Holds(whole, off(k - 1), Entry(g, k))
                 /\ Len(f[k]) = Len(f[k - 1]) + Len(Entry(g, k))
      <3> DEFINE start == <<"d">>
      <3>1. Holds(whole, pos, f[m]) /\ Grows(f, m, start, part)
        BY <1>6, <2>4
      <3>2. m \in Nat /\ part \in [1 .. m -> Seq(Byte)] /\ part[k] = Entry(g, k)
        BY <1>4, <1>5
      <3>3. pos \in Nat /\ whole \in Text
        BY <1>1
      <3> HIDE DEF start
      <3>4. HoldsEach(whole, pos, f, m, part)
        BY <3>1, <3>2, <3>3, GrowsHolds
      <3> QED BY <3>2, <3>4 DEF HoldsEach
    <2>6. ASSUME NEW k \in 0 .. m
          PROVE  Len(f[k]) \in Nat /\ Len(f[k]) >= 1 /\ Len(f[k]) <= Len(f[m])
      <3> DEFINE start == <<"d">>
      <3>1. start # <<>> /\ Grows(f, m, start, part)
        BY <1>6
      <3> HIDE DEF start
      <3>2. f[k] \in Seq(Byte) /\ Len(f[k]) >= 1 /\ Len(f[k]) <= Len(f[m])
        BY <1>4, <1>5, <3>1, GrowsFrom
      <3> QED BY <3>2
    <2>7. off(0) = pos + 1
      <3>1. f[0] = <<"d">>
        BY <1>6 DEF Grows
      <3> QED BY <3>1
    <2>8. end = off(m) + 1 /\ end \in Nat
      <3>1. Len(Encode(v)) = Len(f[m]) + 1
        BY <1>6, <2>3
      <3>2. Len(f[m]) \in Nat
        BY <1>5, <2>6
      <3> QED BY <1>1, <3>1, <3>2
    <2> HIDE DEF end
    <2> DEFINE Inner(k) ==
                   off(k) <= n =>
                       \A seen \in SUBSET (0 .. off(k) - 1) :
                           Meets(text, Entries(text, off(k), First(g, keys, k), seen, act), v, end)
    <2>9. ASSUME NEW k \in 0 .. m
          PROVE  off(k) \in Nat /\ off(k) > pos /\ off(k) < end /\ act \in SUBSET (0 .. off(k) - 1)
      <3>1. m \in 0 .. m
        BY <1>5
      <3>2. off(k) \in Nat /\ off(k) > pos /\ off(k) <= off(m) /\ off(m) \in Nat
        BY <1>1, <2>6, <3>1
      <3> HIDE DEF off
      <3>3. act \in SUBSET (0 .. off(k) - 1)
        BY <1>1, <3>2
      <3> QED BY <2>8, <3>2, <3>3
    <2> HIDE DEF act
    <2>10. Inner(m)
      <3> SUFFICES ASSUME off(m) <= n, NEW seen \in SUBSET (0 .. off(m) - 1)
                   PROVE  Meets(text, Entries(text, off(m), First(g, keys, m), seen, act), v, end)
        OBVIOUS
      <3> DEFINE p == off(m)
      <3>1. m \in 0 .. m
        BY <1>5
      <3>2. p \in 0 .. Len(text) /\ act \in SUBSET (0 .. p - 1)
        BY <1>1, <2>9, <3>1
      <3>3. Holds(whole, p, <<"e">>) /\ seen \in SUBSET (0 .. p - 1) /\ end = p + 1
        BY <2>4, <2>8
      <3>4. First(g, keys, m) = g
        BY <1>2, <1>4, <1>5, FirstAll DEF m
      <3> HIDE DEF p
      <3>5. /\ p < n => Entries(text, p, g, seen, act) = Decoded(BDict(g), p + 1)
            /\ p = n => Failed(Entries(text, p, g, seen, act))
        BY <3>2, <3>3, EntriesEnd
      <3>6. CASE p < n
        <4>1. end <= n
          BY <1>1, <3>2, <3>3, <3>6
        <4>2. Entries(text, p, g, seen, act) = Decoded(v, end)
          BY <1>2, <3>3, <3>5, <3>6
        <4> QED BY <3>4, <4>1, <4>2 DEF Meets, p
      <3>7. CASE p = n
        <4>1. end > n /\ end \in Nat
          BY <1>1, <2>8, <3>3, <3>7
        <4>2. Meets(text, Entries(text, p, g, seen, act), v, end)
          BY <1>1, <3>5, <3>7, <4>1, FailureMeets
        <4> QED BY <3>4, <4>2 DEF p
      <3> QED BY <1>1, <3>2, <3>6, <3>7
    <2>11. ASSUME NEW k \in 0 .. m - 1, Inner(k + 1)
           PROVE  Inner(k)
      <3> SUFFICES ASSUME off(k) <= n, NEW seen \in SUBSET (0 .. off(k) - 1)
                   PROVE  Meets(text, Entries(text, off(k), First(g, keys, k), seen, act), v, end)
        OBVIOUS
      <3> DEFINE p == off(k)
                 q == off(k + 1)
                 key == keys[k + 1]
                 w == g[key]
                 e == Sized(key) \o Encode(w)
                 r == First(g, keys, k)
                 o == Entries(text, p, r, seen, act)
      <3>1. k \in 0 .. m /\ k + 1 \in 0 .. m /\ k + 1 \in 1 .. m /\ (k + 1) - 1 = k
        BY <1>5
      <3>2. p \in Nat /\ p \in 0 .. Len(text) /\ act \in SUBSET (0 .. p - 1)
        BY <1>1, <2>9, <3>1
      <3>3. w \in V /\ Reads(text, whole, w) /\ key \in Seq(Byte) /\ Encode(w) \in Seq(Byte)
        BY <1>2, <1>3, <1>5, <3>1
      <3>4. Holds(whole, p, e) /\ q = p + Len(e) /\ q \in Nat /\ q > p /\ q < end
        <4>1. Holds(whole, p, e) /\ Len(f[k + 1]) = Len(f[k]) + Len(e)
          BY <2>5, <3>1 DEF Entry, keys
        <4>2. q \in Nat /\ q < end /\ p \in Nat
          BY <2>9, <3>1
        <4>3. Len(f[k]) \in Nat /\ Len(f[k + 1]) \in Nat
          BY <1>5, <2>6, <3>1
        <4>4. Len(e) \in Nat /\ Len(e) >= 1
          <5> HIDE DEF key, w
          <5> QED BY <3>3, EntryLong
        <4>5. q = p + Len(e) /\ q > p
          <5> DEFINE x == Len(f[k])
                     y == Len(f[k + 1])
                     z == Len(e)
          <5>1. x \in Nat /\ y \in Nat /\ z \in Nat /\ z >= 1 /\ y = x + z
            BY <4>1, <4>3, <4>4
          <5>2. p = pos + x /\ q = pos + y
            OBVIOUS
          <5> HIDE DEF x, y, z, p, q
          <5>3. q = p + z /\ q > p
            BY <1>1, <5>1, <5>2
          <5> QED BY <5>3 DEF z
        <4> HIDE DEF p, q, e
        <4> QED BY <4>1, <4>2, <4>5
      <3>5. Assigned(r, key, w) = First(g, keys, k + 1)
        BY FirstGrows
      <3>6. 0 \in act
        BY DEF act
      <3> HIDE DEF p, q, w, r, key
      <3>7. seen \in SUBSET (0 .. p - 1)
        BY DEF p
      <3>8. /\ q <= n => o = Entries(text, q, Assigned(r, key, w), seen \cup {p}, act)
            /\ q > n => Failed(o)
        BY <3>2, <3>3, <3>4, <3>6, <3>7, EntryRead
      <3>9. CASE q <= n
        <4>1. seen \cup {p} \in SUBSET (0 .. q - 1)
          BY <3>2, <3>4, <3>7
        <4>2. Meets(text, Entries(text, q, First(g, keys, k + 1), seen \cup {p}, act), v, end)
          BY <2>11, <3>9, <4>1 DEF q
        <4>3. o = Entries(text, q, First(g, keys, k + 1), seen \cup {p}, act)
          BY <3>5, <3>8, <3>9
        <4> QED BY <4>2, <4>3 DEF p, r
      <3>10. CASE q > n
        <4>1. end > n
          BY <1>1, <2>8, <3>4, <3>10
        <4>2. Meets(text, o, v, end)
          BY <1>1, <2>8, <3>8, <3>10, <4>1, FailureMeets
        <4> QED BY <4>2 DEF p, r
      <3> QED BY <1>1, <3>4, <3>9, <3>10
    <2>12. Inner(0)
      <3> DEFINE S == {j \in Nat : j <= m => Inner(m - j)}
      <3>1. 0 \in S
        <4>1. m - 0 = m
          BY <1>5
        <4> HIDE DEF Inner
        <4> QED BY <2>10, <4>1
      <3>2. ASSUME NEW j \in Nat, j \in S
            PROVE  j + 1 \in S
        <4> HIDE DEF Inner
        <4> SUFFICES ASSUME j + 1 <= m PROVE Inner(m - (j + 1))
          OBVIOUS
        <4> DEFINE k == m - (j + 1)
        <4>1. k \in 0 .. m - 1 /\ k + 1 = m - j /\ Inner(m - j)
          BY <1>5, <3>2
        <4> HIDE DEF k
        <4>2. Inner(k)
          BY <2>11, <4>1
        <4> QED BY <4>2 DEF k
      <3>3. \A j \in Nat : j \in S
        <4> HIDE DEF S
        <4> QED BY <3>1, <3>2, EachNumber
      <3>4. m \in S /\ m - m = 0
        <4> HIDE DEF S
        <4> QED BY <1>5, <3>3
      <3> HIDE DEF Inner
      <3> QED BY <1>5, <3>4
    <2>13. Meets(text, Entries(text, pos + 1, <<>>, {}, act), v, end)
      <3>1. off(0) <= n
        BY <1>1, <1>8, <2>7
      <3>2. First(g, keys, 0) = <<>>
        BY FirstNone
      <3>3. {} \in SUBSET (0 .. off(0) - 1)
        OBVIOUS
      <3>4. Meets(text, Entries(text, off(0), First(g, keys, 0), {}, act), v, end)
        BY <2>12, <3>1, <3>3
      <3> QED BY <2>7, <3>2, <3>4
    <2> QED BY <2>2, <2>13 DEF end
  <1> QED BY <1>1, <1>7, <1>8

LEMMA DictReads ==
    ASSUME DecodeCalls, EncodeCalls, NEW V, NEW depth, IsForest(V, depth), NEW v \in V,
           NEW text, NEW whole, IsCut(text, whole), Is("dict", v),
           \A w \in V : depth[w] < depth[v] => Reads(text, whole, w)
    PROVE  Reads(text, whole, v)
  <1> SUFFICES ASSUME NEW pos \in 0 .. Len(text), NEW active \in SUBSET (0 .. pos - 1),
                      Holds(whole, pos, Encode(v)), 0 \in active \cup {pos}
               PROVE  Fits(text, Decode(text, pos, active), v, pos + Len(Encode(v)))
    BY DEF Reads
  <1>1. Meets(text, Decode(text, pos, active), v, pos + Len(Encode(v)))
    BY DictRead
  <1> QED BY <1>1 DEF Meets, Fits, Dead

\* Whatever a value has in it is read.
LEMMA AllRead ==
    ASSUME DecodeCalls, EncodeCalls, NEW V, NEW depth, IsForest(V, depth),
           NEW text, NEW whole, IsCut(text, whole)
    PROVE  \A v \in V : Reads(text, whole, v)
  <1> DEFINE S == {d \in Nat : \A v \in V : depth[v] = d => Reads(text, whole, v)}
  <1>1. ASSUME NEW d \in Nat, \A c \in 0 .. d - 1 : c \in S
        PROVE  d \in S
    <2> SUFFICES ASSUME NEW v \in V, depth[v] = d PROVE Reads(text, whole, v)
      OBVIOUS
    <2>1. \A w \in V : depth[w] < depth[v] => Reads(text, whole, w)
      <3> SUFFICES ASSUME NEW w \in V, depth[w] < depth[v] PROVE Reads(text, whole, w)
        OBVIOUS
      <3>1. depth[w] \in Nat
        BY Kinds
      <3>2. depth[w] \in 0 .. d - 1
        BY <3>1
      <3> QED BY <1>1, <3>2
    <2>2. Is("int", v) \/ Is("string", v) \/ Is("list", v) \/ Is("dict", v)
      BY Kinds
    <2>3. CASE Is("int", v)
      BY <2>3, IntegerReads
    <2>4. CASE Is("string", v)
      BY <2>4, StringReads
    <2>5. CASE Is("list", v)
      BY <2>1, <2>5, ListReads
    <2>6. CASE Is("dict", v)
      BY <2>1, <2>6, DictReads
    <2> QED BY <2>2, <2>3, <2>4, <2>5, <2>6
  <1>2. \A d \in Nat : d \in S
    <2> HIDE DEF S
    <2> QED BY <1>1, AllNumbers
  <1> SUFFICES ASSUME NEW v \in V PROVE Reads(text, whole, v)
    OBVIOUS
  <1>3. depth[v] \in Nat
    BY Kinds
  <1> QED BY <1>2, <1>3

\* A text that ends early, though not inside the length of a string.
LEMMA BeginningIsCut ==
    ASSUME NEW whole \in Seq(Byte), Len(whole) >= 1, whole[1] = "d",
           NEW text \in Beginnings(whole), text = whole \/ ~Torn(whole, text)
    PROVE  /\ IsCut(text, whole)
           /\ text # whole => Len(text) < Len(whole)
  <1> DEFINE m == Len(whole)
  <1>1. PICK n \in 0 .. m : text = SubSeq(whole, 1, n)
    BY DEF Beginnings
  <1>2. m \in Nat /\ n \in Nat /\ n <= m
    OBVIOUS
  <1>3. Len(text) = n /\ text \in Seq(Byte) /\ \A k \in 1 .. n : text[k] = whole[k]
    BY <1>1, <1>2
  <1>4. text # whole => n < m
    <2>1. n = m => text = whole
      BY <1>1
    <2> QED BY <1>2, <2>1
  <1>5. whole \in Text /\ text \in Text
    <2>1. Seq(Byte) \subseteq Seq(Byte \cup {"zero"})
      OBVIOUS
    <2> QED BY <1>3, <2>1 DEF Text
  <1>6. ASSUME n \in 1 .. m - 1, IsDigit(whole[n])
        PROVE  ~IsDigit(whole[n + 1]) /\ whole[n + 1] # ":"
    <2>1. text # whole /\ text # <<>>
      BY <1>2, <1>3, <1>6
    <2>2. text[Len(text)] = whole[n]
      BY <1>2, <1>3, <1>6
    <2>3. ~Torn(whole, text)
      BY <2>1
    <2> HIDE DEF m
    <2> QED BY <1>3, <1>6, <2>1, <2>2, <2>3 DEF Torn
  <1> QED BY <1>2, <1>3, <1>4, <1>5, <1>6 DEF IsCut

\* decode inverts encode: the whole text of a dictionary gives it back, and one that
\* ends early, though not inside the length of a string, gives nothing.
THEOREM DecodeInverts ==
    ASSUME DecodeCalls, EncodeCalls, NEW f, IsTree(BDict(f)),
           NEW text \in Beginnings(Encode(BDict(f))),
           text = Encode(BDict(f)) \/ ~Torn(Encode(BDict(f)), text)
    PROVE  IF text = Encode(BDict(f))
           THEN Decode(text, 0, {}) = Decoded(BDict(f), Len(text))
           ELSE Failed(Decode(text, 0, {}))
  <1> DEFINE v == BDict(f)
             whole == Encode(v)
  <1>1. PICK V, depth : v \in V /\ IsForest(V, depth)
    BY DEF IsTree
  <1>2. Is("dict", v)
    BY DEF BDict, Is
  <1> HIDE DEF v
  <1>3. whole \in Seq(Byte) /\ Len(whole) >= 1 /\ whole[1] = "d"
    BY <1>1, <1>2, EncodeBytes DEF Opens
  <1>4. text \in Beginnings(whole) /\ (text = whole \/ ~Torn(whole, text))
    BY DEF v
  <1>5. IsCut(text, whole) /\ (text # whole => Len(text) < Len(whole))
    <2> HIDE DEF whole
    <2> QED BY <1>3, <1>4, BeginningIsCut
  <1>6. Len(text) \in Nat /\ Len(whole) \in Nat
    BY <1>3, <1>5, StartIs
  <1>7. Holds(whole, 0, Encode(v))
    BY <1>6 DEF Holds
  <1>8. \A w \in V : depth[w] < depth[v] => Reads(text, whole, w)
    BY <1>1, <1>5, AllRead
  <1>9. Meets(text, Decode(text, 0, {}), v, 0 + Len(Encode(v)))
    <2>1. 0 \in 0 .. Len(text) /\ {} \in SUBSET (0 .. 0 - 1) /\ 0 \in {} \cup {0}
      BY <1>6
    <2> HIDE DEF whole
    <2> QED BY <1>1, <1>2, <1>5, <1>7, <1>8, <2>1, DictRead
  <1>10. Meets(text, Decode(text, 0, {}), v, Len(whole))
    BY <1>6, <1>9
  <1>11. CASE text = whole
    <2>1. Decode(text, 0, {}) = Decoded(v, Len(text))
      BY <1>6, <1>10, <1>11 DEF Meets
    <2> QED BY <1>11, <2>1 DEF v
  <1>12. CASE text # whole
    <2>1. Failed(Decode(text, 0, {}))
      BY <1>5, <1>6, <1>10, <1>12 DEF Meets
    <2> QED BY <1>12, <2>1 DEF v
  <1> QED BY <1>11, <1>12

-----------------------------------------------------------------------------
(* What decode makes of any text *)

LEMMA StoiType ==
    ASSUME NEW T, NEW s \in Seq(T)
    PROVE  Stoi(s) \in Int
  <1> DEFINE u == Unsigned(s)
             hits == {i \in 1 .. Len(u) : ~IsDigit(u[i])}
             other == SelectInSeq(u, LAMBDA c : ~IsDigit(c))
             number == IF other = 0 THEN u ELSE SubSeq(u, 1, other - 1)
  <1>1. u \in Seq(T)
    BY DEF Unsigned
  <1>2. other \in 0 .. Len(u)
    <2>1. CASE hits = {}
      BY <1>1, <2>1 DEF SelectInSeq
    <2>2. CASE hits # {}
      <3>1. other = Min(hits)
        BY <2>2 DEF SelectInSeq
      <3>2. hits \subseteq 1 .. Len(u) /\ hits \subseteq Nat /\ Len(u) \in Nat
        BY <1>1
      <3> HIDE DEF hits, other, u
      <3>3. PICK q \in hits : \A k \in hits : q <= k
        BY <2>2, <3>2, LeastNumber
      <3>4. Min(hits) \in hits
        BY <3>3 DEF Min
      <3> DEFINE m == Min(hits)
                 n == Len(u)
      <3>5. m \in hits /\ hits \subseteq 1 .. n /\ n \in Nat
        BY <3>2, <3>4
      <3> HIDE DEF m, n
      <3>6. m \in 1 .. n
        BY <3>5
      <3>7. m \in 0 .. n
        BY <3>5, <3>6
      <3> QED BY <3>1, <3>7 DEF other, m, n
    <2> QED BY <2>1, <2>2
  <1> HIDE DEF u, other
  <1>3. number \in Seq(T)
    BY <1>1, <1>2
  <1>4. Len(number) \in Nat
    BY <1>3
  <1>5. Magnitude(number) \in Int
    BY <1>4, MagnitudeType
  <1>6. Stoi(s) = IF Head(s) = "-" THEN -Magnitude(number) ELSE Magnitude(number)
    BY DEF Stoi, other, u
  <1> QED BY <1>5, <1>6

LEMMA TakenIsText ==
    ASSUME NEW text \in Text, NEW start \in Nat, NEW end \in Int, end <= Len(text) + 1
    PROVE  Taken(text, start, end) \in Text
  <1> DEFINE n == IF end - start < 0 THEN 0 ELSE end - start
             Char == Byte \cup {"zero"}
  <1>1. n \in Nat /\ 1 .. end - start = 1 .. n /\ Len(text) \in Nat
    BY DEF Text
  <1>2. ASSUME NEW i \in 1 .. n
        PROVE  At(text, start + i - 1) \in Char
    <2>1. start + i - 1 \in 0 .. Len(text)
      BY <1>1, <1>2
    <2> DEFINE p == start + i - 1
    <2> HIDE DEF p
    <2>2. p \in 0 .. Len(text)
      BY <2>1 DEF p
    <2>3. CASE p = Len(text)
      BY <2>3 DEF At, p
    <2>4. CASE p < Len(text)
      <3>1. At(text, p) = text[p + 1] /\ p + 1 \in 1 .. Len(text)
        BY <1>1, <2>2, <2>4 DEF At
      <3>2. text \in Seq(Char)
        BY DEF Text
      <3> HIDE DEF Char
      <3>3. text[p + 1] \in Char
        BY <3>1, <3>2
      <3> QED BY <3>1, <3>3 DEF p
    <2> QED BY <1>1, <2>2, <2>3, <2>4
  <1>3. Taken(text, start, end) = [i \in 1 .. n |-> At(text, start + i - 1)]
    BY <1>1 DEF Taken
  <1> HIDE DEF n, Char
  <1>4. Taken(text, start, end) \in Seq(Char)
    BY <1>1, <1>2, <1>3
  <1> QED BY <1>4 DEF Text, Char

\* The strings in a value, as deep as the program looks, are texts.
IsTextual(v) == Is("string", v) => v.string \in Text

HoldsTextual(v) == Is("dict", v) => \A k \in DOMAIN v.dict : IsTextual(v.dict[k])

HasTexts(v) ==
    /\ IsTextual(v)
    /\ HoldsTextual(v)
    /\ Is("dict", v) => \A k \in DOMAIN v.dict : HoldsTextual(v.dict[k])

\* Decoding fails in one of three ways, or yields such a value.
Orderly(outcome) ==
    IF Failed(outcome) THEN outcome \in {Throws, Undefined, Diverges}
    ELSE HasTexts(outcome.value)

LEMMA FailureOrderly == Orderly(Throws) /\ Orderly(Undefined) /\ Orderly(Diverges)
  BY FailuresFail DEF Orderly

LEMMA LeavesHaveTexts ==
    /\ \A n : HasTexts(BInt(n))
    /\ \A l : HasTexts(BList(l))
    /\ \A s \in Text : HasTexts(BStr(s))
  BY DEF HasTexts, IsTextual, HoldsTextual, Is, BInt, BList, BStr

LEMMA DictHasTexts ==
    ASSUME NEW f, \A k \in DOMAIN f : HasTexts(f[k])
    PROVE  HasTexts(BDict(f))
  <1>1. ~Is("string", BDict(f)) /\ BDict(f).dict = f
    BY DEF Is, BDict
  <1>2. \A k \in DOMAIN f : IsTextual(f[k]) /\ HoldsTextual(f[k])
    BY DEF HasTexts
  <1>3. IsTextual(BDict(f))
    BY <1>1 DEF IsTextual
  <1>4. HoldsTextual(BDict(f))
    BY <1>1, <1>2 DEF HoldsTextual
  <1>5. \A k \in DOMAIN BDict(f).dict : HoldsTextual(BDict(f).dict[k])
    BY <1>1, <1>2
  <1> QED BY <1>3, <1>4, <1>5 DEF HasTexts

LEMMA AssignedHasTexts ==
    ASSUME NEW f, \A k \in DOMAIN f : HasTexts(f[k]), NEW key, NEW w, HasTexts(w)
    PROVE  \A k \in DOMAIN Assigned(f, key, w) : HasTexts(Assigned(f, key, w)[k])
  BY DEF Assigned

LEMMA DecodedOrderly ==
    ASSUME NEW v, NEW pos, HasTexts(v)
    PROVE  Orderly(Decoded(v, pos))
  BY DecodedIs DEF Orderly

LEMMA StringOrderly ==
    ASSUME NEW text \in Text, NEW pos \in 0 .. Len(text)
    PROVE  Orderly(DecodeString(text, pos))
  <1> DEFINE Char == Byte \cup {"zero"}
             n == Len(text)
             colon == Find(text, ":", pos)
             number == Between(text, pos, colon)
             start == colon + 1
             end == start + Stoi(number)
             s == Taken(text, start, end)
  <1>1. n \in Nat /\ pos \in Nat /\ text \in Seq(Char)
    BY DEF Text
  <1>2. colon = Npos \/ colon \in pos .. n - 1
    BY <1>1, FindType
  <1>3. number \in Seq(Char)
    <2> HIDE DEF Char, colon
    <2>1. CASE colon = Npos
      BY <1>1, <2>1 DEF Between
    <2>2. CASE colon \in pos .. n - 1
      BY <1>1, <2>2 DEF Between, Npos
    <2> QED BY <1>2, <2>1, <2>2
  <1>4. Stoi(number) \in Int
    <2> HIDE DEF number, Char
    <2> QED BY <1>3, StoiType
  <1>5. start \in Nat /\ end \in Int
    <2> HIDE DEF colon, number
    <2> QED BY <1>1, <1>2, <1>4 DEF Npos
  <1> HIDE DEF Char, n, colon, number, start, end
  <1>6. CASE ~IsNumber(number)
    <2>1. DecodeString(text, pos) = Throws
      BY <1>6 DEF DecodeString, number, colon
    <2> QED BY <2>1, FailureOrderly
  <1>7. CASE IsNumber(number) /\ end > Len(text) + 1
    <2>1. DecodeString(text, pos) = Undefined
      BY <1>7 DEF DecodeString, number, colon, start, end
    <2> QED BY <2>1, FailureOrderly
  <1>8. CASE IsNumber(number) /\ ~(end > Len(text) + 1)
    <2>1. DecodeString(text, pos) = Decoded(BStr(s), end)
      BY <1>8 DEF DecodeString, number, colon, start, end
    <2>2. end <= Len(text) + 1
      BY <1>1, <1>5, <1>8 DEF n
    <2>3. s \in Text
      BY <1>5, <2>2, TakenIsText
    <2> HIDE DEF s
    <2>4. HasTexts(BStr(s))
      BY <2>3, LeavesHaveTexts
    <2> QED BY <2>1, <2>4, DecodedOrderly
  <1> QED BY <1>6, <1>7, <1>8

LEMMA IntegerOrderly ==
    ASSUME NEW text, NEW pos
    PROVE  Orderly(DecodeInteger(text, pos))
  BY LeavesHaveTexts, DecodedOrderly DEF DecodeInteger

\* The positions up to n that are not in a set.
Left(n, S) == Cardinality((0 .. n) \ S)

LEMMA OneLess ==
    ASSUME NEW n \in Nat, NEW S \in SUBSET (0 .. n)
    PROVE  /\ Left(n, S) \in Nat
           /\ \A p \in (0 .. n) \ S : Left(n, S \cup {p}) \in 0 .. Left(n, S) - 1
  <1> DEFINE R == (0 .. n) \ S
  <1>1. IsFiniteSet(0 .. n)
    BY FS_Interval
  <1>2. IsFiniteSet(R)
    BY <1>1, FS_Subset
  <1>3. Cardinality(R) \in Nat
    BY <1>2, FS_CardinalityType
  <1>4. ASSUME NEW p \in R
        PROVE  Cardinality((0 .. n) \ (S \cup {p})) \in 0 .. Cardinality(R) - 1
    <2>1. (0 .. n) \ (S \cup {p}) = R \ {p}
      OBVIOUS
    <2> HIDE DEF R
    <2>2. Cardinality(R \ {p}) = Cardinality(R) - 1 /\ IsFiniteSet(R \ {p})
      BY <1>2, FS_RemoveElement
    <2>3. Cardinality(R \ {p}) \in Nat
      BY <2>2, FS_CardinalityType
    <2> QED BY <1>3, <2>1, <2>2, <2>3
  <1> QED BY <1>3, <1>4 DEF Left

LEMMA ItemsOrderly ==
    ASSUME DecodeCalls, NEW text \in Text, NEW active \in SUBSET (0 .. Len(text)),
           \A pos : Orderly(Decode(text, pos, active))
    PROVE  \A seen \in SUBSET (0 .. Len(text)) : \A pos, result :
               Orderly(Items(text, pos, result, seen, active))
  <1> DEFINE n == Len(text)
             S == {d \in Nat : \A seen \in SUBSET (0 .. Len(text)) :
                       Left(n, seen) = d =>
                           \A pos, result :
                               Orderly(Items(text, pos, result, seen, active))}
  <1>1. n \in Nat
    BY DEF Text
  <1>2. ASSUME NEW d \in Nat, \A c \in 0 .. d - 1 : c \in S
        PROVE  d \in S
    <2> SUFFICES ASSUME NEW seen \in SUBSET (0 .. Len(text)), Left(n, seen) = d,
                        NEW pos, NEW result
                 PROVE  Orderly(Items(text, pos, result, seen, active))
      OBVIOUS
    <2> DEFINE o == Items(text, pos, result, seen, active)
               item == Decode(text, pos, active)
    <2>1. CASE pos \notin 0 .. n
      <3>1. o = Undefined
        BY <2>1, ItemsIs
      <3> QED BY <3>1, FailureOrderly
    <2>2. CASE pos \in seen
      <3>1. o = Diverges
        BY <2>2, ItemsIs
      <3> QED BY <3>1, FailureOrderly
    <2>3. CASE pos \in (0 .. Len(text)) \ seen /\ At(text, pos) = "e"
      <3>1. o = Decoded(BList(result), pos + 1)
        BY <2>3, ItemsIs
      <3>2. HasTexts(BList(result))
        BY LeavesHaveTexts
      <3> QED BY <3>1, <3>2, DecodedOrderly
    <2>4. CASE pos \in (0 .. Len(text)) \ seen /\ At(text, pos) # "e" /\ Failed(item)
      <3>1. o = item
        BY <2>4, ItemsIs
      <3> QED BY <3>1
    <2>5. CASE pos \in (0 .. Len(text)) \ seen /\ At(text, pos) # "e" /\ ~Failed(item)
      <3> DEFINE next == seen \cup {pos}
                 more == Append(result, item.value)
      <3>1. o = Items(text, item.pos, more, next, active)
        BY ZenonT(30), <2>5, ItemsIs
      <3>2. Left(n, next) \in 0 .. d - 1 /\ next \in SUBSET (0 .. Len(text))
        BY <1>1, <2>5, OneLess
      <3>3. Left(n, next) \in S
        BY <1>2, <3>2
      <3> HIDE DEF next, more, item
      <3>4. Orderly(Items(text, item.pos, more, next, active))
        BY <3>2, <3>3
      <3> QED BY <3>1, <3>4
    <2> QED BY <2>1, <2>2, <2>3, <2>4, <2>5
  <1>3. \A d \in Nat : d \in S
    <2> HIDE DEF S
    <2> QED BY <1>2, AllNumbers
  <1> SUFFICES ASSUME NEW seen \in SUBSET (0 .. Len(text)), NEW pos, NEW result
               PROVE  Orderly(Items(text, pos, result, seen, active))
    OBVIOUS
  <1>4. Left(n, seen) \in Nat
    BY <1>1, OneLess
  <1>5. Left(n, seen) \in S
    BY <1>3, <1>4
  <1> QED BY <1>5

LEMMA EntriesOrderly ==
    ASSUME DecodeCalls, NEW text \in Text, NEW active \in SUBSET (0 .. Len(text)),
           \A pos : Orderly(Decode(text, pos, active))
    PROVE  \A seen \in SUBSET (0 .. Len(text)) : \A pos, result :
               (\A k \in DOMAIN result : HasTexts(result[k])) =>
                   Orderly(Entries(text, pos, result, seen, active))
  <1> DEFINE n == Len(text)
             S == {d \in Nat : \A seen \in SUBSET (0 .. Len(text)) :
                       Left(n, seen) = d =>
                           \A pos, result :
                               (\A k \in DOMAIN result : HasTexts(result[k])) =>
                                   Orderly(Entries(text, pos, result, seen, active))}
  <1>1. n \in Nat
    BY DEF Text
  <1>2. ASSUME NEW d \in Nat, \A c \in 0 .. d - 1 : c \in S
        PROVE  d \in S
    <2> SUFFICES ASSUME NEW seen \in SUBSET (0 .. Len(text)), Left(n, seen) = d,
                        NEW pos, NEW result, \A k \in DOMAIN result : HasTexts(result[k])
                 PROVE  Orderly(Entries(text, pos, result, seen, active))
      OBVIOUS
    <2> DEFINE o == Entries(text, pos, result, seen, active)
               key == DecodeString(text, pos)
               value == ValueAt(text, pos, active)
               turn == pos \in (0 .. Len(text)) \ seen
    <2>1. CASE pos \notin 0 .. n
      <3>1. o = Undefined
        BY <2>1, EntriesIs
      <3> QED BY <3>1, FailureOrderly
    <2>2. CASE pos \in seen
      <3>1. o = Diverges
        BY <2>2, EntriesIs
      <3> QED BY <3>1, FailureOrderly
    <2>3. CASE turn /\ At(text, pos) = "e"
      <3>1. o = Decoded(BDict(result), pos + 1)
        BY <2>3, EntriesIs
      <3>2. HasTexts(BDict(result))
        BY DictHasTexts
      <3> QED BY <3>1, <3>2, DecodedOrderly
    <2>4. CASE turn /\ At(text, pos) # "e" /\ Failed(key)
      <3>1. o = key
        BY <2>4, EntriesIs
      <3>2. Orderly(key)
        BY <2>4, StringOrderly
      <3> QED BY <3>1, <3>2
    <2>5. CASE turn /\ At(text, pos) # "e" /\ ~Failed(key) /\ Failed(value)
      <3>1. o = value
        BY <2>5, EntriesIs
      <3>2. Orderly(value)
        BY DEF ValueAt
      <3> QED BY <3>1, <3>2
    <2>6. CASE turn /\ At(text, pos) # "e" /\ ~Failed(key) /\ ~Failed(value)
      <3> DEFINE next == seen \cup {pos}
                 name == key.value.string
                 more == Assigned(result, name, value.value)
      <3>1. GoesOn(text, pos, result, seen, active)
        BY <2>6, EntriesGoOn
      <3>2. o = Entries(text, value.pos, more, next, active)
        BY <3>1 DEF GoesOn
      <3>3. Left(n, next) \in 0 .. d - 1 /\ next \in SUBSET (0 .. Len(text))
        BY <1>1, <2>6, OneLess
      <3>4. Left(n, next) \in S
        BY <1>2, <3>3
      <3>5. HasTexts(value.value)
        <4>1. Orderly(value)
          BY DEF ValueAt
        <4> QED BY <2>6, <4>1 DEF Orderly
      <3>6. \A k \in DOMAIN more : HasTexts(more[k])
        <4> HIDE DEF value, name
        <4> QED BY <3>5, AssignedHasTexts
      <3> HIDE DEF next, more, value, key
      <3>7. Orderly(Entries(text, value.pos, more, next, active))
        BY <3>3, <3>4, <3>6
      <3> QED BY <3>2, <3>7
    <2> QED BY <2>1, <2>2, <2>3, <2>4, <2>5, <2>6
  <1>3. \A d \in Nat : d \in S
    <2> HIDE DEF S
    <2> QED BY <1>2, AllNumbers
  <1> SUFFICES ASSUME NEW seen \in SUBSET (0 .. Len(text)), NEW pos, NEW result,
                      \A k \in DOMAIN result : HasTexts(result[k])
               PROVE  Orderly(Entries(text, pos, result, seen, active))
    OBVIOUS
  <1>4. Left(n, seen) \in Nat
    BY <1>1, OneLess
  <1>5. Left(n, seen) \in S
    BY <1>3, <1>4
  <1> QED BY <1>5

\* Decoding any text throws, reads past its end, comes back to a position and never
\* ends, or yields a value whose strings are texts; nothing else can come of it.
THEOREM DecodeOrderly ==
    ASSUME DecodeCalls, NEW text \in Text
    PROVE  Orderly(Decode(text, 0, {}))
  <1> DEFINE n == Len(text)
             S == {d \in Nat : \A active \in SUBSET (0 .. Len(text)) :
                       Left(n, active) = d =>
                           \A pos : Orderly(Decode(text, pos, active))}
  <1>1. n \in Nat
    BY DEF Text
  <1>2. ASSUME NEW d \in Nat, \A c \in 0 .. d - 1 : c \in S
        PROVE  d \in S
    <2> SUFFICES ASSUME NEW active \in SUBSET (0 .. Len(text)), Left(n, active) = d,
                        NEW pos
                 PROVE  Orderly(Decode(text, pos, active))
      OBVIOUS
    <2> DEFINE o == Decode(text, pos, active)
               c == At(text, pos)
               next == active \cup {pos}
               call == pos \in (0 .. Len(text)) \ active
    <2>1. CASE pos \notin 0 .. Len(text)
      <3>1. o = Undefined
        BY <2>1, DecodeIs
      <3> QED BY <3>1, FailureOrderly
    <2>2. CASE pos \in active
      <3>1. o = Diverges
        BY <2>2, DecodeIs
      <3> QED BY <3>1, FailureOrderly
    <2>3. CASE call /\ IsDigit(c)
      <3>1. o = DecodeString(text, pos)
        BY <2>3, DecodeIs
      <3>2. Orderly(DecodeString(text, pos))
        BY <2>3, StringOrderly
      <3> QED BY <3>1, <3>2
    <2>4. CASE call /\ c = "i"
      <3>1. o = DecodeInteger(text, pos)
        BY <2>4, DecodeIs
      <3> QED BY <3>1, IntegerOrderly
    <2>5. CASE call /\ ~IsDigit(c) /\ c \notin {"i", "l", "d"}
      <3>1. o = Throws
        BY <2>5, DecodeIs
      <3> QED BY <3>1, FailureOrderly
    <2>6. ASSUME call
          PROVE  next \in SUBSET (0 .. Len(text)) /\ \A p : Orderly(Decode(text, p, next))
      <3>1. Left(n, next) \in 0 .. d - 1 /\ next \in SUBSET (0 .. Len(text))
        BY <1>1, <2>6, OneLess
      <3>2. Left(n, next) \in S
        BY <1>2, <3>1
      <3> HIDE DEF next
      <3> QED BY <3>1, <3>2
    <2>7. {} \in SUBSET (0 .. Len(text))
      OBVIOUS
    <2>8. CASE call /\ c = "l"
      <3>1. o = Items(text, pos + 1, <<>>, {}, next)
        BY <2>8, DecodeIs
      <3> HIDE DEF next
      <3>2. Orderly(Items(text, pos + 1, <<>>, {}, next))
        BY <2>6, <2>7, <2>8, ItemsOrderly
      <3> QED BY <3>1, <3>2
    <2>9. CASE call /\ c = "d"
      <3>1. o = Entries(text, pos + 1, <<>>, {}, next)
        BY <2>9, DecodeIs
      <3>2. \A k \in DOMAIN <<>> : HasTexts(<<>>[k])
        OBVIOUS
      <3> DEFINE none == <<>>
      <3>3. \A k \in DOMAIN none : HasTexts(none[k])
        BY <3>2
      <3> HIDE DEF next, none
      <3>4. Orderly(Entries(text, pos + 1, none, {}, next))
        BY <2>6, <2>7, <2>9, <3>3, EntriesOrderly
      <3> QED BY <3>1, <3>4 DEF none
    <2> QED BY <2>1, <2>2, <2>3, <2>4, <2>5, <2>8, <2>9
  <1>3. \A d \in Nat : d \in S
    <2> HIDE DEF S
    <2> QED BY <1>2, AllNumbers
  <1>4. {} \in SUBSET (0 .. Len(text)) /\ Left(n, {}) \in Nat
    BY <1>1, OneLess
  <1>5. Left(n, {}) \in S
    BY <1>3, <1>4
  <1> QED BY <1>4, <1>5

-----------------------------------------------------------------------------
(* What the program encodes *)

\* A dictionary of integers and strings.
LEMMA FlatIsTree ==
    ASSUME NEW f, IsDict(f), IsFiniteSet(DOMAIN f), DOMAIN f \subseteq Seq(Byte),
           \A k \in DOMAIN f : \/ \E n \in Int : f[k] = BInt(n)
                               \/ \E s \in Seq(Byte) : f[k] = BStr(s)
    PROVE  IsTree(BDict(f))
  <1> DEFINE top == BDict(f)
             V == {top} \cup {f[k] : k \in DOMAIN f}
             depth == [v \in V |-> IF v = top THEN 1 ELSE 0]
  <1>1. Is("dict", top) /\ top.dict = f /\ ~Is("int", top) /\ ~Is("string", top)
    BY DEF Is, BDict
  <1>2. ASSUME NEW k \in DOMAIN f
        PROVE  f[k] \in V /\ f[k] # top /\ depth[f[k]] = 0
    <2>1. Is("int", f[k]) \/ Is("string", f[k])
      BY DEF Is, BInt, BStr
    <2>2. f[k] \in V
      OBVIOUS
    <2> HIDE DEF top
    <2>3. f[k] # top
      BY <1>1, <2>1
    <2> HIDE DEF V
    <2> QED BY <2>2, <2>3
  <1>3. top \in V /\ depth[top] = 1
    OBVIOUS
  <1> HIDE DEF depth
  <1>4. ASSUME NEW v \in V
        PROVE  LET within(w) == w \in V /\ depth[w] < depth[v]
               IN /\ depth[v] \in Nat
                  /\ \/ /\ Is("int", v) /\ v = BInt(v.int)
                        /\ v.int \in Int
                     \/ /\ Is("string", v) /\ v = BStr(v.string)
                        /\ v.string \in Seq(Byte)
                     \/ /\ Is("list", v) /\ v = BList(v.list)
                        /\ v.list \in Seq(V)
                        /\ \A k \in DOMAIN v.list : within(v.list[k])
                     \/ /\ Is("dict", v) /\ v = BDict(v.dict) /\ IsDict(v.dict)
                        /\ IsFiniteSet(DOMAIN v.dict) /\ DOMAIN v.dict \subseteq Seq(Byte)
                        /\ \A k \in DOMAIN v.dict : within(v.dict[k])
    <2>1. CASE v = top
      <3>1. v.dict = f /\ Is("dict", v) /\ v = BDict(v.dict) /\ depth[v] = 1
        BY <1>1, <1>3, <2>1
      <3>2. \A k \in DOMAIN f : f[k] \in V /\ depth[f[k]] < depth[v]
        BY <1>2, <3>1
      <3> HIDE DEF top, V
      <3> QED BY <3>1, <3>2
    <2>2. CASE v # top
      <3>1. PICK k \in DOMAIN f : v = f[k]
        BY <2>2
      <3>2. depth[v] = 0
        BY <1>2, <3>1
      <3>3. CASE \E n \in Int : v = BInt(n)
        <4>1. PICK n \in Int : v = BInt(n)
          BY <3>3
        <4>2. Is("int", v) /\ v.int = n
          BY <4>1 DEF Is, BInt
        <4> HIDE DEF top, V
        <4> QED BY <3>2, <4>1, <4>2
      <3>4. CASE \E s \in Seq(Byte) : v = BStr(s)
        <4>1. PICK s \in Seq(Byte) : v = BStr(s)
          BY <3>4
        <4>2. Is("string", v) /\ v.string = s
          BY <4>1 DEF Is, BStr
        <4> HIDE DEF top, V
        <4> QED BY <3>2, <4>1, <4>2
      <3> QED BY <3>1, <3>3, <3>4
    <2> QED BY <2>1, <2>2
  <1>5. IsForest(V, depth)
    <2> HIDE DEF V
    <2> QED BY <1>4 DEF IsForest
  <1> HIDE DEF V
  <1> QED BY <1>3, <1>5 DEF IsTree

\* A text that a dictionary's encoding begins with.
LEMMA BeginningIsText ==
    ASSUME EncodeCalls, NEW f, IsTree(BDict(f)), NEW text \in Beginnings(Encode(BDict(f)))
    PROVE  text \in Text
  <1> DEFINE e == Encode(BDict(f))
  <1>1. PICK V, depth : BDict(f) \in V /\ IsForest(V, depth)
    BY DEF IsTree
  <1>2. e \in Seq(Byte)
    BY <1>1, EncodeBytes
  <1> HIDE DEF e
  <1>3. PICK n \in 0 .. Len(e) : text = SubSeq(e, 1, n)
    BY DEF Beginnings, e
  <1>4. text \in Seq(Byte)
    BY <1>2, <1>3
  <1>5. Seq(Byte) \subseteq Seq(Byte \cup {"zero"})
    OBVIOUS
  <1> QED BY <1>4, <1>5 DEF Text
=============================================================================
