----------------------------- MODULE DataLemmas -----------------------------
(***************************************************************************)
(* Induction over the naturals in a form without operator parameters, and  *)
(* what it gives about recursive functions: powers of two, erasing from a  *)
(* sequence, and summing the values of a function.                         *)
(***************************************************************************)
EXTENDS SequenceFilter, SequencesExt, SequenceTheorems, FiniteSetTheorems, TLAPS

\* A set of naturals with 0 and every successor has all of them: the least
\* number it misses would have a predecessor that it has.
LEMMA SetInduction ==
  ASSUME NEW S, 0 \in S, \A n \in Nat : n \in S => n + 1 \in S
  PROVE  \A n \in Nat : n \in S
<1>. DEFINE missing == {n \in Nat : n \notin S}
<1>. SUFFICES ASSUME missing # {} PROVE FALSE
  OBVIOUS
<1>1. PICK x \in missing : \A y \in missing : ~ (<<y, x>> \in OpToRel(<, Nat))
  <2>1. missing \subseteq Nat
    OBVIOUS
  <2>. HIDE DEF missing
  <2>. QED
    BY <2>1, NatLessThanWellFounded, WFMin
<1>2. \A y \in missing : ~ (y < x)
  BY <1>1 DEF OpToRel
<1>3. x - 1 \in Nat /\ x - 1 < x /\ x = (x - 1) + 1
  OBVIOUS
<1>. QED
  BY <1>2, <1>3

\* Induction over 0..n.
LEMMA RangeInduction ==
  ASSUME NEW n \in Nat, NEW S, 0 \in S, \A i \in 0..n - 1 : i \in S => i + 1 \in S
  PROVE  \A i \in 0..n : i \in S
<1>. DEFINE T == {i \in Nat : i \in S \/ i > n}
<1>1. 0 \in T
  OBVIOUS
<1>2. ASSUME NEW i \in Nat, i \in T PROVE i + 1 \in T
  <2>1. i > n \/ i = n \/ i \in 0..n - 1
    OBVIOUS
  <2>2. CASE i > n \/ i = n
    BY <2>2
  <2>3. CASE i \in 0..n - 1
    BY <1>2, <2>3
  <2>. QED
    BY <2>1, <2>2, <2>3
<1>. HIDE DEF T
<1>3. \A i \in Nat : i \in T
  BY <1>1, <1>2, SetInduction
<1>. QED
  BY <1>3 DEF T

-----------------------------------------------------------------------------
(* Powers of two, and remainders.                                          *)

\* f is the recursive function of the powers of two up to n.
Powers(f, n) == f = [i \in 0..n |-> IF i = 0 THEN 1 ELSE 2 * f[i - 1]]

\* There is one for every n.
LEMMA PowersExist == \A n \in Nat : \E f : Powers(f, n)
<1>. DEFINE S == {n \in Nat : \E f : Powers(f, n)}
<1>1. 0 \in S
  <2>1. Powers([i \in 0..0 |-> 1], 0)
    BY DEF Powers
  <2>. QED
    BY <2>1
<1>2. ASSUME NEW n \in Nat, n \in S PROVE n + 1 \in S
  <2>1. PICK f : Powers(f, n)
    BY <1>2
  <2>. DEFINE g == [i \in 0..n + 1 |-> IF i = 0 THEN 1 ELSE 2 * f[i - 1]]
              h == [i \in 0..n + 1 |-> IF i = 0 THEN 1 ELSE 2 * g[i - 1]]
  <2>2. ASSUME NEW i \in 0..n PROVE g[i] = f[i] /\ i \in 0..n + 1
    <3>1. f[i] = IF i = 0 THEN 1 ELSE 2 * f[i - 1]
      BY <2>1, Zenon DEF Powers
    <3>2. i \in 0..n + 1
      OBVIOUS
    <3>. QED
      BY <3>1, <3>2, Zenon
  <2>3. ASSUME NEW i \in 0..n + 1 PROVE g[i] = h[i]
    <3>1. CASE i = 0
      BY <3>1
    <3>2. CASE i # 0
      <4>1. i - 1 \in 0..n
        BY <3>2
      <4>. QED
        BY <2>2, <4>1, Zenon
    <3>. QED
      BY <3>1, <3>2
  <2>4. g = h
    BY <2>3, Zenon
  <2>5. Powers(g, n + 1)
    BY <2>4 DEF Powers
  <2>. QED
    BY <2>5
<1>. HIDE DEF S
<1>3. \A n \in Nat : n \in S
  BY <1>1, <1>2, SetInduction
<1>. QED
  BY <1>3 DEF S

\* What is chosen doubles at each step, and is positive.
LEMMA PowersFacts ==
  ASSUME NEW n \in Nat, NEW P, P = CHOOSE f : Powers(f, n)
  PROVE  /\ P[0] = 1
         /\ \A i \in 0..n - 1 : P[i + 1] = 2 * P[i]
         /\ \A i \in 0..n : P[i] \in Nat /\ P[i] > 0
<1>1. Powers(P, n)
  BY PowersExist, Zenon
<1>2. \A i \in 0..n : P[i] = IF i = 0 THEN 1 ELSE 2 * P[i - 1]
  BY <1>1, Zenon DEF Powers
<1>3. 0 \in 0..n /\ \A i \in 0..n - 1 : i + 1 \in 0..n /\ i + 1 # 0 /\ (i + 1) - 1 = i
  OBVIOUS
<1>4. P[0] = 1 /\ \A i \in 0..n - 1 : P[i + 1] = 2 * P[i]
  BY <1>2, <1>3, Zenon
<1>. DEFINE S == {i \in 0..n : P[i] \in Nat /\ P[i] > 0}
<1>5. 0 \in S
  BY <1>4
<1>6. ASSUME NEW i \in 0..n - 1, i \in S PROVE i + 1 \in S
  <2>1. P[i + 1] = 2 * P[i] /\ i + 1 \in 0..n
    BY <1>3, <1>4
  <2>. QED
    BY <1>6, <2>1
<1>. HIDE DEF S
<1>7. \A i \in 0..n : i \in S
  BY <1>5, <1>6, RangeInduction
<1>8. \A i \in 0..n : P[i] \in Nat /\ P[i] > 0
  BY <1>7 DEF S
<1>. QED
  BY <1>4, <1>8

\* A number that divides by no other than 0 that is smaller than the divisor.
LEMMA SmallMultiple ==
  ASSUME NEW m \in Nat, NEW k \in Int, -m < m * k, m * k < m
  PROVE  k = 0
<1>1. CASE k >= 1
  <2>1. m * k >= m * 1
    BY <1>1
  <2>. QED
    BY <2>1
<1>2. CASE k <= -1
  <2>1. m * (-k) >= m * 1
    BY <1>2
  <2>2. m * (-k) = -(m * k)
    OBVIOUS
  <2>. QED
    BY <2>1, <2>2
<1>. QED
  BY <1>1, <1>2

\* Multiples of the divisor do not change a remainder.
LEMMA Congruent ==
  ASSUME NEW m \in Nat, m > 0, NEW x \in Int, NEW q \in Int
  PROVE  (x - m * q) % m = x % m
<1>. DEFINE y == x - m * q  d == x \div m  r == x % m  e == y \div m  s == y % m
<1>1. m * q \in Int /\ y \in Int
  OBVIOUS
<1>2. d \in Int /\ r \in 0..m - 1 /\ x = m * d + r
  OBVIOUS
<1>. HIDE DEF y
<1>3. e \in Int /\ s \in 0..m - 1 /\ y = m * e + s
  BY <1>1
<1>. HIDE DEF d, r, e, s
<1>4. s - r = m * d - m * q - m * e
  BY <1>1, <1>2, <1>3 DEF y
<1>5. m * d - m * q - m * e = m * (d - q - e)
  BY <1>2, <1>3
<1>6. d - q - e \in Int /\ -m < m * (d - q - e) /\ m * (d - q - e) < m
  BY <1>2, <1>3, <1>4, <1>5
<1>7. d - q - e = 0
  BY <1>6, SmallMultiple
<1>8. m * (d - q - e) = 0
  BY <1>7
<1>9. s = r
  BY <1>2, <1>3, <1>4, <1>5, <1>8
<1>. QED
  BY <1>9 DEF y, r, s
-----------------------------------------------------------------------------
(* Erasing from a sequence.                                                *)

\* f is the recursive function of Without on the first n elements.
Erases(f, seq, R, n) ==
  f = [i \in 0..n |->
         IF i = 0 THEN << >>
         ELSE IF seq[i] \in R THEN f[i - 1] ELSE Append(f[i - 1], seq[i])]

LEMMA ErasesStart ==
  ASSUME NEW seq, NEW R, NEW n \in Nat, NEW f, Erases(f, seq, R, n)
  PROVE  f[0] = << >>
<1>1. 0 \in 0..n
  OBVIOUS
<1>. QED
  BY <1>1, Zenon DEF Erases

LEMMA ErasesExists ==
  ASSUME NEW seq, NEW R
  PROVE  \A n \in Nat : \E f : Erases(f, seq, R, n)
<1>. DEFINE S == {n \in Nat : \E f : Erases(f, seq, R, n)}
<1>1. 0 \in S
  <2>1. Erases([i \in 0..0 |-> << >>], seq, R, 0)
    BY DEF Erases
  <2>. QED
    BY <2>1
<1>2. ASSUME NEW n \in Nat, n \in S PROVE n + 1 \in S
  <2>1. PICK f : Erases(f, seq, R, n)
    BY <1>2
  <2>. DEFINE g == [i \in 0..n + 1 |->
                     IF i = 0 THEN << >>
                     ELSE IF seq[i] \in R THEN f[i - 1] ELSE Append(f[i - 1], seq[i])]
  <2>a. f[0] = << >>
    BY <2>1, ErasesStart
  <2>b. \A i \in 1..n : /\ seq[i] \in R => f[i] = f[i - 1]
                        /\ seq[i] \notin R => f[i] = Append(f[i - 1], seq[i])
    <3>1. \A i \in 0..n : f[i] = IF i = 0 THEN << >>
           ELSE IF seq[i] \in R THEN f[i - 1] ELSE Append(f[i - 1], seq[i])
      BY <2>1, Zenon DEF Erases
    <3>2. \A i \in 1..n : i \in 0..n /\ i # 0
      OBVIOUS
    <3>. QED
      BY <3>1, <3>2
  <2>2. ASSUME NEW i \in 0..n PROVE g[i] = f[i]
    <3>1. CASE i = 0
      BY <2>a, <3>1
    <3>2. CASE i # 0
      <4>1. i \in 1..n /\ i \in 0..n + 1
        BY <3>2
      <4>2. f[i] = IF seq[i] \in R THEN f[i - 1] ELSE Append(f[i - 1], seq[i])
        BY <2>b, <4>1
      <4>. QED
        BY <3>2, <4>1, <4>2, Zenon
    <3>. QED
      BY <3>1, <3>2
  <2>3. ASSUME NEW i \in 0..n + 1, i # 0 PROVE g[i - 1] = f[i - 1]
    <3>1. i - 1 \in 0..n
      BY <2>3
    <3>. QED
      BY <2>2, <3>1, Zenon
  <2>4. Erases(g, seq, R, n + 1)
    <3>. DEFINE h == [i \in 0..n + 1 |->
                       IF i = 0 THEN << >>
                       ELSE IF seq[i] \in R THEN g[i - 1] ELSE Append(g[i - 1], seq[i])]
    <3>1. ASSUME NEW i \in 0..n + 1 PROVE g[i] = h[i]
      BY <2>3, Zenon
    <3>2. g = h
      BY <3>1, Zenon
    <3>. QED
      BY <3>2 DEF Erases
  <2>. QED
    BY <2>4
<1>. HIDE DEF S
<1>3. \A n \in Nat : n \in S
  BY <1>1, <1>2, SetInduction
<1>. QED
  BY <1>3 DEF S

LEMMA WithoutErases ==
  ASSUME NEW T, NEW seq \in Seq(T), NEW R
  PROVE  \E f : Erases(f, seq, R, Len(seq)) /\ Without(seq, R) = f[Len(seq)]
<1>. DEFINE chosen == CHOOSE f : Erases(f, seq, R, Len(seq))
<1>1. Len(seq) \in Nat
  OBVIOUS
<1>2. Erases(chosen, seq, R, Len(seq))
  BY <1>1, ErasesExists, Zenon
<1>3. Without(seq, R) = chosen[Len(seq)]
  BY Zenon DEF Without, Erases
<1>. QED
  BY <1>2, <1>3

\* Erasing from a longer sequence goes on from the shorter one.
LEMMA WithoutAppend ==
  ASSUME NEW T, NEW seq \in Seq(T), NEW x \in T, NEW R
  PROVE  Without(Append(seq, x), R) =
           IF x \in R THEN Without(seq, R) ELSE Append(Without(seq, R), x)
<1>. DEFINE more == Append(seq, x)
            n    == Len(seq)
<1>1. /\ n \in Nat /\ more \in Seq(T) /\ Len(more) = n + 1 /\ more[n + 1] = x
      /\ \A i \in 1..n : more[i] = seq[i]
  OBVIOUS
<1>2. PICK f : Erases(f, seq, R, n) /\ Without(seq, R) = f[n]
  BY WithoutErases
<1>3. PICK g : Erases(g, more, R, n + 1) /\ Without(more, R) = g[n + 1]
  BY <1>1, WithoutErases
<1>. HIDE DEF more, n
<1>4. \A i \in 1..n : /\ seq[i] \in R => f[i] = f[i - 1]
                      /\ seq[i] \notin R => f[i] = Append(f[i - 1], seq[i])
  <2>1. \A i \in 0..n : f[i] = IF i = 0 THEN << >>
         ELSE IF seq[i] \in R THEN f[i - 1] ELSE Append(f[i - 1], seq[i])
    BY <1>2, Zenon DEF Erases
  <2>2. \A i \in 1..n : i \in 0..n /\ i # 0
    BY <1>1
  <2>. QED
    BY <2>1, <2>2
<1>a. n + 1 \in Nat
  BY <1>1
<1>b. \A i \in 1..n + 1 : /\ more[i] \in R => g[i] = g[i - 1]
                          /\ more[i] \notin R => g[i] = Append(g[i - 1], more[i])
  <2>1. \A i \in 0..n + 1 : g[i] = IF i = 0 THEN << >>
         ELSE IF more[i] \in R THEN g[i - 1] ELSE Append(g[i - 1], more[i])
    BY <1>3, Zenon DEF Erases
  <2>2. \A i \in 1..n + 1 : i \in 0..n + 1 /\ i # 0
    BY <1>a
  <2>. QED
    BY <2>1, <2>2
<1>c. f[0] = << >> /\ g[0] = << >>
  BY <1>1, <1>a, <1>2, <1>3, ErasesStart
<1>. DEFINE S == {i \in Nat : i <= n => f[i] = g[i]}
<1>5. \A i \in Nat : i \in S
  <2>1. 0 \in S
    BY <1>c
  <2>2. ASSUME NEW i \in Nat, i \in S PROVE i + 1 \in S
    <3>. SUFFICES ASSUME i + 1 <= n PROVE f[i + 1] = g[i + 1]
      OBVIOUS
    <3>1. i + 1 \in 1..n /\ i + 1 \in 1..n + 1 /\ (i + 1) - 1 = i /\ i <= n
      BY <1>1
    <3>2. f[i] = g[i] /\ more[i + 1] = seq[i + 1]
      BY <1>1, <2>2, <3>1
    <3>3. /\ seq[i + 1] \in R => f[i + 1] = f[i]
          /\ seq[i + 1] \notin R => f[i + 1] = Append(f[i], seq[i + 1])
      BY <1>4, <3>1
    <3>4. /\ more[i + 1] \in R => g[i + 1] = g[i]
          /\ more[i + 1] \notin R => g[i + 1] = Append(g[i], more[i + 1])
      BY <1>b, <3>1
    <3>. QED
      BY <3>2, <3>3, <3>4, Zenon
  <2>. HIDE DEF S
  <2>. QED
    BY <2>1, <2>2, SetInduction
<1>6. f[n] = g[n]
  BY <1>1, <1>5
<1>7. g[n + 1] = IF x \in R THEN g[n] ELSE Append(g[n], x)
  <2>1. n + 1 \in 1..n + 1 /\ (n + 1) - 1 = n
    BY <1>1
  <2>. QED
    BY <1>1, <1>b, <2>1
<1>. QED
  BY <1>2, <1>3, <1>6, <1>7 DEF more

LEMMA WithoutEmpty ==
  ASSUME NEW R
  PROVE  Without(<< >>, R) = << >>
<1>1. << >> \in Seq({}) /\ Len(<< >>) = 0
  OBVIOUS
<1>2. PICK f : Erases(f, << >>, R, 0) /\ Without(<< >>, R) = f[0]
  BY <1>1, WithoutErases
<1>. QED
  BY <1>2, ErasesStart

\* w has the elements of seq that are not in R, in their order in seq.
Filtered(w, seq, R, T) ==
  /\ w \in Seq(T)
  /\ ToSet(w) = ToSet(seq) \ R
  /\ \A i, j \in DOMAIN w : i < j =>
       \E k, l \in DOMAIN seq : k < l /\ w[i] = seq[k] /\ w[j] = seq[l]

LEMMA AppendFacts ==
  ASSUME NEW T, NEW seq \in Seq(T), NEW x \in T
  PROVE  /\ Append(seq, x) \in Seq(T)
         /\ Len(seq) \in Nat /\ DOMAIN seq = 1..Len(seq)
         /\ DOMAIN Append(seq, x) = 1..Len(seq) + 1
         /\ Append(seq, x)[Len(seq) + 1] = x
         /\ \A i \in 1..Len(seq) : Append(seq, x)[i] = seq[i]
         /\ ToSet(Append(seq, x)) = ToSet(seq) \cup {x}
<1>1. /\ Append(seq, x) \in Seq(T)
      /\ Len(seq) \in Nat /\ DOMAIN seq = 1..Len(seq)
      /\ DOMAIN Append(seq, x) = 1..Len(seq) + 1
      /\ Append(seq, x)[Len(seq) + 1] = x
      /\ \A i \in 1..Len(seq) : Append(seq, x)[i] = seq[i]
  OBVIOUS
<1>2. ToSet(Append(seq, x)) \subseteq ToSet(seq) \cup {x}
  <2>. SUFFICES ASSUME NEW i \in 1..Len(seq) + 1
                PROVE  Append(seq, x)[i] \in ToSet(seq) \cup {x}
    BY <1>1 DEF ToSet
  <2>1. i \in 1..Len(seq) \/ i = Len(seq) + 1
    BY <1>1
  <2>. QED
    BY <1>1, <2>1 DEF ToSet
<1>3. \A i \in 1..Len(seq) : i \in 1..Len(seq) + 1
  BY <1>1
<1>4. ToSet(seq) \subseteq ToSet(Append(seq, x))
  <2>. SUFFICES ASSUME NEW i \in 1..Len(seq) PROVE seq[i] \in ToSet(Append(seq, x))
    BY <1>1 DEF ToSet
  <2>. QED
    BY <1>1, <1>3 DEF ToSet
<1>5. x \in ToSet(Append(seq, x))
  <2>1. Len(seq) + 1 \in 1..Len(seq) + 1
    BY <1>1
  <2>. QED
    BY <1>1, <2>1 DEF ToSet
<1>. QED
  BY <1>1, <1>2, <1>4, <1>5

LEMMA FilteredSkip ==
  ASSUME NEW T, NEW R, NEW seq \in Seq(T), NEW x \in T, x \in R,
         NEW w, Filtered(w, seq, R, T)
  PROVE  Filtered(w, Append(seq, x), R, T)
<1>1. ToSet(w) = ToSet(Append(seq, x)) \ R
  BY AppendFacts DEF Filtered
<1>2. ASSUME NEW i \in DOMAIN w, NEW j \in DOMAIN w, i < j
      PROVE  \E k, l \in DOMAIN Append(seq, x) :
               k < l /\ w[i] = Append(seq, x)[k] /\ w[j] = Append(seq, x)[l]
  <2>1. PICK k \in DOMAIN seq, l \in DOMAIN seq : k < l /\ w[i] = seq[k] /\ w[j] = seq[l]
    BY <1>2 DEF Filtered
  <2>2. /\ k \in DOMAIN Append(seq, x) /\ l \in DOMAIN Append(seq, x)
        /\ Append(seq, x)[k] = seq[k] /\ Append(seq, x)[l] = seq[l]
    BY AppendFacts
  <2>. QED
    BY <2>1, <2>2
<1>. QED
  BY <1>1, <1>2 DEF Filtered

LEMMA FilteredKeep ==
  ASSUME NEW T, NEW R, NEW seq \in Seq(T), NEW x \in T, x \notin R,
         NEW w, Filtered(w, seq, R, T)
  PROVE  Filtered(Append(w, x), Append(seq, x), R, T)
<1>. DEFINE more == Append(seq, x)
            list == Append(w, x)
<1>1. w \in Seq(T) /\ ToSet(w) = ToSet(seq) \ R
  BY DEF Filtered
<1>2. /\ Len(seq) \in Nat /\ DOMAIN seq = 1..Len(seq)
      /\ DOMAIN more = 1..Len(seq) + 1 /\ more[Len(seq) + 1] = x
      /\ \A i \in 1..Len(seq) : more[i] = seq[i]
      /\ ToSet(more) = ToSet(seq) \cup {x}
  BY AppendFacts
<1>3. /\ list \in Seq(T)
      /\ Len(w) \in Nat /\ DOMAIN w = 1..Len(w)
      /\ DOMAIN list = 1..Len(w) + 1 /\ list[Len(w) + 1] = x
      /\ \A i \in 1..Len(w) : list[i] = w[i]
      /\ ToSet(list) = ToSet(w) \cup {x}
  BY <1>1, AppendFacts
<1>. HIDE DEF more, list
<1>4. ToSet(list) = ToSet(more) \ R
  BY <1>1, <1>2, <1>3
<1>5. ASSUME NEW i \in DOMAIN list, NEW j \in DOMAIN list, i < j
      PROVE  \E k, l \in DOMAIN more : k < l /\ list[i] = more[k] /\ list[j] = more[l]
  <2>1. i \in 1..Len(w) /\ (j \in 1..Len(w) \/ j = Len(w) + 1)
    BY <1>3, <1>5
  <2>2. CASE j \in 1..Len(w)
    <3>1. PICK k \in DOMAIN seq, l \in DOMAIN seq : k < l /\ w[i] = seq[k] /\ w[j] = seq[l]
      BY <1>3, <1>5, <2>1, <2>2 DEF Filtered
    <3>2. k \in DOMAIN more /\ l \in DOMAIN more /\ more[k] = seq[k] /\ more[l] = seq[l]
      BY <1>2
    <3>. QED
      BY <1>3, <2>1, <2>2, <3>1, <3>2
  <2>3. CASE j = Len(w) + 1
    <3>1. w[i] \in ToSet(seq)
      BY <1>1, <1>3, <2>1 DEF ToSet
    <3>2. PICK k \in DOMAIN seq : w[i] = seq[k]
      BY <3>1 DEF ToSet
    <3>3. k \in DOMAIN more /\ Len(seq) + 1 \in DOMAIN more /\ k < Len(seq) + 1 /\ more[k] = seq[k]
      BY <1>2
    <3>. QED
      BY <1>2, <1>3, <2>1, <2>3, <3>2, <3>3
  <2>. QED
    BY <2>1, <2>2, <2>3
<1>6. Filtered(list, more, R, T)
  BY <1>3, <1>4, <1>5 DEF Filtered
<1>. QED
  BY <1>6 DEF list, more

\* Erasing keeps exactly the elements that are not to be erased, in order.
LEMMA WithoutFiltered ==
  ASSUME NEW T, NEW seq \in Seq(T), NEW R
  PROVE  Filtered(Without(seq, R), seq, R, T)
<1>. DEFINE S == {n \in Nat : \A s \in Seq(T) :
                    Len(s) = n => Filtered(Without(s, R), s, R, T)}
<1>1. 0 \in S
  <2>. SUFFICES ASSUME NEW s \in Seq(T), Len(s) = 0 PROVE Filtered(Without(s, R), s, R, T)
    OBVIOUS
  <2>1. s = << >>
    OBVIOUS
  <2>2. Filtered(<< >>, << >>, R, T)
    BY DEF Filtered, ToSet
  <2>. QED
    BY <2>1, <2>2, WithoutEmpty
<1>2. ASSUME NEW n \in Nat, n \in S PROVE n + 1 \in S
  <2>. SUFFICES ASSUME NEW s \in Seq(T), Len(s) = n + 1
                PROVE  Filtered(Without(s, R), s, R, T)
    OBVIOUS
  <2>1. PICK r \in Seq(T), x \in T : s = Append(r, x)
    <3>1. s # << >>
      OBVIOUS
    <3>. QED
      BY <3>1, SequenceEmptyOrAppend, Zenon
  <2>2. Len(r) = n
    BY <2>1
  <2>3. Filtered(Without(r, R), r, R, T)
    BY <1>2, <2>2
  <2>4. Without(s, R) = IF x \in R THEN Without(r, R) ELSE Append(Without(r, R), x)
    BY <2>1, WithoutAppend
  <2>5. CASE x \in R
    BY <2>1, <2>3, <2>4, <2>5, FilteredSkip
  <2>6. CASE x \notin R
    BY <2>1, <2>3, <2>4, <2>6, FilteredKeep
  <2>. QED
    BY <2>5, <2>6
<1>. HIDE DEF S
<1>3. \A n \in Nat : n \in S
  BY <1>1, <1>2, SetInduction
<1>4. Len(seq) \in Nat
  OBVIOUS
<1>. QED
  BY <1>3, <1>4 DEF S

\* A sequence that lists elements once still does after erasing some.
LEMMA WithoutInjective ==
  ASSUME NEW T, NEW seq \in Seq(T), NEW R, IsInjective(seq)
  PROVE  IsInjective(Without(seq, R))
<1>. DEFINE w == Without(seq, R)
<1>1. /\ w \in Seq(T)
      /\ \A i, j \in DOMAIN w : i < j =>
           \E k, l \in DOMAIN seq : k < l /\ w[i] = seq[k] /\ w[j] = seq[l]
  BY WithoutFiltered DEF Filtered
<1>2. DOMAIN w \subseteq Int /\ DOMAIN seq \subseteq Int
  BY <1>1
<1>. HIDE DEF w
<1>3. ASSUME NEW i \in DOMAIN w, NEW j \in DOMAIN w, i < j PROVE w[i] # w[j]
  <2>1. PICK k \in DOMAIN seq, l \in DOMAIN seq : k < l /\ w[i] = seq[k] /\ w[j] = seq[l]
    BY <1>1, <1>3
  <2>2. k # l
    BY <1>2, <2>1
  <2>. QED
    BY <2>1, <2>2 DEF IsInjective
<1>4. \A i, j \in DOMAIN w : i # j => i < j \/ j < i
  BY <1>2
<1>5. IsInjective(w)
  BY <1>3, <1>4 DEF IsInjective
<1>. QED
  BY <1>5 DEF w

-----------------------------------------------------------------------------
(* Listing a set, and appending lists.                                     *)

\* A member of SetToSeqs(S) lists every element of S once.
LEMMA SetToSeqsLists ==
  ASSUME NEW S, IsFiniteSet(S), NEW f \in SetToSeqs(S)
  PROVE  f \in Seq(S) /\ IsInjective(f) /\ ToSet(f) = S
<1>. DEFINE n == Cardinality(S)
<1>1. n \in Nat /\ IsFiniteSet(1..n) /\ Cardinality(1..n) = n
  BY FS_CardinalityType, FS_Interval
<1>2. f \in [1..n -> S] /\ \A i, j \in 1..n : i # j => f[i] # f[j]
  BY Zenon DEF SetToSeqs
<1>. HIDE DEF n
<1>3. f \in Seq(S) /\ DOMAIN f = 1..n
  BY <1>1, <1>2
<1>4. f \in Injection(1..n, S)
  BY <1>2 DEF Injection, IsInjective
<1>5. f \in Surjection(1..n, S)
  <2>1. Cardinality(1..n) = Cardinality(S)
    BY <1>1 DEF n
  <2>. QED
    BY <1>4, <2>1, FS_Injection
<1>6. ToSet(f) = S
  <2>1. ToSet(f) \subseteq S
    BY <1>2, <1>3 DEF ToSet
  <2>2. S \subseteq ToSet(f)
    BY <1>3, <1>5 DEF ToSet, Surjection
  <2>. QED
    BY <2>1, <2>2
<1>7. IsInjective(f)
  BY <1>2, <1>3 DEF IsInjective
<1>. QED
  BY <1>3, <1>6, <1>7

\* Two lists without a common element, one after the other.
LEMMA ConcatLists ==
  ASSUME NEW T, NEW s \in Seq(T), NEW t \in Seq(T),
         IsInjective(s), IsInjective(t), ToSet(s) \cap ToSet(t) = {}
  PROVE  /\ s \o t \in Seq(T)
         /\ DOMAIN (s \o t) = 1..Len(s) + Len(t)
         /\ \A i \in 1..Len(s) : (s \o t)[i] \in ToSet(s)
         /\ \A i \in 1..Len(s) + Len(t) : i > Len(s) => (s \o t)[i] \in ToSet(t)
         /\ IsInjective(s \o t)
         /\ ToSet(s \o t) = ToSet(s) \cup ToSet(t)
<1>. DEFINE c == s \o t
            n == Len(s)
            m == Len(t)
<1>1. /\ n \in Nat /\ m \in Nat /\ DOMAIN s = 1..n /\ DOMAIN t = 1..m
      /\ c \in Seq(T) /\ DOMAIN c = 1..n + m
      /\ \A i \in 1..n : c[i] = s[i]
      /\ \A i \in 1..n + m : i > n => c[i] = t[i - n]
  OBVIOUS
<1>. HIDE DEF c, n, m
<1>a. /\ \A i \in 1..n : i \in 1..n + m
      /\ \A i \in 1..n + m : i > n => i - n \in 1..m
  <2>1. n \in Nat /\ m \in Nat
    BY <1>1
  <2>. QED
    BY <2>1
<1>2. \A i \in 1..n : i \in 1..n + m /\ c[i] \in ToSet(s)
  BY <1>1, <1>a DEF ToSet
<1>3. \A i \in 1..n + m : i > n => i - n \in 1..m /\ c[i] \in ToSet(t)
  BY <1>1, <1>a DEF ToSet
<1>4. IsInjective(c)
  <2>. SUFFICES ASSUME NEW i \in 1..n + m, NEW j \in 1..n + m, c[i] = c[j] PROVE i = j
    BY <1>1 DEF IsInjective
  <2>1. CASE i <= n /\ j <= n
    BY <1>1, <2>1 DEF IsInjective
  <2>2. CASE i > n /\ j > n
    <3>1. /\ i - n \in 1..m /\ j - n \in 1..m /\ c[i] = t[i - n] /\ c[j] = t[j - n]
      BY <1>1, <1>3, <2>2
    <3>2. i - n = j - n
      BY <1>1, <3>1 DEF IsInjective
    <3>. QED
      BY <1>1, <3>2
  <2>3. CASE i <= n /\ j > n
    BY <1>1, <1>2, <1>3, <2>3
  <2>4. CASE i > n /\ j <= n
    BY <1>1, <1>2, <1>3, <2>4
  <2>. QED
    BY <1>1, <2>1, <2>2, <2>3, <2>4
<1>5. ToSet(c) = ToSet(s) \cup ToSet(t)
  <2>1. ToSet(c) \subseteq ToSet(s) \cup ToSet(t)
    <3>. SUFFICES ASSUME NEW i \in 1..n + m PROVE c[i] \in ToSet(s) \cup ToSet(t)
      BY <1>1 DEF ToSet
    <3>1. i \in 1..n \/ i > n
      BY <1>1
    <3>. QED
      BY <1>2, <1>3, <3>1
  <2>2. ToSet(s) \subseteq ToSet(c)
    <3>. SUFFICES ASSUME NEW i \in 1..n PROVE s[i] \in ToSet(c)
      BY <1>1 DEF ToSet
    <3>. QED
      BY <1>1, <1>2 DEF ToSet
  <2>3. ToSet(t) \subseteq ToSet(c)
    <3>. SUFFICES ASSUME NEW i \in 1..m PROVE t[i] \in ToSet(c)
      BY <1>1 DEF ToSet
    <3>1. i + n \in 1..n + m /\ i + n > n /\ (i + n) - n = i
      BY <1>1
    <3>2. c[i + n] = t[i]
      BY <1>1, <3>1
    <3>. QED
      BY <1>1, <3>1, <3>2 DEF ToSet
  <2>. QED
    BY <2>1, <2>2, <2>3
<1>. QED
  BY <1>1, <1>2, <1>3, <1>4, <1>5 DEF c, n, m

\* Every element of the front of a list but not its last one.
LEMMA FrontFacts ==
  ASSUME NEW T, NEW s \in Seq(T), s # << >>
  PROVE  /\ Front(s) \in Seq(T) /\ DOMAIN Front(s) = 1..Len(s) - 1
         /\ Len(s) \in Nat /\ Len(s) \in DOMAIN s /\ DOMAIN s = 1..Len(s)
         /\ \A i \in 1..Len(s) - 1 : Front(s)[i] = s[i] /\ i \in DOMAIN s
         /\ Last(s) = s[Len(s)]
         /\ IsInjective(s) => ToSet(Front(s)) = ToSet(s) \ {Last(s)}
         /\ Last(s) \in ToSet(s)
<1>. DEFINE n == Len(s)
            f == Front(s)
<1>1. /\ n \in Nat /\ n \in 1..n /\ DOMAIN s = 1..n
      /\ f \in Seq(T) /\ DOMAIN f = 1..n - 1
      /\ \A i \in 1..n - 1 : f[i] = s[i]
      /\ Last(s) = s[n]
  BY DEF Front, Last
<1>a. n \in Nat
  BY <1>1
<1>. HIDE DEF n, f
<1>2. \A i \in 1..n - 1 : i \in 1..n /\ i # n
  BY <1>a
<1>3. \A i \in 1..n : i # n => i \in 1..n - 1
  BY <1>a
<1>4. ASSUME IsInjective(s) PROVE ToSet(f) = ToSet(s) \ {s[n]}
  <2>1. ToSet(f) \subseteq ToSet(s) \ {s[n]}
    BY <1>1, <1>2, <1>4 DEF ToSet, IsInjective
  <2>2. ToSet(s) \ {s[n]} \subseteq ToSet(f)
    BY <1>1, <1>3 DEF ToSet
  <2>. QED
    BY <2>1, <2>2
<1>5. s[n] \in ToSet(s)
  BY <1>1 DEF ToSet
<1>. QED
  BY <1>1, <1>2, <1>4, <1>5 DEF n, f

-----------------------------------------------------------------------------
(* Sums of the values of a function.                                       *)

Pick(s) == CHOOSE x \in s : TRUE

\* The subsets of S with at most n elements.
UpTo(S, n) == {s \in SUBSET S : Cardinality(s) <= n}

\* g is the recursive function of SumFunction on the sets of a family P.
Sums(g, f, P) ==
  g = [s \in P |-> IF s = {} THEN 0 ELSE f[Pick(s)] + g[s \ {Pick(s)}]]

LEMMA SumIsSums ==
  ASSUME NEW f
  PROVE  SumFunction(f) = (CHOOSE g : Sums(g, f, SUBSET DOMAIN f))[DOMAIN f]
BY Zenon DEF SumFunction, SumFunctionOnSet, FoldFunctionOnSet, MapThenFoldSet, Sums, Pick

LEMMA PickFacts ==
  ASSUME NEW S, IsFiniteSet(S), NEW s \in SUBSET S, s # {}
  PROVE  /\ Pick(s) \in s /\ IsFiniteSet(s)
         /\ s \ {Pick(s)} \in SUBSET S
         /\ Cardinality(s) \in Nat /\ Cardinality(s) > 0
         /\ Cardinality(s \ {Pick(s)}) = Cardinality(s) - 1
<1>1. Pick(s) \in s
  BY DEF Pick
<1>2. IsFiniteSet(s)
  BY FS_Subset
<1>3. Cardinality(s) \in Nat /\ (Cardinality(s) = 0 <=> s = {})
  BY <1>2, FS_CardinalityType, FS_EmptySet
<1>4. Cardinality(s \ {Pick(s)}) = Cardinality(s) - 1
  BY <1>1, <1>2, FS_RemoveElement
<1>. QED
  BY <1>1, <1>2, <1>3, <1>4

LEMMA SmallFacts ==
  ASSUME NEW S, IsFiniteSet(S), NEW s \in SUBSET S
  PROVE  /\ IsFiniteSet(s) /\ Cardinality(s) \in Nat
         /\ Cardinality(s) <= 0 => s = {}
<1>1. IsFiniteSet(s)
  BY FS_Subset
<1>2. Cardinality(s) \in Nat /\ (Cardinality(s) = 0 <=> s = {})
  BY <1>1, FS_CardinalityType, FS_EmptySet
<1>. QED
  BY <1>1, <1>2

LEMMA SumsExist ==
  ASSUME NEW S, IsFiniteSet(S), NEW f
  PROVE  \E g : Sums(g, f, SUBSET S)
<1>. DEFINE N == {n \in Nat : \E g : Sums(g, f, UpTo(S, n))}
<1>1. 0 \in N
  <2>1. \A s \in UpTo(S, 0) : s = {}
    <3>. SUFFICES ASSUME NEW s \in UpTo(S, 0), s # {} PROVE FALSE
      OBVIOUS
    <3>1. s \in SUBSET S /\ Cardinality(s) <= 0
      BY DEF UpTo
    <3>. QED
      BY <3>1, SmallFacts
  <2>2. Sums([s \in UpTo(S, 0) |-> 0], f, UpTo(S, 0))
    BY <2>1, Zenon DEF Sums
  <2>. QED
    BY <2>2
<1>2. ASSUME NEW n \in Nat, n \in N PROVE n + 1 \in N
  <2>1. PICK h : Sums(h, f, UpTo(S, n))
    BY <1>2
  <2>. DEFINE g == [s \in UpTo(S, n + 1) |->
                      IF s = {} THEN 0 ELSE f[Pick(s)] + h[s \ {Pick(s)}]]
              k == [s \in UpTo(S, n + 1) |->
                      IF s = {} THEN 0 ELSE f[Pick(s)] + g[s \ {Pick(s)}]]
  <2>2. ASSUME NEW s \in UpTo(S, n) PROVE s \in UpTo(S, n + 1) /\ g[s] = h[s]
    <3>1. s \in UpTo(S, n + 1)
      <4>1. s \in SUBSET S /\ Cardinality(s) <= n /\ IsFiniteSet(s)
        BY FS_Subset DEF UpTo
      <4>2. Cardinality(s) \in Nat
        BY <4>1, FS_CardinalityType
      <4>3. Cardinality(s) <= n + 1
        BY <4>1, <4>2
      <4>. QED
        BY <4>1, <4>3 DEF UpTo
    <3>2. h[s] = IF s = {} THEN 0 ELSE f[Pick(s)] + h[s \ {Pick(s)}]
      BY <2>1, Zenon DEF Sums
    <3>. QED
      BY <3>1, <3>2, Zenon
  <2>3. ASSUME NEW s \in UpTo(S, n + 1), s # {} PROVE s \ {Pick(s)} \in UpTo(S, n)
    <3>1. s \in SUBSET S /\ Cardinality(s) <= n + 1
      BY DEF UpTo
    <3>2. /\ s \ {Pick(s)} \in SUBSET S /\ Cardinality(s) \in Nat
          /\ Cardinality(s \ {Pick(s)}) = Cardinality(s) - 1
      BY <2>3, <3>1, PickFacts
    <3>3. Cardinality(s \ {Pick(s)}) <= n
      BY <3>1, <3>2
    <3>. QED
      BY <3>2, <3>3 DEF UpTo
  <2>4. ASSUME NEW s \in UpTo(S, n + 1) PROVE g[s] = k[s]
    <3>1. CASE s = {}
      BY <3>1, Zenon
    <3>2. CASE s # {}
      <4>1. g[s \ {Pick(s)}] = h[s \ {Pick(s)}]
        BY <2>2, <2>3, <3>2, Zenon
      <4>. QED
        BY <3>2, <4>1, Zenon
    <3>. QED
      BY <3>1, <3>2
  <2>5. g = k
    BY <2>4, Zenon
  <2>6. Sums(g, f, UpTo(S, n + 1))
    BY <2>5 DEF Sums
  <2>. QED
    BY <2>6
<1>. HIDE DEF N
<1>3. \A n \in Nat : n \in N
  BY <1>1, <1>2, SetInduction
<1>4. Cardinality(S) \in Nat
  BY FS_CardinalityType
<1>5. UpTo(S, Cardinality(S)) = SUBSET S
  <2>1. ASSUME NEW s \in SUBSET S PROVE Cardinality(s) <= Cardinality(S)
    BY FS_Subset
  <2>. QED
    BY <2>1 DEF UpTo
<1>. QED
  BY <1>3, <1>4, <1>5 DEF N

LEMMA SumsInt ==
  ASSUME NEW S, IsFiniteSet(S), NEW f \in [S -> Int], NEW g, Sums(g, f, SUBSET S)
  PROVE  \A s \in SUBSET S : g[s] \in Int
<1>1. \A s \in SUBSET S : g[s] = IF s = {} THEN 0 ELSE f[Pick(s)] + g[s \ {Pick(s)}]
  BY Zenon DEF Sums
<1>a. g[{}] = 0
  BY <1>1
<1>. DEFINE N == {n \in Nat : \A s \in SUBSET S : Cardinality(s) = n => g[s] \in Int}
<1>2. 0 \in N
  <2>1. ASSUME NEW s \in SUBSET S, Cardinality(s) = 0 PROVE g[s] \in Int
    <3>1. s = {}
      BY <2>1, SmallFacts
    <3>. QED
      BY <1>a, <3>1
  <2>. QED
    BY <2>1
<1>3. ASSUME NEW n \in Nat, n \in N PROVE n + 1 \in N
  <2>1. \A s \in SUBSET S : Cardinality(s) = n => g[s] \in Int
    BY <1>3
  <2>. SUFFICES ASSUME NEW s \in SUBSET S, Cardinality(s) = n + 1 PROVE g[s] \in Int
    OBVIOUS
  <2>. HIDE DEF N
  <2>2. CASE s = {}
    BY <1>a, <2>2
  <2>3. CASE s # {}
    <3>1. /\ Pick(s) \in s /\ s \ {Pick(s)} \in SUBSET S
          /\ Cardinality(s \ {Pick(s)}) = (n + 1) - 1
      BY <2>3, PickFacts
    <3>2. g[s \ {Pick(s)}] \in Int /\ f[Pick(s)] \in Int
      BY <2>1, <3>1
    <3>. QED
      BY <1>1, <2>3, <3>2
  <2>. QED
    BY <2>2, <2>3
<1>. HIDE DEF N
<1>4. \A n \in Nat : n \in N
  BY <1>2, <1>3, SetInduction
<1>5. \A s \in SUBSET S : Cardinality(s) \in Nat
  BY FS_Subset, FS_CardinalityType
<1>. QED
  BY <1>4, <1>5 DEF N

\* Whatever element is taken out, the rest is summed.
Takes(g, f, s, x) == g[s] = f[x] + g[s \ {x}]

LEMMA SumsRemove ==
  ASSUME NEW S, IsFiniteSet(S), NEW f \in [S -> Int], NEW g, Sums(g, f, SUBSET S)
  PROVE  \A s \in SUBSET S : \A x \in s : Takes(g, f, s, x)
<1>1. \A s \in SUBSET S : g[s] = IF s = {} THEN 0 ELSE f[Pick(s)] + g[s \ {Pick(s)}]
  BY Zenon DEF Sums
<1>2. g[{}] = 0
  BY <1>1
<1>. DEFINE N == {n \in Nat : \A s \in SUBSET S : Cardinality(s) = n =>
                    g[s] \in Int /\ \A x \in s : g[s] = f[x] + g[s \ {x}]}
<1>3. 0 \in N
  <2>1. ASSUME NEW s \in SUBSET S, Cardinality(s) = 0
        PROVE  g[s] \in Int /\ \A x \in s : g[s] = f[x] + g[s \ {x}]
    <3>1. s = {}
      BY <2>1, SmallFacts
    <3>. QED
      BY <1>2, <3>1
  <2>. QED
    BY <2>1
<1>4. ASSUME NEW n \in Nat, n \in N PROVE n + 1 \in N
  <2>1. \A s \in SUBSET S : Cardinality(s) = n =>
          g[s] \in Int /\ \A x \in s : g[s] = f[x] + g[s \ {x}]
    BY <1>4
  <2>. SUFFICES ASSUME NEW s \in SUBSET S, Cardinality(s) = n + 1
                PROVE  g[s] \in Int /\ \A x \in s : g[s] = f[x] + g[s \ {x}]
    OBVIOUS
  <2>. HIDE DEF N
  <2>2. IsFiniteSet(s)
    BY FS_Subset
  <2>3. s # {}
    BY FS_EmptySet
  <2>4. ASSUME NEW x \in s
        PROVE  s \ {x} \in SUBSET S /\ Cardinality(s \ {x}) = n /\ f[x] \in Int
    <3>1. Cardinality(s \ {x}) = Cardinality(s) - 1
      BY <2>2, FS_RemoveElement
    <3>. QED
      BY <3>1
  <2>. DEFINE c == Pick(s)
  <2>5. c \in s /\ g[s] = f[c] + g[s \ {c}]
    BY <1>1, <2>3, PickFacts
  <2>. HIDE DEF c
  <2>6. g[s] \in Int
    BY <2>1, <2>4, <2>5
  <2>7. ASSUME NEW x \in s, x # c PROVE g[s] = f[x] + g[s \ {x}]
    <3>1. x \in s \ {c} /\ c \in s \ {x}
      BY <2>5, <2>7
    <3>2. g[s \ {c}] = f[x] + g[(s \ {c}) \ {x}] /\ g[s \ {c}] \in Int
      BY <2>1, <2>4, <2>5, <3>1
    <3>3. g[s \ {x}] = f[c] + g[(s \ {x}) \ {c}] /\ g[s \ {x}] \in Int
      BY <2>1, <2>4, <3>1
    <3>4. (s \ {c}) \ {x} = (s \ {x}) \ {c}
      OBVIOUS
    <3>5. g[(s \ {c}) \ {x}] \in Int
      BY SumsInt
    <3>6. f[x] \in Int /\ f[c] \in Int
      BY <2>4, <2>5
    <3>. DEFINE rest == g[(s \ {c}) \ {x}]
    <3>7. g[s \ {x}] = f[c] + rest /\ g[s \ {c}] = f[x] + rest
      BY <3>2, <3>3, <3>4
    <3>8. rest \in Int
      BY <3>5
    <3>. HIDE DEF rest
    <3>. QED
      BY <2>5, <3>6, <3>7, <3>8
  <2>. QED
    BY <2>5, <2>6, <2>7
<1>. HIDE DEF N
<1>5. \A n \in Nat : n \in N
  BY <1>3, <1>4, SetInduction
<1>6. \A s \in SUBSET S : Cardinality(s) \in Nat
  BY FS_Subset, FS_CardinalityType
<1>. QED
  BY <1>5, <1>6 DEF N, Takes

LEMMA SumFacts ==
  ASSUME NEW S, IsFiniteSet(S), NEW f \in [S -> Int]
  PROVE  \E g : Sums(g, f, SUBSET S) /\ SumFunction(f) = g[S]
<1>. DEFINE chosen == CHOOSE g : Sums(g, f, SUBSET DOMAIN f)
<1>1. DOMAIN f = S
  OBVIOUS
<1>2. Sums(chosen, f, SUBSET S)
  BY <1>1, SumsExist, Zenon
<1>3. SumFunction(f) = chosen[S]
  BY <1>1, SumIsSums
<1>. QED
  BY <1>2, <1>3

\* A sum is the value at any argument and the sum over the others.
Others(f, x) == [y \in DOMAIN f \ {x} |-> f[y]]

LEMMA SumSplit ==
  ASSUME NEW S, IsFiniteSet(S), NEW f \in [S -> Int], NEW x \in S
  PROVE  /\ SumFunction(f) \in Int /\ SumFunction(Others(f, x)) \in Int
         /\ SumFunction(f) = f[x] + SumFunction(Others(f, x))
<1>. DEFINE R == S \ {x}
            h == [y \in R |-> f[y]]
<1>1. IsFiniteSet(R) /\ h \in [R -> Int] /\ SUBSET R \subseteq SUBSET S /\ f[x] \in Int
  BY FS_Subset
<1>2. \A y \in R : h[y] = f[y]
  OBVIOUS
<1>3. PICK g : Sums(g, f, SUBSET S) /\ SumFunction(f) = g[S]
  BY SumFacts
<1>. HIDE DEF R, h
<1>4. PICK k : Sums(k, h, SUBSET R) /\ SumFunction(h) = k[R]
  BY <1>1, SumFacts
<1>5. /\ \A s \in SUBSET S : g[s] = IF s = {} THEN 0 ELSE f[Pick(s)] + g[s \ {Pick(s)}]
      /\ \A s \in SUBSET R : k[s] = IF s = {} THEN 0 ELSE h[Pick(s)] + k[s \ {Pick(s)}]
  BY <1>3, <1>4, Zenon DEF Sums
<1>. DEFINE N == {n \in Nat : \A s \in SUBSET R : Cardinality(s) = n => g[s] = k[s]}
<1>6. g[{}] = 0 /\ k[{}] = 0
  BY <1>5
<1>7. 0 \in N
  <2>1. ASSUME NEW s \in SUBSET R, Cardinality(s) = 0 PROVE g[s] = k[s]
    <3>1. s = {}
      BY <1>1, <2>1, SmallFacts
    <3>. QED
      BY <1>6, <3>1
  <2>. QED
    BY <2>1
<1>8. ASSUME NEW n \in Nat, n \in N PROVE n + 1 \in N
  <2>1. \A s \in SUBSET R : Cardinality(s) = n => g[s] = k[s]
    BY <1>8
  <2>2. ASSUME NEW s \in SUBSET R, Cardinality(s) = n + 1 PROVE g[s] = k[s]
    <3>1. CASE s = {}
      BY <1>6, <3>1
    <3>2. CASE s # {}
      <4>1. /\ Pick(s) \in s /\ s \ {Pick(s)} \in SUBSET R
            /\ Cardinality(s \ {Pick(s)}) = (n + 1) - 1
        BY <1>1, <2>2, <3>2, PickFacts
      <4>2. g[s \ {Pick(s)}] = k[s \ {Pick(s)}] /\ h[Pick(s)] = f[Pick(s)]
        BY <1>2, <2>1, <4>1
      <4>3. s \in SUBSET S
        BY <1>1
      <4>4. /\ g[s] = f[Pick(s)] + g[s \ {Pick(s)}]
            /\ k[s] = h[Pick(s)] + k[s \ {Pick(s)}]
        BY <1>5, <3>2, <4>3, Zenon
      <4>. QED
        BY <4>2, <4>4, Zenon
    <3>. QED
      BY <3>1, <3>2
  <2>. QED
    BY <2>2
<1>. HIDE DEF N
<1>9. \A n \in Nat : n \in N
  BY <1>7, <1>8, SetInduction
<1>10. g[R] = k[R]
  <2>1. Cardinality(R) \in Nat /\ R \in SUBSET R
    BY <1>1, FS_CardinalityType
  <2>. QED
    BY <1>9, <2>1 DEF N
<1>11. g[S] \in Int /\ g[R] \in Int /\ g[S] = f[x] + g[R]
  <2>1. S \in SUBSET S /\ R \in SUBSET S /\ R = S \ {x}
    BY DEF R
  <2>2. g[S] \in Int /\ g[R] \in Int
    BY <1>3, <2>1, SumsInt
  <2>3. g[S] = f[x] + g[S \ {x}]
    <3>1. \A s \in SUBSET S : \A y \in s : Takes(g, f, s, y)
      BY <1>3, SumsRemove
    <3>2. Takes(g, f, S, x)
      BY <2>1, <3>1
    <3>. QED
      BY <3>2 DEF Takes
  <2>. QED
    BY <2>1, <2>2, <2>3
<1>12. SumFunction(h) = g[R] /\ SumFunction(f) = g[S]
  BY <1>3, <1>4, <1>10
<1>13. h = Others(f, x)
  BY DEF h, R, Others
<1>. QED
  BY <1>11, <1>12, <1>13

LEMMA SumType ==
  ASSUME NEW S, IsFiniteSet(S), NEW f \in [S -> Int]
  PROVE  SumFunction(f) \in Int
<1>1. PICK g : Sums(g, f, SUBSET S) /\ SumFunction(f) = g[S]
  BY SumFacts
<1>2. S \in SUBSET S
  OBVIOUS
<1>. QED
  BY <1>1, <1>2, SumsInt

\* A function that is 0 everywhere sums to 0.
LEMMA SumZero ==
  ASSUME NEW S, IsFiniteSet(S), NEW f \in [S -> Int], \A x \in S : f[x] = 0
  PROVE  SumFunction(f) = 0
<1>1. PICK g : Sums(g, f, SUBSET S) /\ SumFunction(f) = g[S]
  BY SumFacts
<1>2. \A s \in SUBSET S : g[s] = IF s = {} THEN 0 ELSE f[Pick(s)] + g[s \ {Pick(s)}]
  BY <1>1, Zenon DEF Sums
<1>3. g[{}] = 0
  BY <1>2
<1>. DEFINE N == {n \in Nat : \A s \in SUBSET S : Cardinality(s) = n => g[s] = 0}
<1>4. 0 \in N
  <2>1. ASSUME NEW s \in SUBSET S, Cardinality(s) = 0 PROVE g[s] = 0
    <3>1. s = {}
      BY <2>1, SmallFacts
    <3>. QED
      BY <1>3, <3>1
  <2>. QED
    BY <2>1
<1>5. ASSUME NEW n \in Nat, n \in N PROVE n + 1 \in N
  <2>1. \A s \in SUBSET S : Cardinality(s) = n => g[s] = 0
    BY <1>5
  <2>2. ASSUME NEW s \in SUBSET S, Cardinality(s) = n + 1 PROVE g[s] = 0
    <3>1. CASE s = {}
      BY <1>3, <3>1
    <3>2. CASE s # {}
      <4>1. /\ Pick(s) \in s /\ s \ {Pick(s)} \in SUBSET S
            /\ Cardinality(s \ {Pick(s)}) = (n + 1) - 1
        BY <2>2, <3>2, PickFacts
      <4>2. g[s \ {Pick(s)}] = 0 /\ f[Pick(s)] = 0
        BY <2>1, <4>1
      <4>3. g[s] = f[Pick(s)] + g[s \ {Pick(s)}]
        BY <1>2, <3>2, Zenon
      <4>. QED
        BY <4>2, <4>3
    <3>. QED
      BY <3>1, <3>2
  <2>. QED
    BY <2>2
<1>. HIDE DEF N
<1>6. \A n \in Nat : n \in N
  BY <1>4, <1>5, SetInduction
<1>7. Cardinality(S) \in Nat /\ S \in SUBSET S
  BY FS_CardinalityType
<1>. QED
  BY <1>1, <1>6, <1>7 DEF N

\* Changing one value changes the sum by the difference.
LEMMA SumChange ==
  ASSUME NEW S, IsFiniteSet(S), NEW f \in [S -> Int], NEW h \in [S -> Int], NEW x \in S,
         \A y \in S : y # x => h[y] = f[y]
  PROVE  /\ SumFunction(f) \in Int /\ SumFunction(h) \in Int
         /\ SumFunction(h) = SumFunction(f) + h[x] - f[x]
<1>1. Others(h, x) = Others(f, x)
  BY DEF Others
<1>2. /\ SumFunction(f) \in Int /\ SumFunction(Others(f, x)) \in Int
      /\ SumFunction(f) = f[x] + SumFunction(Others(f, x))
  BY SumSplit
<1>3. /\ SumFunction(h) \in Int
      /\ SumFunction(h) = h[x] + SumFunction(Others(h, x))
  BY SumSplit
<1>. QED
  BY <1>1, <1>2, <1>3

=============================================================================
