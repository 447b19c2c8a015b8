----------------------- MODULE PersistentTopKCounting -----------------------
(***************************************************************************)
(* Lemmas about what PersistentTopK counts: the digits of a key, the       *)
(* suffix sums of a histogram, and what one round of the radix select makes *)
(* of the number of keys above its prefix.                                 *)
(***************************************************************************)
EXTENDS PersistentTopKProofs

-----------------------------------------------------------------------------
(* Digits and the waves that own their buckets. *)

\* The keys that share a prefix of r digits are this many numbers in a row.
Span == [r \in 0 .. 4 |-> IF r = 0 THEN Radix * Weight[0] ELSE Weight[r - 1]]

\* The prefix found in r rounds has zeros for the digits not looked at.
Aligned(p, r) == \E u \in Nat : p = u * Span[r]

\* The wave that owns a bucket.
WaveOf(b) == (b * Waves) \div Radix

\* A span is as many of the next as there are digits, and those are what the
\* digit of the round weighs.
LEMMA Spans ==
  /\ \A r \in 0 .. 4 : Span[r] \in Nat \ {0}
  /\ \A r \in 0 .. 3 : Weight[r] = Span[r + 1] /\ Span[r] = Radix * Span[r + 1]
  /\ Span[4] = 1
  /\ \A key \in Keys : key \in Nat /\ key < Span[0]
<1>1. Radix \in Nat \ {0}  BY KernelAssumption
<1> DEFINE two == Radix * Radix
           three == two * Radix
           four == Radix * three
<1>2. two \in Nat \ {0} /\ three \in Nat \ {0} /\ four \in Nat \ {0}
  <2>1. two \in Nat \ {0}  BY <1>1
  <2> HIDE DEF two
  <2>2. three \in Nat \ {0}  BY <1>1, <2>1
  <2> HIDE DEF three
  <2>3. QED  BY <1>1, <2>1, <2>2
<1>3. Weight[0] = three /\ Weight[1] = two /\ Weight[2] = Radix /\ Weight[3] = 1
  BY DEF Weight
<1>4. /\ Span[0] = four /\ Span[1] = three /\ Span[2] = two /\ Span[3] = Radix /\ Span[4] = 1
  <2>1. /\ Span[0] = Radix * Weight[0] /\ Span[1] = Weight[0] /\ Span[2] = Weight[1]
        /\ Span[3] = Weight[2] /\ Span[4] = Weight[3]
    BY DEF Span
  <2>2. QED  BY <1>3, <2>1
<1>5. three = Radix * two  BY <1>1, <1>2
<1>6. Radix = Radix * 1  BY <1>1
<1>7. \A key \in Keys : key \in Nat /\ key < Span[0]
  BY <1>2, <1>3, <1>4 DEF Keys
<1> HIDE DEF two, three, four
<1>8. \A r \in 0 .. 3 : r = 0 \/ r = 1 \/ r = 2 \/ r = 3  OBVIOUS
<1>9. \A r \in 0 .. 4 : r = 0 \/ r = 1 \/ r = 2 \/ r = 3 \/ r = 4  OBVIOUS
<1>10. \A r \in 0 .. 4 : Span[r] \in Nat \ {0}  BY <1>1, <1>2, <1>4, <1>9
<1>11. /\ Weight[0] = Span[1] /\ Weight[1] = Span[2] /\ Weight[2] = Span[3] /\ Weight[3] = Span[4]
       /\ Span[0] = Radix * Span[1] /\ Span[1] = Radix * Span[2]
       /\ Span[2] = Radix * Span[3] /\ Span[3] = Radix * Span[4]
  BY <1>3, <1>4, <1>5, <1>6 DEF four, two
<1>12. \A r \in 0 .. 3 : Weight[r] = Span[r + 1] /\ Span[r] = Radix * Span[r + 1]
  <2>1. 0 + 1 = 1 /\ 1 + 1 = 2 /\ 2 + 1 = 3 /\ 3 + 1 = 4  OBVIOUS
  <2>2. QED  BY <1>8, <1>11, <2>1
<1>13. QED  BY <1>4, <1>7, <1>10, <1>12

\* Every bucket is owned by one wave of the block.
LEMMA OneWave ==
  ASSUME NEW b \in Buckets
  PROVE  /\ WaveOf(b) \in WaveIds
         /\ \A w \in WaveIds : b \in OfWave(w) <=> w = WaveOf(b)
<1>1. Radix \in Nat \ {0} /\ Waves \in Nat \ {0} /\ b \in Nat /\ b < Radix
  BY KernelAssumption DEF Buckets
<1> DEFINE x == b * Waves
           q == x \div Radix
           z == x % Radix
<1>2. x \in Nat  BY <1>1
<1>3. q \in Nat  BY <1>1, <1>2, Quotient
<1>4. x = Radix * q + z /\ z \in 0 .. Radix - 1
  <2> HIDE DEF x
  <2>1. x \in Int /\ Radix \in Int /\ Radix > 0  BY <1>1, <1>2
  <2>2. QED  BY <2>1, Division
<1>5. x < Radix * Waves
  <2>1. PICK n \in Nat : Radix = b + 1 + n
    <3>1. Radix - b - 1 \in Nat /\ Radix = b + 1 + (Radix - b - 1)  BY <1>1
    <3>2. QED  BY <3>1
  <2>2. Radix * Waves = b * Waves + Waves + n * Waves /\ n * Waves \in Nat /\ b * Waves \in Nat
    BY <1>1, <2>1
  <2>3. QED  BY <1>1, <2>2
<1> HIDE DEF x, q, z
<1>6. q < Waves
  <2> SUFFICES ASSUME Waves <= q PROVE FALSE  BY <1>1, <1>3
  <2>1. PICK n \in Nat : q = Waves + n
    <3>1. q - Waves \in Nat /\ q = Waves + (q - Waves)  BY <1>1, <1>3
    <3>2. QED  BY <3>1
  <2>2. Radix * q = Radix * Waves + Radix * n /\ Radix * n \in Nat /\ Radix * Waves \in Nat
    BY <1>1, <2>1
  <2>3. QED  BY <1>1, <1>2, <1>4, <1>5, <2>2
<1>7. WaveOf(b) = q  BY DEF WaveOf, q, x
<1>8. WaveOf(b) \in WaveIds  BY <1>1, <1>3, <1>6, <1>7 DEF WaveIds
<1>9. \A w \in WaveIds : b \in OfWave(w) <=> w = WaveOf(b)  BY DEF OfWave, WaveOf
<1>10. QED  BY <1>8, <1>9

-----------------------------------------------------------------------------
(* Suffix sums and the pivot. *)

\* The numbers that the suffix sum from a bucket on counts.
Counted(h, b) == UNION {{d} \X (1 .. h[d]) : d \in b .. Radix - 1}

\* A suffix sum is the number of elements of a finite set.
LEMMA CountedFact ==
  ASSUME NEW h \in [Buckets -> Nat], NEW b \in Nat
  PROVE  /\ IsFiniteSet(Counted(h, b))
         /\ CountFrom(h, b) = Cardinality(Counted(h, b)) /\ CountFrom(h, b) \in Nat
         /\ \A x : x \in Counted(h, b) <=>
                     \E d \in Buckets, n \in Nat : d >= b /\ n >= 1 /\ n <= h[d] /\ x = <<d, n>>
<1>1. Radix \in Nat  BY KernelAssumption
<1> DEFINE above == b .. Radix - 1
           pairs(d) == {d} \X (1 .. h[d])
           parts == {pairs(d) : d \in above}
<1>2. \A d : d \in above <=> d \in Buckets /\ d >= b  BY <1>1 DEF Buckets
<1>3. IsFiniteSet(parts)
  <2>1. b \in Int /\ Radix - 1 \in Int  BY <1>1
  <2>2. IsFiniteSet(above)  BY <2>1, FS_Interval
  <2> DEFINE f == [d \in above |-> pairs(d)]
  <2>3. f \in Surjection(above, parts)  BY DEF Surjection
  <2> HIDE DEF f, parts, above
  <2>4. QED  BY <2>2, <2>3, FS_Surjection
<1>4. \A d \in above : IsFiniteSet(pairs(d))
  <2> TAKE d \in above
  <2>1. 1 \in Int /\ h[d] \in Int  BY <1>2
  <2>2. IsFiniteSet(1 .. h[d])  BY <2>1, FS_Interval
  <2>3. IsFiniteSet({d})  BY FS_Singleton
  <2>4. QED  BY <2>2, <2>3, FS_Product
<1>5. \A T \in parts : IsFiniteSet(T)  BY <1>4
<1>6. IsFiniteSet(UNION parts)
  <2> HIDE DEF parts
  <2>1. QED  BY <1>3, <1>5, FS_UNION
<1>7. Counted(h, b) = UNION parts  BY DEF Counted
<1>8. CountFrom(h, b) = Cardinality(Counted(h, b))  BY DEF CountFrom, Counted
<1>9. ASSUME NEW x
      PROVE  x \in Counted(h, b) <=>
               \E d \in Buckets, n \in Nat : d >= b /\ n >= 1 /\ n <= h[d] /\ x = <<d, n>>
  <2>1. x \in Counted(h, b) <=> \E d \in above : x \in {d} \X (1 .. h[d])  BY <1>7
  <2>2. \A d \in above : x \in {d} \X (1 .. h[d]) <=>
                           \E n \in Nat : n >= 1 /\ n <= h[d] /\ x = <<d, n>>
    <3> TAKE d \in above
    <3>1. h[d] \in Nat  BY <1>2
    <3>2. QED  BY <3>1
  <2>3. QED  BY <1>2, <2>1, <2>2
<1>10. IsFiniteSet(Counted(h, b))  BY <1>6, <1>7
<1>11. QED  BY <1>8, <1>9, <1>10, FS_CardinalityType

\* The suffix sums fall, and the last is 0.
LEMMA CountFalls ==
  ASSUME NEW h \in [Buckets -> Nat]
  PROVE  /\ \A a, b \in Nat : a <= b => CountFrom(h, b) <= CountFrom(h, a)
         /\ CountFrom(h, Radix) = 0
<1>1. Radix \in Nat  BY KernelAssumption
<1>2. ASSUME NEW a \in Nat, NEW b \in Nat, a <= b PROVE CountFrom(h, b) <= CountFrom(h, a)
  <2>1. IsFiniteSet(Counted(h, a)) /\ CountFrom(h, a) = Cardinality(Counted(h, a))
        /\ CountFrom(h, b) = Cardinality(Counted(h, b))
    BY CountedFact
  <2>2. Counted(h, b) \subseteq Counted(h, a)
    <3> SUFFICES ASSUME NEW x \in Counted(h, b) PROVE x \in Counted(h, a)  OBVIOUS
    <3>1. PICK d \in Buckets, n \in Nat : d >= b /\ n >= 1 /\ n <= h[d] /\ x = <<d, n>>
      BY CountedFact
    <3>2. d >= a  BY <1>2, <3>1, <1>1 DEF Buckets
    <3>3. QED  BY <3>1, <3>2, CountedFact
  <2>3. QED  BY <2>1, <2>2, FS_Subset
<1>3. CountFrom(h, Radix) = 0
  <2>1. \A d \in Buckets : ~(d >= Radix)  BY <1>1 DEF Buckets
  <2>2. Counted(h, Radix) = {}  BY <1>1, <2>1, CountedFact
  <2>3. QED  BY <1>1, <2>2, CountedFact, FS_EmptySet
<1>4. QED  BY <1>2, <1>3

\* The digit the search takes, the pivot if there is one, and how many are
\* left to find below it.
DigitOf(h, k) == IF Pivots(h, k) = {} THEN 0 ELSE CHOOSE b \in Pivots(h, k) : TRUE
LeftOf(h, k) == IF Pivots(h, k) = {} THEN k ELSE k - CountFrom(h, DigitOf(h, k) + 1)

\* There is a pivot just when the histogram counts enough.  No other fact of
\* the suffix sums than that they fall to 0 is needed.
LEMMA PivotFact ==
  ASSUME NEW h \in [Buckets -> Nat], NEW k \in Nat \ {0}
  PROVE  /\ DigitOf(h, k) \in Buckets
         /\ CountFrom(h, 0) < k => Pivots(h, k) = {} /\ DigitOf(h, k) = 0 /\ LeftOf(h, k) = k
         /\ CountFrom(h, 0) >= k =>
              /\ CountFrom(h, DigitOf(h, k)) >= k /\ CountFrom(h, DigitOf(h, k) + 1) < k
              /\ LeftOf(h, k) = k - CountFrom(h, DigitOf(h, k) + 1)
<1>1. Radix \in Nat /\ Radix > 0  BY KernelAssumption
<1>2. \A b \in Nat : CountFrom(h, b) \in Nat  BY CountedFact
<1>3. Buckets \subseteq Nat /\ \A b : b \in Buckets <=> b \in Nat /\ b < Radix
  BY <1>1 DEF Buckets
<1>4. ASSUME CountFrom(h, 0) < k PROVE Pivots(h, k) = {}
  <2> SUFFICES ASSUME NEW b \in Pivots(h, k) PROVE FALSE  OBVIOUS
  <2>1. b \in Nat /\ CountFrom(h, b) >= k  BY <1>3 DEF Pivots
  <2>2. 0 \in Nat /\ 0 <= b  BY <2>1
  <2>3. CountFrom(h, b) <= CountFrom(h, 0)  BY <2>1, <2>2, CountFalls
  <2>4. QED  BY <1>2, <1>4, <2>1, <2>3
<1>5. ASSUME CountFrom(h, 0) >= k PROVE Pivots(h, k) # {}
  <2> DEFINE enough == {b \in Buckets : CountFrom(h, b) >= k}
             m == Cardinality(enough)
  <2>1. IsFiniteSet(Buckets)
    <3>1. 0 \in Int /\ Radix - 1 \in Int  BY <1>1
    <3>2. QED  BY <3>1, FS_Interval DEF Buckets
  <2>2. IsFiniteSet(enough) /\ m \in Nat
    <3>1. enough \in SUBSET Buckets  OBVIOUS
    <3> HIDE DEF enough
    <3>2. QED  BY <2>1, <3>1, FS_Subset, FS_CardinalityType
  <2>3. enough \subseteq 0 .. m - 1
    <3> SUFFICES ASSUME NEW b \in enough PROVE b \in 0 .. m - 1  OBVIOUS
    <3>1. b \in Nat /\ b < Radix /\ CountFrom(h, b) >= k  BY <1>3
    <3>2. 0 .. b \subseteq enough
      <4> SUFFICES ASSUME NEW a \in 0 .. b PROVE a \in enough  OBVIOUS
      <4>1. a \in Nat /\ a <= b /\ a < Radix  BY <1>1, <3>1
      <4>2. CountFrom(h, b) <= CountFrom(h, a)  BY <3>1, <4>1, CountFalls
      <4>3. QED  BY <1>2, <1>3, <3>1, <4>1, <4>2
    <3>3. Cardinality(0 .. b) = b + 1
      <4>1. 0 \in Int /\ b \in Int /\ ~(0 > b) /\ b - 0 + 1 = b + 1  BY <3>1
      <4>2. QED  BY <4>1, FS_Interval
    <3> HIDE DEF enough
    <3>4. Cardinality(0 .. b) <= m  BY <2>2, <3>2, FS_Subset
    <3>5. QED  BY <2>2, <3>1, <3>3, <3>4
  <2>4. enough = 0 .. m - 1
    <3>1. IsFiniteSet(0 .. m - 1) /\ Cardinality(0 .. m - 1) = m
      <4>1. m - 1 \in Int /\ (0 > m - 1 => m = 0) /\ m - 1 - 0 + 1 = m
        <5> HIDE DEF m
        <5>1. QED  BY <2>2
      <4> HIDE DEF m
      <4>2. QED  BY <2>2, <4>1, FS_Interval
    <3> HIDE DEF enough
    <3>2. enough \in SUBSET (0 .. m - 1)  BY <2>3
    <3>3. QED  BY <3>1, <3>2, FS_Subset
  <2>5. 0 \in enough  BY <1>1, <1>3, <1>5
  <2>6. m >= 1
    <3> HIDE DEF enough, m
    <3>1. QED  BY <2>2, <2>4, <2>5
  <2>7. m - 1 \in Buckets /\ CountFrom(h, m - 1) >= k
    <3>1. m - 1 \in 0 .. m - 1
      <4> HIDE DEF m
      <4>1. QED  BY <2>2, <2>6
    <3>2. m - 1 \in enough  BY <2>4, <3>1
    <3>3. QED  BY <3>2
  <2>8. m \notin enough
    <3> HIDE DEF enough, m
    <3>1. QED  BY <2>2, <2>4
  <2>9. CountFrom(h, m) < k
    <3>1. CASE m < Radix
      <4>1. ~(CountFrom(h, m) >= k)  BY <1>3, <2>2, <2>8, <3>1
      <4>2. CountFrom(h, m) \in Nat  BY <1>2, <2>2
      <4>3. QED  BY <4>1, <4>2
    <3>2. CASE ~(m < Radix)
      <4>1. CountFrom(h, m) <= CountFrom(h, Radix)  BY <1>1, <2>2, <3>2, CountFalls
      <4>2. CountFrom(h, Radix) = 0 /\ CountFrom(h, m) \in Nat  BY <1>2, <2>2, CountFalls
      <4>3. QED  BY <4>1, <4>2
    <3>3. QED  BY <3>1, <3>2
  <2>10. (m - 1) + 1 = m
    <3> HIDE DEF m
    <3>1. QED  BY <2>2
  <2> HIDE DEF m
  <2>11. m - 1 \in Pivots(h, k)  BY <2>7, <2>9, <2>10 DEF Pivots
  <2>12. QED  BY <2>11
<1>6. Pivots(h, k) # {} => DigitOf(h, k) \in Pivots(h, k)  BY DEF DigitOf
<1>7. Pivots(h, k) = {} => DigitOf(h, k) = 0 /\ LeftOf(h, k) = k  BY DEF DigitOf, LeftOf
<1>8. Pivots(h, k) # {} =>
        /\ DigitOf(h, k) \in Buckets /\ CountFrom(h, DigitOf(h, k)) >= k
        /\ CountFrom(h, DigitOf(h, k) + 1) < k
        /\ LeftOf(h, k) = k - CountFrom(h, DigitOf(h, k) + 1)
  BY <1>6 DEF Pivots, LeftOf
<1>9. 0 \in Buckets  BY <1>1, <1>3
<1>10. QED  BY <1>4, <1>5, <1>7, <1>8, <1>9

-----------------------------------------------------------------------------
(* What a suffix sum says of the elements that were counted. *)

\* If a histogram counts at least the elements of every digit, its suffix sums
\* count at least the elements from every digit on; if it counts them exactly,
\* so do they.  The witness numbers the elements of each digit.
LEMMA SuffixSum ==
  ASSUME NEW h \in [Buckets -> Nat], NEW S, IsFiniteSet(S), NEW f \in [S -> Buckets],
         \A d \in Buckets : Cardinality({x \in S : f[x] = d}) <= h[d],
         NEW b \in Nat
  PROVE  /\ Cardinality({x \in S : f[x] >= b}) <= CountFrom(h, b)
         /\ (\A d \in Buckets : Cardinality({x \in S : f[x] = d}) = h[d])
              => Cardinality({x \in S : f[x] >= b}) = CountFrom(h, b)
<1> DEFINE of(d) == {x \in S : f[x] = d}
           from == {x \in S : f[x] >= b}
           number == [d \in Buckets |-> CHOOSE g : g \in Bijection(of(d), 1 .. Cardinality(of(d)))]
           pair == [x \in from |-> <<f[x], number[f[x]][x]>>]
<1>1. ASSUME NEW d \in Buckets
      PROVE  /\ Cardinality(of(d)) \in Nat
             /\ number[d] \in Bijection(of(d), 1 .. Cardinality(of(d)))
  <2>1. of(d) \in SUBSET S  OBVIOUS
  <2> HIDE DEF of
  <2>2. IsFiniteSet(of(d))  BY <2>1, FS_Subset
  <2>3. Cardinality(of(d)) \in Nat  BY <2>2, FS_CardinalityType
  <2>4. IsFiniteSet(1 .. Cardinality(of(d))) /\ Cardinality(1 .. Cardinality(of(d))) = Cardinality(of(d))
    <3>1. PICK n \in Nat : n = Cardinality(of(d))  BY <2>3
    <3>2. 1 \in Int /\ n \in Int /\ (1 > n => n = 0) /\ n - 1 + 1 = n  BY <3>1
    <3>3. IsFiniteSet(1 .. n) /\ Cardinality(1 .. n) = n  BY <3>1, <3>2, FS_Interval
    <3>4. QED  BY <3>1, <3>3
  <2>5. ExistsBijection(of(d), 1 .. Cardinality(of(d)))  BY <2>2, <2>4, FS_SameCardinalityBij
  <2>6. \E g : g \in Bijection(of(d), 1 .. Cardinality(of(d)))  BY <2>5 DEF ExistsBijection
  <2>7. QED  BY <2>3, <2>6
<1>2. \A d \in Buckets : Cardinality(of(d)) <= h[d]  OBVIOUS
<1>3. Buckets \subseteq Nat  BY KernelAssumption DEF Buckets
<1>4. \A x \in from : f[x] \in Buckets /\ f[x] >= b /\ x \in of(f[x])  OBVIOUS
<1>5. \A x \in S : x \in from <=> f[x] >= b  OBVIOUS
<1>6. from \subseteq S  OBVIOUS
<1>7. \A d, x : x \in of(d) <=> x \in S /\ f[x] = d  OBVIOUS
<1>8. ASSUME NEW d \in Buckets
      PROVE  /\ \A x \in of(d) : number[d][x] \in 1 .. Cardinality(of(d))
             /\ \A x, y \in of(d) : number[d][x] = number[d][y] => x = y
             /\ \A n \in 1 .. Cardinality(of(d)) : \E x \in of(d) : number[d][x] = n
  <2> HIDE DEF of, number
  <2>1. number[d] \in Bijection(of(d), 1 .. Cardinality(of(d)))  BY <1>1
  <2>2. QED  BY <2>1 DEF Bijection, Injection, Surjection, IsInjective
<1> HIDE DEF of, from, number
<1>9. ASSUME NEW x \in from
      PROVE  /\ number[f[x]][x] \in Nat /\ number[f[x]][x] >= 1
             /\ number[f[x]][x] <= Cardinality(of(f[x])) /\ Cardinality(of(f[x])) \in Nat
             /\ number[f[x]][x] <= h[f[x]] /\ h[f[x]] \in Nat
  <2>1. PICK d \in Buckets : d = f[x]  BY <1>4
  <2>2. x \in of(d)  BY <1>4, <2>1
  <2>3. number[d][x] \in 1 .. Cardinality(of(d)) /\ Cardinality(of(d)) \in Nat  BY <1>1, <1>8, <2>2
  <2>4. Cardinality(of(d)) <= h[d] /\ h[d] \in Nat  BY <1>2
  <2>5. QED  BY <2>1, <2>3, <2>4
<1>10. pair \in [from -> Counted(h, b)]
  <2> SUFFICES ASSUME NEW x \in from PROVE <<f[x], number[f[x]][x]>> \in Counted(h, b)  OBVIOUS
  <2>1. QED  BY <1>4, <1>9, CountedFact
<1>11. ASSUME NEW x \in from, NEW y \in from, pair[x] = pair[y] PROVE x = y
  <2>1. f[x] = f[y] /\ number[f[x]][x] = number[f[y]][y]  BY <1>11
  <2>2. PICK d \in Buckets : d = f[x]  BY <1>4
  <2>3. x \in of(d) /\ y \in of(d) /\ number[d][x] = number[d][y]  BY <1>4, <2>1, <2>2
  <2>4. QED  BY <1>8, <2>3
<1> HIDE DEF pair
<1>12. pair \in Injection(from, Counted(h, b))
  BY <1>10, <1>11 DEF Injection, IsInjective
<1>13. /\ IsFiniteSet(Counted(h, b)) /\ CountFrom(h, b) = Cardinality(Counted(h, b))
  BY CountedFact
<1>14. /\ Cardinality(from) <= Cardinality(Counted(h, b))
       /\ pair \in Surjection(from, Counted(h, b)) => Cardinality(from) = Cardinality(Counted(h, b))
  BY <1>12, <1>13, FS_Injection
<1>15. ASSUME \A d \in Buckets : Cardinality(of(d)) = h[d]
       PROVE  pair \in Surjection(from, Counted(h, b))
  <2> SUFFICES ASSUME NEW z \in Counted(h, b) PROVE \E x \in from : pair[x] = z
    BY <1>10 DEF Surjection
  <2>1. PICK d \in Buckets, n \in Nat : d >= b /\ n >= 1 /\ n <= h[d] /\ z = <<d, n>>
    BY CountedFact
  <2>2. n \in 1 .. Cardinality(of(d))  BY <1>1, <1>15, <2>1
  <2>3. PICK x \in of(d) : number[d][x] = n  BY <1>8, <2>2
  <2>4. x \in S /\ f[x] = d  BY <1>7
  <2>5. x \in from  BY <1>5, <2>1, <2>4
  <2>6. pair[x] = <<d, n>>  BY <2>3, <2>4, <2>5 DEF pair
  <2>7. QED  BY <2>1, <2>5, <2>6
<1>16. QED  BY <1>13, <1>14, <1>15 DEF from, of

-----------------------------------------------------------------------------
(* The elements of a bucket are those between two keys. *)

\* Quotient and remainder are determined by the equation they satisfy.
LEMMA QuotientUnique ==
  ASSUME NEW g \in Nat \ {0}, NEW p \in Nat, NEW q \in Nat, NEW y \in 0 .. g - 1, NEW z \in Nat,
         g * p + y <= g * q + z, g * q + z < g * p + g, z < g
  PROVE  p = q
<1>1. ASSUME p < q PROVE FALSE
  <2>1. PICK n \in Nat : q = p + 1 + n
    <3>1. q - p - 1 \in Nat /\ q = p + 1 + (q - p - 1)  BY <1>1
    <3>2. QED  BY <3>1
  <2>2. g * q = g * p + g + g * n /\ g * n \in Nat /\ g * p \in Nat  BY <2>1
  <2>3. QED  BY <2>2
<1>2. ASSUME q < p PROVE FALSE
  <2>1. PICK n \in Nat : p = q + 1 + n
    <3>1. p - q - 1 \in Nat /\ p = q + 1 + (p - q - 1)  BY <1>2
    <3>2. QED  BY <3>1
  <2>2. g * p = g * q + g + g * n /\ g * n \in Nat /\ g * q \in Nat  BY <2>1
  <2>3. QED  BY <2>2
<1>3. QED  BY <1>1, <1>2

\* What InBucket asks of a key.
HasDigit(key, p, r, b) ==
  /\ (key \div Weight[r]) \div Radix = p \div (Weight[r] * Radix)
  /\ (key \div Weight[r]) % Radix = b

\* The keys with the prefix and a digit of the round are an interval.
LEMMA BucketRange ==
  ASSUME NEW key \in Nat, NEW r \in 0 .. 3, NEW p, Aligned(p, r), NEW b \in Buckets
  PROVE  HasDigit(key, p, r, b) <=> p + b * Weight[r] <= key /\ key < p + (b + 1) * Weight[r]
<1>1. PICK W \in Nat \ {0} : W = Weight[r]  BY Spans
<1>2. PICK R \in Nat \ {0} : R = Radix  BY KernelAssumption
<1>3. b \in Nat /\ b \in 0 .. R - 1  BY <1>2 DEF Buckets
<1>4. PICK u \in Nat : p = u * (R * W)  BY <1>1, <1>2, Spans DEF Aligned
<1> DEFINE S == W * R
           q == key \div W
           z == key % W
           y == q \div R
           t == q % R
<1>5. key = W * q + z /\ z \in 0 .. W - 1 /\ q \in Nat
  <2>1. key \in Int /\ W \in Int /\ W > 0  OBVIOUS
  <2>2. q \in Nat  BY Quotient
  <2>3. QED  BY <2>1, <2>2, Division
<1>6. q = R * y + t /\ t \in 0 .. R - 1 /\ y \in Nat
  <2> HIDE DEF q
  <2>1. q \in Int /\ R \in Int /\ R > 0  BY <1>5
  <2>2. y \in Nat  BY <1>5, Quotient
  <2>3. QED  BY <2>1, <2>2, Division
<1>7. S \in Nat \ {0} /\ S = R * W  OBVIOUS
<1>8. p \in Nat /\ p = S * u
  <2> HIDE DEF S
  <2>1. QED  BY <1>4, <1>7
<1>9. p \div S = u
  <2> DEFINE v == p \div S
             x == p % S
  <2> HIDE DEF S
  <2>1. v \in Nat  BY <1>7, <1>8, Quotient
  <2>2. p = S * v + x /\ x \in 0 .. S - 1  
    <3>1. p \in Int /\ S \in Int /\ S > 0  BY <1>7, <1>8
    <3>2. QED  BY <3>1, Division
  <2> HIDE DEF v, x
  <2>3. S * u + 0 <= S * v + x /\ S * v + x < S * u + S
    <3>1. S * u \in Nat /\ S * v \in Nat  BY <1>7, <2>1
    <3>2. QED  BY <1>7, <1>8, <2>2, <3>1
  <2>4. 0 \in 0 .. S - 1 /\ x \in Nat /\ x < S  BY <1>7, <2>2
  <2>5. u = v  BY <1>7, <2>1, <2>3, <2>4, QuotientUnique
  <2>6. QED  BY <2>5 DEF v
<1>10. HasDigit(key, p, r, b) <=> y = u /\ t = b
  BY <1>1, <1>2, <1>9 DEF HasDigit
<1> HIDE DEF q, z, y, t, S
<1> DEFINE g == R * u + b
<1>11. g \in Nat /\ W * g = p + b * W /\ W * g + W = p + (b + 1) * W /\ W * g \in Nat
  <2>1. R * u \in Nat  OBVIOUS
  <2>2. W * (R * u) = p
    <3>1. u * (R * W) = W * (R * u)  OBVIOUS
    <3>2. QED  BY <1>4, <3>1
  <2>3. PICK x \in Nat : x = R * u  BY <2>1
  <2>4. W * (x + b) = W * x + b * W /\ (b + 1) * W = b * W + W /\ b * W \in Nat
    BY <1>3
  <2>5. W * x = p  BY <2>2, <2>3
  <2>6. g = x + b  BY <2>3
  <2> HIDE DEF g
  <2>7. g \in Nat  BY <2>6, <1>3
  <2>8. W * g = p + b * W  BY <2>4, <2>5, <2>6
  <2>9. PICK m \in Nat : m = b * W  BY <2>4
  <2>10. (b + 1) * W = m + W /\ W * g = p + m  BY <2>4, <2>8, <2>9
  <2>11. QED  BY <2>7, <2>9, <2>10, <1>8
<1>12. ASSUME y = u, t = b PROVE p + b * W <= key /\ key < p + (b + 1) * W
  <2>1. q = g  BY <1>6, <1>12
  <2> HIDE DEF g
  <2>2. key = W * g + z  BY <1>5, <2>1
  <2>3. QED  BY <1>5, <1>11, <2>2
<1>13. ASSUME p + b * W <= key, key < p + (b + 1) * W PROVE y = u /\ t = b
  <2>1. q = g
    <3> HIDE DEF g
    <3>1. W * g + 0 <= W * q + z /\ W * q + z < W * g + W  BY <1>5, <1>11, <1>13
    <3>2. 0 \in 0 .. W - 1 /\ z \in Nat /\ z < W  BY <1>5
    <3>3. QED  BY <1>5, <1>11, <3>1, <3>2, QuotientUnique
  <2>2. R * u + b = R * y + t  BY <1>6, <2>1
  <2>3. t \in Nat /\ t < R /\ R * y + t < R * u + R
    <3>1. R * u \in Nat  OBVIOUS
    <3>2. QED  BY <1>3, <1>6, <2>2, <3>1
  <2>4. R * u + b <= R * y + t
    <3>1. R * u + b \in Nat  BY <1>3
    <3>2. QED  BY <2>2, <3>1
  <2>5. u = y  BY <1>3, <1>6, <2>3, <2>4, QuotientUnique
  <2>6. t = b
    <3>1. R * u \in Nat  OBVIOUS
    <3>2. QED  BY <1>3, <1>6, <2>2, <2>5, <3>1
  <2>7. QED  BY <2>5, <2>6
<1>14. QED  BY <1>1, <1>10, <1>12, <1>13

-----------------------------------------------------------------------------
(* How many elements of a row have at least a given key. *)

\* Those elements, and their number.
Indices(row) == 0 .. Len(row) - 1
From(row, v) == {x \in Indices(row) : Key(row, x) >= v}
HowMany(row, v) == Cardinality(From(row, v))

\* Keys, indices and numbers of elements are what they should be.
LEMMA HowManyFact ==
  ASSUME NEW row \in Seq(Keys)
  PROVE  /\ \A x \in Indices(row) : Key(row, x) \in Keys /\ Key(row, x) \in Nat
         /\ IsFiniteSet(Indices(row))
         /\ \A v : IsFiniteSet(From(row, v)) /\ HowMany(row, v) \in Nat
         /\ \A v, w \in Nat : v <= w => /\ From(row, w) \subseteq From(row, v)
                                        /\ HowMany(row, w) <= HowMany(row, v)
         /\ HowMany(row, 0) = Len(row) /\ HowMany(row, Span[0]) = 0
<1>1. Len(row) \in Nat /\ \A n \in 1 .. Len(row) : row[n] \in Keys  OBVIOUS
<1>2. \A x \in Indices(row) : x + 1 \in 1 .. Len(row)  BY <1>1 DEF Indices
<1>3. \A x \in Indices(row) : Key(row, x) \in Keys /\ Key(row, x) \in Nat
  BY <1>1, <1>2, Spans DEF Key
<1>4. IsFiniteSet(Indices(row)) /\ Cardinality(Indices(row)) = Len(row)
  <2>1. PICK n \in Nat : n = Len(row)  BY <1>1
  <2>2. 0 \in Int /\ n - 1 \in Int /\ (0 > n - 1 => n = 0) /\ n - 1 - 0 + 1 = n  OBVIOUS
  <2>3. QED  BY <2>1, <2>2, FS_Interval DEF Indices
<1>5. ASSUME NEW v PROVE IsFiniteSet(From(row, v)) /\ HowMany(row, v) \in Nat
  <2>1. From(row, v) \in SUBSET Indices(row)  BY DEF From
  <2>2. IsFiniteSet(From(row, v))  BY <1>4, <2>1, FS_Subset
  <2>3. QED  BY <2>2, FS_CardinalityType DEF HowMany
<1>6. ASSUME NEW v \in Nat, NEW w \in Nat, v <= w
      PROVE  From(row, w) \subseteq From(row, v) /\ HowMany(row, w) <= HowMany(row, v)
  <2>1. From(row, w) \subseteq From(row, v)  BY <1>3, <1>6 DEF From
  <2>2. QED  BY <1>5, <2>1, FS_Subset DEF HowMany
<1>7. From(row, 0) = Indices(row)  BY <1>3 DEF From
<1>8. From(row, Span[0]) = {}
  <2>1. \A x \in Indices(row) : ~(Key(row, x) >= Span[0])
    <3> TAKE x \in Indices(row)
    <3>1. Key(row, x) \in Nat /\ Key(row, x) < Span[0] /\ Span[0] \in Nat  BY <1>3, Spans
    <3>2. QED  BY <3>1
  <2>2. QED  BY <2>1 DEF From
<1>9. QED  BY <1>3, <1>4, <1>5, <1>6, <1>7, <1>8, FS_EmptySet DEF HowMany

\* A factor that grows.
LEMMA ProductGrows ==
  ASSUME NEW a \in Nat, NEW b \in Nat, NEW w \in Nat, a <= b
  PROVE  a * w \in Nat /\ b * w \in Nat /\ a * w <= b * w
<1>1. PICK n \in Nat : b = a + n
  <2>1. b - a \in Nat /\ b = a + (b - a)  OBVIOUS
  <2>2. QED  BY <2>1
<1>2. b * w = a * w + n * w /\ n * w \in Nat /\ a * w \in Nat  BY <1>1
<1>3. QED  BY <1>2

\* An element of the span has a digit, which tells where in the span it is.
LEMMA DigitExists ==
  ASSUME NEW key \in Nat, NEW r \in 0 .. 3, NEW p, Aligned(p, r)
  PROVE  p \in Nat /\ (p <= key /\ key < p + Span[r] => \E b \in Buckets : HasDigit(key, p, r, b))
<1>1. PICK W \in Nat \ {0} : W = Weight[r] /\ Span[r] = Radix * W  BY Spans
<1>2. Radix \in Nat \ {0}  BY KernelAssumption
<1>3. p \in Nat
  <2>1. PICK u \in Nat : p = u * Span[r]  BY DEF Aligned
  <2>2. PICK s \in Nat : s = Span[r]  BY Spans
  <2>3. QED  BY <2>1, <2>2
<1>4. ASSUME p <= key, key < p + Span[r] PROVE \E b \in Buckets : HasDigit(key, p, r, b)
  <2> DEFINE b == (key - p) \div W
             z == (key - p) % W
  <2>1. key - p \in Nat /\ key - p < Radix * W  BY <1>1, <1>2, <1>3, <1>4
  <2>2. b \in Nat  BY <2>1, Quotient
  <2>3. key - p = W * b + z /\ z \in 0 .. W - 1
    <3>1. key - p \in Int /\ W \in Int /\ W > 0  BY <2>1
    <3>2. QED  BY <3>1, Division
  <2> HIDE DEF b, z
  <2>4. W * b = b * W /\ (b + 1) * W = b * W + W /\ b * W \in Nat  BY <2>2
  <2>5. p + b * W <= key /\ key < p + (b + 1) * W  BY <1>3, <2>3, <2>4
  <2>6. b < Radix
    <3>1. SUFFICES ASSUME Radix <= b PROVE FALSE  BY <1>2, <2>2
    <3>2. Radix * W <= b * W /\ Radix * W \in Nat  BY <1>2, <2>2, <3>1, ProductGrows
    <3>3. QED  BY <2>1, <2>3, <2>4, <3>2
  <2>7. b \in Buckets  BY <1>2, <2>2, <2>6 DEF Buckets
  <2>8. QED  BY <1>1, <2>5, <2>7, BucketRange
<1>5. QED  BY <1>3, <1>4

\* The bucket of a whole row in a round.
Bucket(row, p, r, b) == InBucket(row, Indices(row), p, r, b)

\* A bucket holds the indices whose keys have its digit, finitely many.
LEMMA BucketFact ==
  ASSUME NEW row \in Seq(Keys), NEW r \in 0 .. 3, NEW p, NEW b
  PROVE  /\ \A x : x \in Bucket(row, p, r, b) <=> x \in Indices(row) /\ HasDigit(Key(row, x), p, r, b)
         /\ IsFiniteSet(Bucket(row, p, r, b)) /\ Cardinality(Bucket(row, p, r, b)) \in Nat
<1>1. \A x : x \in Bucket(row, p, r, b) <=> x \in Indices(row) /\ HasDigit(Key(row, x), p, r, b)
  BY DEF Bucket, InBucket, HasDigit
<1>2. Bucket(row, p, r, b) \in SUBSET Indices(row)  BY <1>1
<1>3. IsFiniteSet(Bucket(row, p, r, b))  BY <1>2, HowManyFact, FS_Subset
<1>4. QED  BY <1>1, <1>3, FS_CardinalityType

\* A suffix sum of a histogram of the round counts the elements of the span
\* from the digit on.
LEMMA RoundCount ==
  ASSUME NEW row \in Seq(Keys), NEW h \in [Buckets -> Nat], NEW r \in 0 .. 3, NEW p, Aligned(p, r),
         \A d \in Buckets : h[d] >= Cardinality(Bucket(row, p, r, d)),
         NEW b \in 0 .. Radix
  PROVE  LET v == p + b * Weight[r]
         IN  /\ v \in Nat /\ p + Span[r] \in Nat
             /\ HowMany(row, v) <= HowMany(row, p + Span[r]) + CountFrom(h, b)
             /\ (\A d \in Buckets : h[d] = Cardinality(Bucket(row, p, r, d)))
                  => HowMany(row, v) = HowMany(row, p + Span[r]) + CountFrom(h, b)
<1>1. PICK W \in Nat \ {0} : W = Weight[r] /\ Span[r] = Radix * W  BY Spans
<1>2. Radix \in Nat \ {0} /\ b \in Nat /\ b <= Radix  BY KernelAssumption
<1>3. p \in Nat  BY DigitExists
<1>4. b * W \in Nat /\ Radix * W \in Nat /\ b * W <= Radix * W  BY <1>2, ProductGrows
<1> DEFINE top == p + Span[r]
           v == p + b * Weight[r]
           S == {x \in Indices(row) : p <= Key(row, x) /\ Key(row, x) < top}
           f == [x \in S |-> (Key(row, x) \div W) % Radix]
           from == {x \in S : f[x] >= b}
<1>5. /\ v \in Nat /\ top \in Nat /\ v <= top /\ p <= v
      /\ v = p + b * W /\ top = p + Radix * W
  BY <1>1, <1>3, <1>4
<1>6. \A x \in Indices(row) : Key(row, x) \in Nat  BY HowManyFact
<1>7. IsFiniteSet(S)
  <2>1. S \in SUBSET Indices(row)  OBVIOUS
  <2> HIDE DEF S
  <2>2. QED  BY <2>1, HowManyFact, FS_Subset
<1>8. ASSUME NEW x \in S
      PROVE  f[x] \in Buckets /\ HasDigit(Key(row, x), p, r, f[x])
  <2>1. Key(row, x) \in Nat /\ p <= Key(row, x) /\ Key(row, x) < p + Span[r]  BY <1>6
  <2>2. PICK d \in Buckets : HasDigit(Key(row, x), p, r, d)  BY <2>1, DigitExists
  <2>3. f[x] = d  BY <1>1, <2>2 DEF HasDigit
  <2>4. QED  BY <2>2, <2>3
<1>9. f \in [S -> Buckets]
  <2>1. f = [x \in S |-> f[x]]  OBVIOUS
  <2> HIDE DEF f, S
  <2>2. QED  BY <1>8, <2>1
<1>10. ASSUME NEW d \in Buckets PROVE {x \in S : f[x] = d} = Bucket(row, p, r, d)
  <2>1. ASSUME NEW x \in S, f[x] = d PROVE x \in Bucket(row, p, r, d)
    <3>1. x \in Indices(row)  OBVIOUS
    <3>2. HasDigit(Key(row, x), p, r, d)  BY <1>8, <2>1
    <3>3. QED  BY <3>1, <3>2, BucketFact
  <2>2. ASSUME NEW x \in Bucket(row, p, r, d) PROVE x \in S /\ f[x] = d
    <3>1. x \in Indices(row) /\ HasDigit(Key(row, x), p, r, d)  BY BucketFact
    <3>2. p + d * W <= Key(row, x) /\ Key(row, x) < p + (d + 1) * W /\ Key(row, x) \in Nat
      BY <1>1, <1>6, <3>1, BucketRange
    <3>3. d \in Nat /\ d + 1 \in Nat /\ d + 1 <= Radix  BY <1>2 DEF Buckets
    <3>4. d * W \in Nat /\ (d + 1) * W \in Nat /\ (d + 1) * W <= Radix * W
      BY <1>2, <3>3, ProductGrows
    <3>5. p <= Key(row, x) /\ Key(row, x) < top  BY <1>1, <1>3, <1>4, <3>2, <3>4
    <3>6. x \in S  BY <3>1, <3>5
    <3>7. f[x] = d  BY <1>1, <3>1, <3>6 DEF HasDigit
    <3>8. QED  BY <3>6, <3>7
  <2> HIDE DEF S, f
  <2>3. QED  BY <2>1, <2>2
<1>11. from = From(row, v) \ From(row, top)
  <2>1. ASSUME NEW x \in S PROVE f[x] >= b <=> Key(row, x) >= v
    <3>1. PICK d \in Buckets : d = f[x] /\ HasDigit(Key(row, x), p, r, d)  BY <1>8
    <3> HIDE DEF v, top, f
    <3>2. d \in Nat  BY <1>2 DEF Buckets
    <3>3. PICK key \in Nat : key = Key(row, x)  BY <1>6
    <3>4. p + d * W <= key /\ key < p + (d + 1) * W
      BY <1>1, <3>1, <3>3, BucketRange
    <3>5. d >= b => key >= v
      <4>1. d >= b => b * W <= d * W /\ d * W \in Nat  BY <1>2, <3>2, ProductGrows
      <4>2. QED  BY <1>3, <1>4, <1>5, <3>4, <4>1
    <3>6. d < b => key < v
      <4>1. d + 1 \in Nat /\ (d < b => d + 1 <= b)  BY <1>2, <3>2
      <4>2. d < b => (d + 1) * W <= b * W /\ (d + 1) * W \in Nat  BY <1>2, <4>1, ProductGrows
      <4>3. QED  BY <1>3, <1>4, <1>5, <3>4, <4>2
    <3>7. f[x] >= b <=> key >= v  BY <1>2, <1>5, <3>1, <3>2, <3>5, <3>6
    <3>8. QED  BY <3>3, <3>7
  <2>2. \A x \in Indices(row) : x \in S <=> p <= Key(row, x) /\ Key(row, x) < top  OBVIOUS
  <2>3. S \subseteq Indices(row)  OBVIOUS
  <2>4. \A x : x \in from <=> x \in S /\ f[x] >= b  OBVIOUS
  <2> HIDE DEF S, f, from, top, v
  <2>5. \A x : x \in From(row, v) \ From(row, top) <=>
                 x \in Indices(row) /\ Key(row, x) >= v /\ ~(Key(row, x) >= top)
    BY DEF From
  <2>6. ASSUME NEW x \in Indices(row)
        PROVE  x \in from <=> Key(row, x) >= v /\ ~(Key(row, x) >= top)
    <3>1. Key(row, x) \in Nat  BY <1>6
    <3>2. x \in from <=> x \in S /\ Key(row, x) >= v  BY <2>1, <2>4
    <3>3. QED  BY <1>3, <1>5, <2>2, <3>1, <3>2
  <2>7. \A x : x \in from => x \in Indices(row)  BY <2>3, <2>4
  <2>8. QED  BY <2>5, <2>6, <2>7
<1>12. \A d \in Buckets : h[d] \in Nat /\ Cardinality(Bucket(row, p, r, d)) \in Nat  BY BucketFact
<1>13. /\ Cardinality(from) <= CountFrom(h, b)
       /\ (\A d \in Buckets : h[d] = Cardinality(Bucket(row, p, r, d)))
            => Cardinality(from) = CountFrom(h, b)
  <2>1. \A d \in Buckets : Cardinality({x \in S : f[x] = d}) <= h[d]  BY <1>10, <1>12
  <2>2. (\A d \in Buckets : h[d] = Cardinality(Bucket(row, p, r, d)))
          => \A d \in Buckets : Cardinality({x \in S : f[x] = d}) = h[d]
    BY <1>10
  <2> HIDE DEF S, f
  <2>3. QED  BY <1>2, <1>7, <1>9, <2>1, <2>2, SuffixSum
<1> HIDE DEF top, v, S, f, from
<1>14. HowMany(row, v) = HowMany(row, top) + Cardinality(from)
  <2>1. From(row, top) \subseteq From(row, v)  BY <1>5, HowManyFact
  <2>2. From(row, v) \cap From(row, top) = From(row, top)  BY <2>1
  <2>3. Cardinality(from) = HowMany(row, v) - HowMany(row, top)
    <3>1. IsFiniteSet(From(row, v))  BY HowManyFact
    <3>2. Cardinality(From(row, v) \ From(row, top))
            = Cardinality(From(row, v)) - Cardinality(From(row, v) \cap From(row, top))
      BY <3>1, FS_Difference
    <3>3. QED  BY <1>11, <2>2, <3>2 DEF HowMany
  <2>4. HowMany(row, v) \in Nat /\ HowMany(row, top) \in Nat  BY HowManyFact
  <2>5. QED  BY <2>3, <2>4
<1>15. HowMany(row, v) \in Nat /\ HowMany(row, top) \in Nat /\ CountFrom(h, b) \in Nat
  BY <1>2, HowManyFact, CountedFact
<1>16. /\ HowMany(row, v) <= HowMany(row, top) + CountFrom(h, b)
       /\ (\A d \in Buckets : h[d] = Cardinality(Bucket(row, p, r, d)))
            => HowMany(row, v) = HowMany(row, top) + CountFrom(h, b)
  <2>1. Cardinality(from) \in Nat
    <3>1. from \in SUBSET From(row, v)  BY <1>11
    <3>2. IsFiniteSet(from)  BY <3>1, HowManyFact, FS_Subset
    <3>3. QED  BY <3>2, FS_CardinalityType
  <2>2. PICK n \in Nat : n = Cardinality(from)  BY <2>1
  <2>3. HowMany(row, v) <= HowMany(row, top) + CountFrom(h, b)
    BY <1>13, <1>14, <1>15, <2>2
  <2>4. QED  BY <1>13, <1>14, <2>3
<1>17. QED  BY <1>5, <1>16 DEF top, v

-----------------------------------------------------------------------------
(* The search: what a prefix of r digits and the number of elements still to *)
(* be found say of a row.                                                  *)

\* No more than K elements lie above the span of the prefix once those still
\* to be found are added, or no more than K lie above the prefix at all.
Bounded(row, p, r, k) ==
  /\ Aligned(p, r)
  /\ HowMany(row, p + Span[r]) + k <= K \/ HowMany(row, p) <= K

\* The elements above the span and those still to be found are K, and the span
\* has enough for them.
Exact(row, p, r, k) ==
  HowMany(row, p + Span[r]) + k = K /\ HowMany(row, p) >= K

\* Before the first round, for a row that is large.
LEMMA SearchStarts ==
  ASSUME NEW row \in Seq(Keys), Large(row)
  PROVE  Bounded(row, 0, 0, K) /\ Exact(row, 0, 0, K)
<1>1. Span[0] \in Nat  BY Spans
<1>2. 0 \in Nat /\ 0 = 0 * Span[0] /\ 0 + Span[0] = Span[0]  BY <1>1
<1>3. Aligned(0, 0)  BY <1>2 DEF Aligned
<1>4. HowMany(row, 0) = Len(row) /\ HowMany(row, 0 + Span[0]) = 0  BY <1>2, HowManyFact
<1>5. Len(row) \in Nat /\ Len(row) > Threshold /\ K \in Nat /\ Threshold \in Nat /\ K <= Threshold
  BY KernelAssumption DEF Large
<1>6. QED  BY <1>3, <1>4, <1>5 DEF Bounded, Exact

\* A round keeps the bound if its histogram counts at least the candidates, and
\* is exact if it counts them exactly.
LEMMA SearchNarrows ==
  ASSUME NEW row \in Seq(Keys), NEW h \in [Buckets -> Nat], NEW r \in 0 .. 3, NEW p, NEW k \in 1 .. K,
         Bounded(row, p, r, k),
         \A d \in Buckets : h[d] >= Cardinality(Bucket(row, p, r, d))
  PROVE  LET q == p + DigitOf(h, k) * Weight[r]
         IN  /\ Bounded(row, q, r + 1, LeftOf(h, k))
             /\ (\A d \in Buckets : h[d] = Cardinality(Bucket(row, p, r, d))) /\ Exact(row, p, r, k)
                  => Exact(row, q, r + 1, LeftOf(h, k))
<1> DEFINE d == DigitOf(h, k)
           q == p + d * Weight[r]
           left == LeftOf(h, k)
           exact == \A b \in Buckets : h[b] = Cardinality(Bucket(row, p, r, b))
<1>1. PICK W \in Nat \ {0} : W = Weight[r] /\ W = Span[r + 1] /\ Span[r] = Radix * W  BY Spans
<1>2. Radix \in Nat \ {0} /\ K \in Nat /\ k \in Nat \ {0}  BY KernelAssumption
<1>3. Aligned(p, r) /\ p \in Nat  BY DigitExists DEF Bounded
<1>4. /\ d \in Buckets
      /\ CountFrom(h, 0) < k => d = 0 /\ left = k
      /\ CountFrom(h, 0) >= k =>
           /\ CountFrom(h, d) >= k /\ CountFrom(h, d + 1) < k
           /\ left = k - CountFrom(h, d + 1)
  BY <1>2, PivotFact
<1> HIDE DEF d, left
<1>5. d \in Nat /\ d \in 0 .. Radix /\ d + 1 \in 0 .. Radix /\ 0 \in 0 .. Radix
  BY <1>2, <1>4 DEF Buckets
<1>6. /\ d * W \in Nat /\ q = p + d * W /\ q \in Nat
      /\ q + Span[r + 1] = p + (d + 1) * W /\ q + W = q + Span[r + 1] /\ p + 0 * W = p
  <2>1. d * W \in Nat /\ (d + 1) * W = d * W + W /\ 0 * W = 0  BY <1>5
  <2>2. PICK x \in Nat : x = d * W  BY <2>1
  <2>3. QED  BY <1>1, <1>3, <2>1, <2>2
<1>7. Aligned(q, r + 1)
  <2>1. PICK u \in Nat : p = u * (Radix * W)  BY <1>1, <1>3 DEF Aligned
  <2>2. u * Radix \in Nat /\ u * (Radix * W) = (u * Radix) * W  BY <1>2
  <2>3. PICK x \in Nat : x = u * Radix  BY <2>2
  <2>4. q = (x + d) * W /\ x + d \in Nat
    <3>1. (x + d) * W = x * W + d * W  BY <1>5
    <3>2. p = x * W  BY <2>1, <2>2, <2>3
    <3>3. QED  BY <1>5, <1>6, <3>1, <3>2
  <2>5. QED  BY <1>1, <2>4 DEF Aligned
<1>8. ASSUME NEW b \in 0 .. Radix
      PROVE  /\ HowMany(row, p + b * W) <= HowMany(row, p + Span[r]) + CountFrom(h, b)
             /\ exact => HowMany(row, p + b * W) = HowMany(row, p + Span[r]) + CountFrom(h, b)
  <2>1. /\ HowMany(row, p + b * Weight[r]) <= HowMany(row, p + Span[r]) + CountFrom(h, b)
        /\ exact => HowMany(row, p + b * Weight[r]) = HowMany(row, p + Span[r]) + CountFrom(h, b)
    BY <1>3, RoundCount
  <2>2. QED  BY <1>1, <2>1
<1>9. PICK top \in Nat, all \in Nat, above \in Nat, now \in Nat :
        /\ top = HowMany(row, p + Span[r]) /\ all = HowMany(row, p)
        /\ above = HowMany(row, q + Span[r + 1]) /\ now = HowMany(row, q)
  BY HowManyFact
<1>10. PICK from0 \in Nat, fromd \in Nat, next \in Nat :
         from0 = CountFrom(h, 0) /\ fromd = CountFrom(h, d) /\ next = CountFrom(h, d + 1)
  <2>1. \A b \in Nat : CountFrom(h, b) \in Nat  BY CountedFact
  <2>2. 0 \in Nat /\ d \in Nat /\ d + 1 \in Nat  BY <1>5
  <2>3. CountFrom(h, 0) \in Nat /\ CountFrom(h, d) \in Nat /\ CountFrom(h, d + 1) \in Nat
    BY <2>1, <2>2
  <2>4. QED  BY <2>3
<1>11. /\ above <= top + next /\ (exact => above = top + next)
       /\ now <= top + fromd /\ (exact => now = top + fromd)
       /\ all <= top + from0 /\ (exact => all = top + from0)
  BY <1>5, <1>6, <1>8, <1>9, <1>10
<1>12. now <= all
  <2>1. p <= q  BY <1>3, <1>6
  <2>2. QED  BY <1>3, <1>6, <1>9, <2>1, HowManyFact
<1>13. top + k <= K \/ all <= K  BY <1>9 DEF Bounded
<1>14. above + left <= K \/ now <= K
  <2>1. CASE from0 < k  BY <1>2, <1>11, <1>12, <1>13, <2>1
  <2>2. CASE from0 >= k
    <3>1. left = k - next /\ next < k  BY <1>4, <1>10, <2>2
    <3>2. QED  BY <1>2, <1>11, <1>12, <1>13, <3>1
  <2>3. QED  BY <1>2, <2>1, <2>2
<1>15. Bounded(row, q, r + 1, left)  BY <1>7, <1>9, <1>14 DEF Bounded
<1>16. ASSUME exact, Exact(row, p, r, k) PROVE Exact(row, q, r + 1, left)
  <2>1. top + k = K /\ all >= K  BY <1>9, <1>16 DEF Exact
  <2>2. from0 >= k  BY <1>2, <1>11, <1>16, <2>1
  <2>3. left = k - next /\ next < k /\ fromd >= k  BY <1>4, <1>10, <2>2
  <2>4. above + left = K /\ now >= K  BY <1>2, <1>11, <1>16, <2>1, <2>3
  <2>5. QED  BY <1>9, <2>4 DEF Exact
<1>17. QED  BY <1>15, <1>16 DEF d, left

\* After the last round the elements above the prefix, the pivot, are at most
\* K; if the rounds were exact, those not below it are at least K.
LEMMA SearchEnds ==
  ASSUME NEW row \in Seq(Keys), NEW p, NEW k \in 1 .. K, Bounded(row, p, 4, k)
  PROVE  /\ p \in Nat /\ HowMany(row, p + 1) <= K
         /\ Exact(row, p, 4, k) => HowMany(row, p) >= K
<1>1. Span[4] = 1 /\ K \in Nat  BY Spans, KernelAssumption
<1>2. PICK u \in Nat : p = u * 1  BY <1>1 DEF Bounded, Aligned
<1>3. p \in Nat /\ p + 1 \in Nat /\ p <= p + 1  BY <1>2
<1>4. HowMany(row, p + 1) \in Nat /\ HowMany(row, p) \in Nat /\ HowMany(row, p + 1) <= HowMany(row, p)
  BY <1>3, HowManyFact
<1>5. HowMany(row, p + 1) + k <= K \/ HowMany(row, p) <= K  BY <1>1 DEF Bounded
<1>6. HowMany(row, p + 1) <= K  BY <1>1, <1>4, <1>5
<1>7. QED  BY <1>1, <1>3, <1>6 DEF Exact

=============================================================================
