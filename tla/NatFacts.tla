------------------------------ MODULE NatFacts ------------------------------
(***************************************************************************)
(* Facts about numbers, and about what Kept keeps of a sequence, that the  *)
(* proofs of several components rest on.                                   *)
(***************************************************************************)
EXTENDS Kept, WellFoundedInduction, TLAPS

\* A nonempty set of natural numbers has a least element: with it "the first
\* one" of the code's scans (strchr, the run of recvwin_slideack) exists.
LEMMA LeastElement ==
    ASSUME NEW T, T \subseteq Nat, T # {}
    PROVE  \E x \in T : \A y \in T : x <= y
<1>1. PICK x \in T : \A y \in T : ~(<<y, x>> \in OpToRel(<, Nat))
  BY NatLessThanWellFounded, WFMin, Zenon
<1>2. \A a, b \in Nat : <<b, a>> \in OpToRel(<, Nat) <=> b < a
  BY Zenon DEF OpToRel
<1>3. ASSUME NEW y \in T PROVE x <= y
  <2>1. ~(y < x)
    BY <1>1, <1>2
  <2> QED
    BY <2>1
<1> QED
  BY <1>3

\* What holds of 0 and, with each number, of the next, holds up to n: the
\* induction that the proofs about recursive definitions use.
LEMMA Upward ==
    ASSUME NEW n \in Nat, NEW T, 0 \in T, \A k \in 1..n : k - 1 \in T => k \in T
    PROVE  0..n \subseteq T
<1> DEFINE B == {k \in 0..n : k \notin T}
<1>1. B \subseteq Nat /\ \A k : k \in B <=> k \in 0..n /\ k \notin T
  OBVIOUS
<1> HIDE DEF B
<1>2. SUFFICES ASSUME B # {} PROVE FALSE
  BY <1>1
<1>3. PICK k \in B : \A y \in B : k <= y
  BY <1>1, <1>2, LeastElement
<1>4. k \in 1..n /\ k - 1 \in 0..n /\ k - 1 \notin B
  BY <1>1, <1>3
<1> QED
  BY <1>1, <1>3, <1>4

\* Going once round a ring of n places.
LEMMA RingIndex ==
    ASSUME NEW n \in Nat \ {0}, NEW x \in 0..(2 * n - 1)
    PROVE  x % n = IF x < n THEN x ELSE x - n
  OBVIOUS

\* Products keep the order of their first factors.
LEMMA ProductOrder ==
    ASSUME NEW a \in Int, NEW b \in Int, NEW n \in Nat, a <= b
    PROVE  a * n <= b * n
  OBVIOUS

\* A product of natural numbers is one.
LEMMA ProductNat ==
    ASSUME NEW a \in Nat, NEW n \in Nat
    PROVE  a * n \in Nat
  OBVIOUS

\* Place b is in the piece of size n that b \div n names, and in no other.
LEMMA PieceOf ==
    ASSUME NEW n \in Nat \ {0}, NEW b \in Nat, NEW k \in Nat
    PROVE  /\ b \div n \in Nat
           /\ b \div n = k <=> b \in (k * n)..(k * n + n - 1)
  OBVIOUS

\* the part of seq in S, of its first 0, 1, ... n members
sifted(seq, S, n) ==
    CHOOSE f : f = [k \in 0..n |->
        IF k = 0 THEN <<>> ELSE IF seq[k] \in S THEN Append(f[k - 1], seq[k]) ELSE f[k - 1]]

\* These exist, so that each is what the recursive definition of kept says.
LEMMA SiftedIs ==
    ASSUME NEW seq, NEW S, NEW n \in Nat
    PROVE  \A k \in 0..n : sifted(seq, S, n)[k] =
              IF k = 0 THEN <<>>
              ELSE IF seq[k] \in S THEN Append(sifted(seq, S, n)[k - 1], seq[k])
                   ELSE sifted(seq, S, n)[k - 1]
<1> DEFINE add(q, k) == IF seq[k] \in S THEN Append(q, seq[k]) ELSE q
           Sifted(m) == \E f : f = [k \in 0..m |-> IF k = 0 THEN <<>> ELSE add(f[k - 1], k)]
           T == {m \in Nat : ~Sifted(m)}
<1> HIDE DEF add
<1>1. Sifted(0)
  <2> DEFINE f == [k \in 0..0 |-> <<>>]
  <2>1. \A k \in 0..0 : k = 0
    OBVIOUS
  <2>2. f = [k \in 0..0 |-> IF k = 0 THEN <<>> ELSE add(f[k - 1], k)]
    BY <2>1, Zenon
  <2> QED
    BY <2>2, Zenon
<1>2. ASSUME NEW m \in Nat, m # 0, Sifted(m - 1) PROVE Sifted(m)
  <2>1. PICK f : f = [k \in 0..(m - 1) |-> IF k = 0 THEN <<>> ELSE add(f[k - 1], k)]
    BY <1>2, Zenon
  <2> DEFINE h == [k \in 0..m |-> IF k = 0 THEN <<>> ELSE add(f[k - 1], k)]
  <2>2. \A k \in 0..(m - 1) : k \in 0..m
    BY <1>2
  <2>3. \A k \in 0..(m - 1) : h[k] = f[k]
    <3>1. \A k \in 0..(m - 1) : f[k] = IF k = 0 THEN <<>> ELSE add(f[k - 1], k)
      BY <2>1, Zenon
    <3> QED
      BY <2>2, <3>1, Zenon
  <2>4. h = [k \in 0..m |-> IF k = 0 THEN <<>> ELSE add(f[k - 1], k)]
    OBVIOUS
  <2> HIDE DEF h
  <2>5. \A k \in 0..m : k # 0 => h[k - 1] = f[k - 1]
    <3>1. \A k \in 0..m : k # 0 => k - 1 \in 0..(m - 1)
      BY <1>2
    <3> QED
      BY <3>1, <2>3
  <2>6. h = [k \in 0..m |-> IF k = 0 THEN <<>> ELSE add(h[k - 1], k)]
    <3>1. \A k \in 0..m : (IF k = 0 THEN <<>> ELSE add(f[k - 1], k))
                        = (IF k = 0 THEN <<>> ELSE add(h[k - 1], k))
      BY <2>5, Zenon
    <3> QED
      BY <3>1, <2>4, Zenon
  <2> QED
    BY <2>6, Zenon
<1>3. T \subseteq Nat /\ (\A m \in Nat : m \in T <=> ~Sifted(m))
  OBVIOUS
<1> HIDE DEF Sifted, T
<1>4. T = {}
  <2>1. SUFFICES ASSUME T # {} PROVE FALSE
    OBVIOUS
  <2>2. PICK m \in T : \A y \in T : m <= y
    BY <1>3, <2>1, LeastElement
  <2>3. m \in Nat /\ m # 0
    BY <1>1, <1>3, <2>2
  <2>4. m - 1 \in Nat /\ m - 1 \notin T
    BY <2>2, <2>3
  <2> QED
    BY <1>2, <1>3, <2>2, <2>3, <2>4
<1>5. Sifted(n)
  BY <1>3, <1>4
<1> DEFINE b == sifted(seq, S, n)
<1>6. b = [k \in 0..n |-> IF k = 0 THEN <<>> ELSE add(b[k - 1], k)]
  BY <1>5, Zenon DEF Sifted, sifted, add
<1> HIDE DEF b
<1>7. \A k \in 0..n : b[k] = IF k = 0 THEN <<>> ELSE add(b[k - 1], k)
  BY <1>6, Zenon
<1> QED
  BY <1>7, Zenon DEF b, add

\* What is kept of a sequence is in S and at most as long, and all of it is
\* kept if all of it is in S.
LEMMA KeptSound ==
    ASSUME NEW X, NEW S, NEW seq \in Seq(X)
    PROVE  /\ kept(seq, S) \in Seq(X \cap S)
           /\ Len(kept(seq, S)) <= Len(seq)
           /\ (\A i \in 1..Len(seq) : seq[i] \in S) => Len(kept(seq, S)) = Len(seq)
<1> DEFINE n == Len(seq)
           b == sifted(seq, S, n)
           Good(k) == /\ b[k] \in Seq(X \cap S) /\ Len(b[k]) <= k
                      /\ (\A i \in 1..n : seq[i] \in S) => Len(b[k]) = k
           T == {k \in 0..n : ~Good(k)}
<1>0. n \in Nat /\ \A i \in 1..n : seq[i] \in X
  OBVIOUS
<1>1. kept(seq, S) = b[n]
  BY DEF kept, sifted
<1>2. \A k \in 0..n : b[k] =
         IF k = 0 THEN <<>> ELSE IF seq[k] \in S THEN Append(b[k - 1], seq[k]) ELSE b[k - 1]
  BY <1>0, SiftedIs
<1> HIDE DEF b
<1>3. Good(0)
  <2>1. b[0] = <<>>
    BY <1>0, <1>2
  <2> QED
    BY <2>1
<1>4. ASSUME NEW k \in 0..n, k # 0, Good(k - 1) PROVE Good(k)
  <2>1. k - 1 \in Nat /\ k \in 1..n /\ seq[k] \in X
    BY <1>0, <1>4
  <2>2. CASE seq[k] \in S
    <3>1. b[k] = Append(b[k - 1], seq[k])
      BY <1>2, <1>4, <2>2
    <3>2. seq[k] \in X \cap S
      BY <2>1, <2>2
    <3>3. b[k] \in Seq(X \cap S) /\ Len(b[k]) = Len(b[k - 1]) + 1 /\ Len(b[k - 1]) \in Nat
      BY <3>1, <3>2, <1>4
    <3> QED
      BY <3>3, <1>4, <2>1
  <2>3. CASE seq[k] \notin S
    <3>1. b[k] = b[k - 1]
      BY <1>2, <1>4, <2>3
    <3>2. Len(b[k - 1]) \in Nat
      BY <1>4
    <3> QED
      BY <3>1, <3>2, <1>4, <2>1, <2>3
  <2> QED
    BY <2>2, <2>3
<1>5. T \subseteq Nat /\ T \subseteq 0..n /\ (\A k \in 0..n : k \in T <=> ~Good(k))
  BY <1>0
<1> HIDE DEF T, Good
<1>6. T = {}
  <2>1. SUFFICES ASSUME T # {} PROVE FALSE
    OBVIOUS
  <2>2. PICK k \in T : \A y \in T : k <= y
    BY <1>5, <2>1, LeastElement
  <2>3. k \in 0..n /\ k # 0
    BY <1>3, <1>5, <2>2
  <2>4. k - 1 \in 0..n /\ k - 1 \notin T
    BY <2>2, <2>3, <1>0
  <2> QED
    BY <1>4, <1>5, <2>2, <2>3, <2>4
<1>7. Good(n)
  BY <1>0, <1>5, <1>6
<1> QED
  BY <1>1, <1>7 DEF Good
=============================================================================
