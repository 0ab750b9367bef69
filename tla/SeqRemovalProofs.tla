------------------------- MODULE SeqRemovalProofs -------------------------
(* Facts about sequences without duplicates and about Without.             *)
EXTENDS SeqRemoval, FiniteSetTheorems, SequenceTheorems, TLAPS

(* The positions kept are finitely many naturals.                          *)
LEMMA KeptFinite ==
    ASSUME NEW T, NEW s \in Seq(T), NEW S
    PROVE  /\ Kept(s, S) \subseteq 1..Len(s)
           /\ IsFiniteSet(Kept(s, S))
           /\ Cardinality(Kept(s, S)) \in Nat
<1>1. DOMAIN s = 1..Len(s) /\ Len(s) \in Nat
  BY LenProperties
<1>2. Kept(s, S) \subseteq 1..Len(s)
  BY <1>1 DEF Kept
<1>3. IsFiniteSet(1..Len(s))
  BY <1>1, FS_Interval
<1> QED BY <1>2, <1>3, FS_Subset, FS_CardinalityType

(* The ranks of the kept positions are exactly 1 .. their number.          *)
LEMMA RankBijective ==
    ASSUME NEW T, NEW s \in Seq(T), NEW S
    PROVE  /\ \A i \in Kept(s, S) : Rank(s, S, i) \in 1..Cardinality(Kept(s, S))
           /\ \A i, j \in Kept(s, S) : i < j => Rank(s, S, i) < Rank(s, S, j)
           /\ \A k \in 1..Cardinality(Kept(s, S)) :
                 \E i \in Kept(s, S) : Rank(s, S, i) = k
<1> DEFINE K == Kept(s, S)
           n == Cardinality(K)
           below(i) == {j \in K : j <= i}
           f == [i \in K |-> Rank(s, S, i)]
<1>1. K \subseteq Nat /\ IsFiniteSet(K) /\ n \in Nat
  BY KeptFinite, LenProperties
<1>2. ASSUME NEW i \in K
      PROVE  /\ IsFiniteSet(below(i))
             /\ Cardinality(below(i)) \in 1..n
             /\ Cardinality(below(i)) \in Nat
  <2>1. below(i) \in SUBSET K /\ i \in below(i)
    BY <1>1
  <2>2. IsFiniteSet(below(i)) /\ Cardinality(below(i)) <= n
    BY <1>1, <2>1, FS_Subset
  <2>3. Cardinality(below(i)) \in Nat /\ Cardinality(below(i)) # 0
    BY <2>1, <2>2, FS_CardinalityType, FS_EmptySet
  <2> QED BY <1>1, <2>2, <2>3
<1>3. ASSUME NEW i \in K, NEW j \in K, i < j
      PROVE  Cardinality(below(i)) < Cardinality(below(j))
  <2>1. below(i) \in SUBSET below(j) /\ j \in below(j) /\ j \notin below(i)
    BY <1>1, <1>3
  <2>2. /\ Cardinality(below(i)) <= Cardinality(below(j))
        /\ Cardinality(below(j)) # Cardinality(below(i))
    BY <1>2, <2>1, FS_Subset
  <2>3. /\ Cardinality(below(i)) \in Nat /\ Cardinality(below(j)) \in Nat
    BY <1>2
  <2> HIDE DEF below
  <2> QED BY <2>2, <2>3
<1>4. \A i \in K : Rank(s, S, i) = Cardinality(below(i))
  BY DEF Rank
<1>5. f \in [K -> 1..n]
  BY <1>2, <1>4
<1>6. \A i, j \in K : f[i] = f[j] => i = j
  <2> SUFFICES ASSUME NEW i \in K, NEW j \in K, i # j
               PROVE  f[i] # f[j]
    OBVIOUS
  <2>a. i \in Nat /\ j \in Nat
    BY <1>1
  <2>b. f[i] = Cardinality(below(i)) /\ f[j] = Cardinality(below(j))
    BY <1>4
  <2>c. Cardinality(below(i)) \in Nat /\ Cardinality(below(j)) \in Nat
    BY <1>2
  <2>1. CASE i < j
    <3>1. Cardinality(below(i)) < Cardinality(below(j))
      BY <1>3, <2>1
    <3> HIDE DEF below, f
    <3> QED BY <2>b, <2>c, <3>1
  <2>2. CASE j < i
    <3>1. Cardinality(below(j)) < Cardinality(below(i))
      BY <1>3, <2>2
    <3> HIDE DEF below, f
    <3> QED BY <2>b, <2>c, <3>1
  <2> QED BY <2>a, <2>1, <2>2
<1>7. f \in Injection(K, 1..n)
  BY <1>5, <1>6 DEF Injection, IsInjective
<1>8. IsFiniteSet(1..n) /\ Cardinality(1..n) = n
  BY <1>1, FS_Interval
<1>9. f \in Surjection(K, 1..n)
  BY <1>7, <1>8, FS_Injection
<1>10. \A k \in 1..n : \E i \in K : f[i] = k
  BY <1>9 DEF Surjection
<1> QED BY <1>2, <1>3, <1>4, <1>10

(* What removing S leaves: a sequence of the other elements, without       *)
(* duplicates if there were none.                                          *)
LEMMA WithoutProperties ==
    ASSUME NEW T, NEW s \in Seq(T), NEW S
    PROVE  /\ Without(s, S) \in Seq(T)
           /\ ToSet(Without(s, S)) = ToSet(s) \ S
           /\ IsInjective(s) => IsInjective(Without(s, S))
<1> DEFINE K == Kept(s, S)
           n == Cardinality(K)
           w == Without(s, S)
           at(k) == CHOOSE i \in K : Rank(s, S, i) = k
<1>1. DOMAIN s = 1..Len(s) /\ \A i \in 1..Len(s) : s[i] \in T
  BY LenProperties
<1>2. n \in Nat /\ K \subseteq 1..Len(s)
  BY KeptFinite
<1>3. \A k \in 1..n : at(k) \in K /\ Rank(s, S, at(k)) = k
  BY RankBijective
<1>4. w = [k \in 1..n |-> s[at(k)]]
  BY DEF Without
<1>5. w \in [1..n -> T]
  BY <1>1, <1>2, <1>3, <1>4
<1>6. w \in Seq(T) /\ DOMAIN w = 1..n
  BY <1>2, <1>5, SeqDef
<1>7. \A i \in K : at(Rank(s, S, i)) = i
  <2> SUFFICES ASSUME NEW i \in K
               PROVE  at(Rank(s, S, i)) = i
    OBVIOUS
  <2> DEFINE j == at(Rank(s, S, i))
  <2>1. Rank(s, S, i) \in 1..n
    BY RankBijective
  <2>2. j \in K /\ Rank(s, S, j) = Rank(s, S, i)
    BY <1>3, <2>1
  <2>3. ~(i < j) /\ ~(j < i)
    BY <1>2, <2>1, <2>2, RankBijective
  <2> HIDE DEF j
  <2>4. i \in Int /\ j \in Int
    BY <1>2, <2>2
  <2>5. i = j
    BY <2>3, <2>4
  <2> QED BY <2>5 DEF j
<1>8. ToSet(w) = {s[i] : i \in K}
  <2>1. ASSUME NEW k \in 1..n PROVE w[k] \in {s[i] : i \in K}
    BY <1>3, <1>4
  <2>2. ASSUME NEW i \in K PROVE \E k \in 1..n : w[k] = s[i]
    <3>1. Rank(s, S, i) \in 1..n /\ at(Rank(s, S, i)) = i
      BY <1>7, RankBijective
    <3>2. w[Rank(s, S, i)] = s[at(Rank(s, S, i))]
      BY <1>4, <3>1
    <3> HIDE DEF at, w
    <3> QED BY <3>1, <3>2
  <2> QED BY <1>6, <2>1, <2>2 DEF ToSet
<1>9. ToSet(w) = ToSet(s) \ S
  BY <1>8 DEF ToSet, Kept
<1>10. ASSUME IsInjective(s) PROVE IsInjective(w)
  <2> SUFFICES ASSUME NEW k \in 1..n, NEW m \in 1..n, w[k] = w[m]
               PROVE  k = m
    BY <1>6 DEF IsInjective
  <2>1. s[at(k)] = s[at(m)]
    BY <1>4
  <2>2. at(k) = at(m)
    BY <1>1, <1>2, <1>3, <1>10, <2>1 DEF IsInjective
  <2> QED BY <1>3, <2>2
<1> QED BY <1>6, <1>9, <1>10

(* A sequence without duplicates has as many positions as elements.        *)
LEMMA InjectiveLength ==
    ASSUME NEW T, NEW s \in Seq(T), IsInjective(s)
    PROVE  /\ IsFiniteSet(ToSet(s))
           /\ Cardinality(ToSet(s)) = Len(s)
<1>1. DOMAIN s = 1..Len(s) /\ Len(s) \in Nat
  BY LenProperties
<1>2. s \in Surjection(1..Len(s), ToSet(s)) /\ s \in Injection(1..Len(s), ToSet(s))
  BY <1>1, LenProperties DEF Surjection, Injection, ToSet
<1>3. IsFiniteSet(1..Len(s)) /\ Cardinality(1..Len(s)) = Len(s)
  BY <1>1, FS_Interval
<1> QED BY <1>2, <1>3, FS_Surjection

(* Taking the head of a sequence without duplicates takes that element.    *)
LEMMA TailElements ==
    ASSUME NEW T, NEW s \in Seq(T), s # <<>>
    PROVE  /\ Head(s) \in T /\ Head(s) \in ToSet(s)
           /\ Tail(s) \in Seq(T)
           /\ ToSet(Tail(s)) \subseteq ToSet(s)
           /\ ToSet(s) = ToSet(Tail(s)) \cup {Head(s)}
           /\ IsInjective(s) => /\ IsInjective(Tail(s))
                                /\ Head(s) \notin ToSet(Tail(s))
<1>1. DOMAIN s = 1..Len(s) /\ Len(s) \in Nat \ {0} /\ Head(s) = s[1]
  BY LenProperties, EmptySeq
<1>2. /\ Head(s) \in T /\ Tail(s) \in Seq(T) /\ Len(Tail(s)) = Len(s) - 1
      /\ \A i \in 1..Len(Tail(s)) : Tail(s)[i] = s[i + 1]
  BY HeadTailProperties
<1>3. DOMAIN Tail(s) = 1..(Len(s) - 1)
  BY <1>2, LenProperties
<1>4. ToSet(Tail(s)) = {s[i] : i \in 2..Len(s)}
  <2>1. ASSUME NEW i \in 2..Len(s) PROVE s[i] \in ToSet(Tail(s))
    <3>1. i - 1 \in DOMAIN Tail(s) /\ Tail(s)[i - 1] = s[i]
      BY <1>1, <1>2, <1>3
    <3> QED BY <3>1 DEF ToSet
  <2>2. ASSUME NEW i \in DOMAIN Tail(s) PROVE Tail(s)[i] \in {s[j] : j \in 2..Len(s)}
    <3>1. i + 1 \in 2..Len(s) /\ Tail(s)[i] = s[i + 1]
      BY <1>1, <1>2, <1>3
    <3> QED BY <3>1
  <2> QED BY <2>1, <2>2 DEF ToSet
<1>5. ToSet(s) = {s[i] : i \in 2..Len(s)} \cup {s[1]}
  <2>1. 1..Len(s) = (2..Len(s)) \cup {1}
    BY <1>1
  <2> QED BY <1>1, <2>1 DEF ToSet
<1>6. ASSUME IsInjective(s)
      PROVE  IsInjective(Tail(s)) /\ Head(s) \notin ToSet(Tail(s))
  <2>1. ASSUME NEW i \in DOMAIN Tail(s), NEW j \in DOMAIN Tail(s),
               Tail(s)[i] = Tail(s)[j]
        PROVE  i = j
    <3>1. /\ i \in Int /\ j \in Int
          /\ i + 1 \in DOMAIN s /\ j + 1 \in DOMAIN s /\ s[i + 1] = s[j + 1]
      BY <1>1, <1>2, <1>3, <2>1
    <3>2. i + 1 = j + 1
      BY <1>6, <3>1 DEF IsInjective
    <3> QED BY <3>1, <3>2
  <2>2. ASSUME NEW i \in 2..Len(s) PROVE s[i] # s[1]
    <3>1. i \in DOMAIN s /\ 1 \in DOMAIN s /\ i # 1
      BY <1>1
    <3> QED BY <1>6, <3>1 DEF IsInjective
  <2> QED BY <1>1, <1>4, <2>1, <2>2 DEF IsInjective
<1> QED BY <1>1, <1>2, <1>4, <1>5, <1>6

(* Appending an element.                                                   *)
LEMMA AppendElements ==
    ASSUME NEW T, NEW s \in Seq(T), NEW x \in T
    PROVE  /\ Append(s, x) \in Seq(T)
           /\ ToSet(Append(s, x)) = ToSet(s) \cup {x}
           /\ IsInjective(s) /\ x \notin ToSet(s) => IsInjective(Append(s, x))
<1> DEFINE t == Append(s, x)
<1>1. /\ DOMAIN s = 1..Len(s) /\ Len(s) \in Nat
      /\ t \in Seq(T) /\ DOMAIN t = 1..(Len(s) + 1)
      /\ t[Len(s) + 1] = x /\ \A i \in 1..Len(s) : t[i] = s[i]
  BY LenProperties
<1> HIDE DEF t
<1>2. ToSet(t) = ToSet(s) \cup {x}
  <2>1. 1..(Len(s) + 1) = (1..Len(s)) \cup {Len(s) + 1}
    BY <1>1
  <2> QED BY <1>1, <2>1 DEF ToSet
<1>3. ASSUME IsInjective(s), x \notin ToSet(s) PROVE IsInjective(t)
  <2> SUFFICES ASSUME NEW i \in DOMAIN t, NEW j \in DOMAIN t, t[i] = t[j]
               PROVE  i = j
    BY DEF IsInjective
  <2>1. CASE i \in 1..Len(s) /\ j \in 1..Len(s)
    BY <1>1, <1>3, <2>1 DEF IsInjective
  <2>2. CASE i = Len(s) + 1 /\ j \in 1..Len(s)
    BY <1>1, <1>3, <2>2 DEF ToSet
  <2>3. CASE j = Len(s) + 1 /\ i \in 1..Len(s)
    BY <1>1, <1>3, <2>3 DEF ToSet
  <2> QED BY <1>1, <2>1, <2>2, <2>3
<1> QED BY <1>1, <1>2, <1>3 DEF t

-----------------------------------------------------------------------------
(* A queue is its first entry and then the rest.                           *)
LEMMA HeadThenTail ==
    ASSUME NEW S, NEW s \in Seq(S), s # <<>>
    PROVE  /\ Head(s) \in S /\ Tail(s) \in Seq(S) /\ <<Head(s)>> \in Seq(S)
           /\ s = <<Head(s)>> \o Tail(s)
<1>1. Head(s) \in S /\ Tail(s) \in Seq(S) /\ <<Head(s)>> \in Seq(S)
  BY HeadTailProperties
<1>2. /\ Len(s) \in Nat \ {0} /\ Len(Tail(s)) = Len(s) - 1
      /\ Len(<<Head(s)>>) = 1
      /\ \A i \in 1..Len(Tail(s)) : Tail(s)[i] = s[i+1]
  BY HeadTailProperties, EmptySeq
<1>3. /\ <<Head(s)>> \o Tail(s) \in Seq(S)
      /\ Len(<<Head(s)>> \o Tail(s)) = Len(s)
      /\ \A i \in 1..Len(s) : (<<Head(s)>> \o Tail(s))[i] =
             IF i <= 1 THEN <<Head(s)>>[i] ELSE Tail(s)[i-1]
  BY <1>1, <1>2, ConcatProperties
<1>4. \A i \in 1..Len(s) : (<<Head(s)>> \o Tail(s))[i] = s[i]
  <2> TAKE i \in 1..Len(s)
  <2>1. CASE i = 1
    BY <1>3, <2>1
  <2>2. CASE i # 1
    <3>1. i - 1 \in 1..Len(Tail(s)) /\ Tail(s)[i-1] = s[(i-1)+1]
      BY <1>2, <2>2
    <3> QED BY <1>2, <1>3, <2>2, <3>1
  <2> QED BY <2>1, <2>2
<1> QED BY <1>1, <1>3, <1>4, SeqEqual

(* An element in front.                                                    *)
LEMMA ConsProperties ==
    ASSUME NEW S, NEW x \in S, NEW s \in Seq(S)
    PROVE  /\ <<x>> \o s \in Seq(S) /\ <<x>> \o s # <<>>
           /\ Head(<<x>> \o s) = x /\ Tail(<<x>> \o s) = s
<1> DEFINE h == <<x>>
           u == h \o s
<1>1. h \in Seq(S) /\ Len(h) = 1 /\ h[1] = x /\ Len(s) \in Nat
  BY LenProperties
<1> HIDE DEF h
<1>2. /\ u \in Seq(S) /\ Len(u) = 1 + Len(s)
      /\ \A i \in 1..(1 + Len(s)) : u[i] = IF i <= 1 THEN h[i] ELSE s[i - 1]
  <2>1. /\ h \o s \in Seq(S) /\ Len(h \o s) = Len(h) + Len(s)
        /\ \A i \in 1..(Len(h) + Len(s)) :
              (h \o s)[i] = IF i <= Len(h) THEN h[i] ELSE s[i - Len(h)]
    BY <1>1, ConcatProperties
  <2> QED BY <1>1, <2>1
<1> HIDE DEF u
<1>3. u # <<>>
  BY <1>1, <1>2, EmptySeq
<1>4. /\ Head(u) = u[1] /\ Tail(u) \in Seq(S) /\ Len(Tail(u)) = Len(s)
      /\ \A i \in 1..Len(s) : Tail(u)[i] = u[i + 1]
  BY <1>1, <1>2, <1>3, HeadTailProperties
<1>5. \A i \in 1..Len(s) : Tail(u)[i] = s[i]
  <2> TAKE i \in 1..Len(s)
  <2>1. i + 1 \in 1..(1 + Len(s)) /\ ~(i + 1 <= 1) /\ (i + 1) - 1 = i
    BY <1>1
  <2> QED BY <1>2, <1>4, <2>1
<1>6. Tail(u) = s
  BY <1>4, <1>5, SeqEqual
<1>7. Head(u) = x
  BY <1>1, <1>2, <1>4
<1> QED BY <1>2, <1>3, <1>6, <1>7 DEF u, h

-----------------------------------------------------------------------------
(* Without on sequences that are built up and taken apart.                 *)

(* What is left is s read at increasing positions, and these are all the   *)
(* positions kept.                                                         *)
Enumerates(f, n, s, S) ==
    /\ f \in [1..n -> Kept(s, S)]
    /\ \A i, j \in 1..n : i < j => f[i] < f[j]
    /\ \A p \in Kept(s, S) : \E k \in 1..n : f[k] = p

(* Without reads s at such positions.                                      *)
LEMMA WithoutEnumeration ==
    ASSUME NEW T, NEW s \in Seq(T), NEW S
    PROVE  \E n \in Nat : \E f :
              Enumerates(f, n, s, S) /\ Without(s, S) = [k \in 1..n |-> s[f[k]]]
<1> DEFINE K == Kept(s, S)
           n == Cardinality(K)
           at(k) == CHOOSE i \in K : Rank(s, S, i) = k
           f == [k \in 1..n |-> at(k)]
<1>1. n \in Nat /\ K \subseteq 1..Len(s) /\ Len(s) \in Nat
  BY KeptFinite, LenProperties
<1>2. \A k \in 1..n : at(k) \in K /\ Rank(s, S, at(k)) = k
  BY RankBijective
<1>3. f \in [1..n -> K]
  BY <1>2
<1>4. \A i, j \in 1..n : i < j => f[i] < f[j]
  <2> SUFFICES ASSUME NEW i \in 1..n, NEW j \in 1..n, i < j
               PROVE  f[i] < f[j]
    OBVIOUS
  <2>1. /\ f[i] \in K /\ f[j] \in K
        /\ Rank(s, S, f[i]) = i /\ Rank(s, S, f[j]) = j
    BY <1>2
  <2> HIDE DEF f, n
  <2>2. ~(f[j] < f[i])
    BY <1>1, <2>1, RankBijective DEF n
  <2>3. f[i] # f[j]
    BY <1>1, <2>1
  <2> QED BY <1>1, <2>1, <2>2, <2>3
<1>5. \A p \in K : \E k \in 1..n : f[k] = p
  <2> SUFFICES ASSUME NEW p \in K PROVE \E k \in 1..n : f[k] = p
    OBVIOUS
  <2> DEFINE k == Rank(s, S, p)
  <2>1. k \in 1..n
    BY RankBijective
  <2>2. at(k) \in K /\ Rank(s, S, at(k)) = Rank(s, S, p)
    BY <1>2, <2>1
  <2> HIDE DEF at, n
  <2>3. ~(at(k) < p) /\ ~(p < at(k))
    <3> HIDE DEF k
    <3>1. Rank(s, S, p) \in Nat
      BY <1>1, <2>1 DEF k
    <3> QED BY <2>2, <3>1, RankBijective
  <2>4. at(k) = p
    <3> HIDE DEF k
    <3> QED BY <1>1, <2>2, <2>3
  <2> QED BY <2>1, <2>4
<1>6. Without(s, S) = [k \in 1..n |-> s[f[k]]]
  BY DEF Without
<1>7. Enumerates(f, n, s, S)
  BY <1>3, <1>4, <1>5 DEF Enumerates
<1> HIDE DEF f, n
<1> QED BY <1>1, <1>6, <1>7

(* And there is only one such reading.                                     *)
LEMMA WithoutIs ==
    ASSUME NEW T, NEW s \in Seq(T), NEW S, NEW n \in Nat, NEW f,
           Enumerates(f, n, s, S)
    PROVE  Without(s, S) = [k \in 1..n |-> s[f[k]]]
<1> DEFINE K == Kept(s, S)
<1>1. K \subseteq 1..Len(s) /\ Len(s) \in Nat /\ IsFiniteSet(K)
  BY KeptFinite, LenProperties
<1>2. /\ f \in [1..n -> K]
      /\ \A i, j \in 1..n : i < j => f[i] < f[j]
      /\ \A p \in K : \E k \in 1..n : f[k] = p
  BY DEF Enumerates
<1> HIDE DEF K
<1>2a. \A k \in 1..n : f[k] \in K
  BY <1>2
<1>2b. \A k \in 1..n : f[k] \in Nat
  <2>1. \A p \in K : p \in Nat
    BY <1>1
  <2> QED BY <1>2a, <2>1
<1>3. \A i, j \in 1..n : f[i] = f[j] => i = j
  <2> SUFFICES ASSUME NEW i \in 1..n, NEW j \in 1..n, f[i] = f[j], i # j
               PROVE  FALSE
    OBVIOUS
  <2>1. f[i] \in Nat /\ ~(f[i] < f[j]) /\ ~(f[j] < f[i])
    BY <1>2b
  <2>2. i < j \/ j < i
    OBVIOUS
  <2> QED BY <1>2, <2>1, <2>2
<1>4. IsFiniteSet(1..n) /\ Cardinality(1..n) = n
  BY FS_Interval
<1>5. ASSUME NEW k \in 1..n
      PROVE  Cardinality({j \in K : j <= f[k]}) = k
  <2> DEFINE B == {j \in K : j <= f[k]}
             g == [i \in 1..k |-> f[i]]
  <2>0. /\ \A i \in 1..k : i \in 1..n /\ (i < k \/ i = k)
        /\ k \in 1..n /\ f[k] \in Nat
    BY <1>2b
  <2>1. g \in [1..k -> B]
    <3> SUFFICES ASSUME NEW i \in 1..k PROVE f[i] \in K /\ f[i] <= f[k]
      OBVIOUS
    <3>1. f[i] \in K /\ f[i] \in Nat
      BY <1>2a, <1>2b, <2>0
    <3> QED BY <1>2, <2>0, <3>1
  <2>2. \A i, j \in 1..k : g[i] = g[j] => i = j
    BY <1>3, <2>0
  <2>3. \A p \in B : \E i \in 1..k : g[i] = p
    <3> SUFFICES ASSUME NEW p \in B PROVE \E i \in 1..k : g[i] = p
      OBVIOUS
    <3>1. PICK i \in 1..n : f[i] = p
      BY <1>2
    <3>2. ~(k < i)
      <4>1. ~(f[k] < f[i])
        BY <1>1, <2>0, <3>1
      <4> QED BY <1>2, <4>1
    <3>3. i \in 1..k
      BY <3>2
    <3> QED BY <3>1, <3>3
  <2>4. g \in Injection(1..k, B) /\ g \in Surjection(1..k, B)
    BY <2>1, <2>2, <2>3 DEF Injection, IsInjective, Surjection
  <2>5. IsFiniteSet(1..k) /\ Cardinality(1..k) = k
    BY FS_Interval
  <2> HIDE DEF g, B
  <2>6. Cardinality(B) = k
    BY <2>4, <2>5, FS_Surjection
  <2> QED BY <2>6 DEF B
<1>6. \A k \in 1..n : Rank(s, S, f[k]) = k
  BY <1>5 DEF Rank, K
<1>7. Cardinality(K) = n
  <2>1. f \in Injection(1..n, K) /\ f \in Surjection(1..n, K)
    BY <1>2, <1>3 DEF Injection, IsInjective, Surjection
  <2> QED BY <1>4, <2>1, FS_Surjection
<1> DEFINE at(k) == CHOOSE i \in Kept(s, S) : Rank(s, S, i) = k
<1>8. ASSUME NEW k \in 1..n
      PROVE  at(k) = f[k]
  <2> DEFINE c == at(k)
  <2>1. f[k] \in Kept(s, S) /\ Rank(s, S, f[k]) = k
    BY <1>2a, <1>6 DEF K
  <2>2. c \in Kept(s, S) /\ Rank(s, S, c) = k
    BY <2>1
  <2>2a. c \in K
    BY <2>2 DEF K
  <2> HIDE DEF c
  <2>3. PICK j \in 1..n : f[j] = c
    BY <1>2, <2>2a
  <2>4. j = k
    BY <1>6, <2>2, <2>3
  <2> QED BY <2>3, <2>4 DEF c
<1>9. Without(s, S) = [k \in 1..Cardinality(Kept(s, S)) |-> s[at(k)]]
  BY DEF Without
<1>10. Cardinality(Kept(s, S)) = n
  BY <1>7 DEF K
<1> HIDE DEF at
<1> QED BY <1>8, <1>9, <1>10

(* A part of the sequence at a time.                                       *)
LEMMA WithoutCat ==
    ASSUME NEW T, NEW s \in Seq(T), NEW t \in Seq(T), NEW S
    PROVE  Without(s \o t, S) = Without(s, S) \o Without(t, S)
<1>01. PICK n \in Nat : \E f :
         Enumerates(f, n, s, S) /\ Without(s, S) = [k \in 1..n |-> s[f[k]]]
  BY WithoutEnumeration
<1>1. PICK f :
         Enumerates(f, n, s, S) /\ Without(s, S) = [k \in 1..n |-> s[f[k]]]
  BY <1>01
<1>02. PICK m \in Nat : \E g :
         Enumerates(g, m, t, S) /\ Without(t, S) = [k \in 1..m |-> t[g[k]]]
  BY WithoutEnumeration
<1>2. PICK g :
         Enumerates(g, m, t, S) /\ Without(t, S) = [k \in 1..m |-> t[g[k]]]
  BY <1>02
<1> DEFINE u == s \o t
           L == Len(s)
           h == [k \in 1..(n + m) |-> IF k <= n THEN f[k] ELSE L + g[k - n]]
<1>3. /\ u \in Seq(T) /\ L \in Nat /\ Len(t) \in Nat /\ Len(u) = L + Len(t)
      /\ \A i \in 1..(L + Len(t)) : u[i] = IF i <= L THEN s[i] ELSE t[i - L]
      /\ DOMAIN u = 1..(L + Len(t)) /\ DOMAIN s = 1..L /\ DOMAIN t = 1..Len(t)
  BY ConcatProperties, LenProperties
<1> HIDE DEF u, L
<1>4. /\ f \in [1..n -> Kept(s, S)] /\ g \in [1..m -> Kept(t, S)]
      /\ \A i, j \in 1..n : i < j => f[i] < f[j]
      /\ \A i, j \in 1..m : i < j => g[i] < g[j]
      /\ \A p \in Kept(s, S) : \E k \in 1..n : f[k] = p
      /\ \A p \in Kept(t, S) : \E k \in 1..m : g[k] = p
  BY <1>1, <1>2 DEF Enumerates
<1>5. \A p : p \in Kept(s, S) <=> p \in 1..L /\ p \in Kept(u, S)
  BY <1>3 DEF Kept
<1>6. \A p \in 1..Len(t) : p \in Kept(t, S) <=> (L + p) \in Kept(u, S)
  <2> TAKE p \in 1..Len(t)
  <2>1. L + p \in 1..(L + Len(t)) /\ ~(L + p <= L) /\ (L + p) - L = p
    BY <1>3
  <2>2. u[L + p] = t[p]
    BY <1>3, <2>1
  <2> QED BY <1>3, <2>1, <2>2 DEF Kept
<1>7. Kept(s, S) \subseteq 1..L /\ Kept(t, S) \subseteq 1..Len(t)
      /\ Kept(u, S) \subseteq 1..(L + Len(t))
  BY <1>3 DEF Kept
<1>8. \A k \in 1..n : k \in 1..(n + m) /\ h[k] = f[k] /\ f[k] \in 1..L
  BY <1>4, <1>7
<1>9. \A k \in 1..m : /\ n + k \in 1..(n + m) /\ h[n + k] = L + g[k]
                      /\ g[k] \in 1..Len(t)
  <2> TAKE k \in 1..m
  <2>1. n + k \in 1..(n + m) /\ ~(n + k <= n) /\ (n + k) - n = k
    OBVIOUS
  <2>2. h[n + k] = L + g[(n + k) - n]
    BY <2>1
  <2> QED BY <1>4, <1>7, <2>1, <2>2
<1>10. \A k \in 1..(n + m) : k \in 1..n \/ \E i \in 1..m : k = n + i
  <2> TAKE k \in 1..(n + m)
  <2>1. CASE k <= n
    BY <2>1
  <2>2. CASE ~(k <= n)
    <3>1. k - n \in 1..m /\ k = n + (k - n)
      BY <2>2
    <3> QED BY <3>1
  <2> QED BY <2>1, <2>2
<1>11. h \in [1..(n + m) -> Kept(u, S)]
  <2>1. \A k \in 1..n : f[k] \in Kept(u, S)
    BY <1>4, <1>5
  <2>2. \A k \in 1..m : L + g[k] \in Kept(u, S)
    BY <1>4, <1>6, <1>9
  <2>3. ASSUME NEW k \in 1..(n + m) PROVE h[k] \in Kept(u, S)
    <3> HIDE DEF h
    <3> QED BY <1>8, <1>9, <1>10, <2>1, <2>2
  <2> QED BY <2>3
<1> HIDE DEF h
<1>12. \A i, j \in 1..(n + m) : i < j => h[i] < h[j]
  <2> SUFFICES ASSUME NEW i \in 1..(n + m), NEW j \in 1..(n + m), i < j
               PROVE  h[i] < h[j]
    OBVIOUS
  <2>1. CASE j \in 1..n
    <3>1. i \in 1..n
      BY <2>1
    <3> QED BY <1>4, <1>8, <2>1, <3>1
  <2>2. CASE i \in 1..n /\ \E b \in 1..m : j = n + b
    <3>1. PICK b \in 1..m : j = n + b
      BY <2>2
    <3>2. h[i] \in 1..L /\ h[j] = L + g[b] /\ g[b] \in 1..Len(t)
      BY <1>8, <1>9, <2>2, <3>1
    <3> QED BY <1>3, <3>2
  <2>3. CASE \E a, b \in 1..m : i = n + a /\ j = n + b
    <3>1. PICK a \in 1..m, b \in 1..m : i = n + a /\ j = n + b
      BY <2>3
    <3>2. a < b
      BY <3>1
    <3>3. g[a] < g[b] /\ g[a] \in 1..Len(t) /\ g[b] \in 1..Len(t)
      BY <1>4, <1>9, <3>2
    <3>4. h[i] = L + g[a] /\ h[j] = L + g[b]
      BY <1>9, <3>1
    <3> QED BY <1>3, <3>3, <3>4
  <2> QED BY <1>10, <2>1, <2>2, <2>3
<1>13. \A p \in Kept(u, S) : \E k \in 1..(n + m) : h[k] = p
  <2> SUFFICES ASSUME NEW p \in Kept(u, S) PROVE \E k \in 1..(n + m) : h[k] = p
    OBVIOUS
  <2>1. p \in 1..(L + Len(t))
    BY <1>7
  <2>2. CASE p <= L
    <3>1. p \in Kept(s, S)
      BY <1>3, <1>5, <2>1, <2>2
    <3> QED BY <1>4, <1>8, <3>1
  <2>3. CASE ~(p <= L)
    <3>1. p - L \in 1..Len(t) /\ L + (p - L) = p
      BY <1>3, <2>1, <2>3
    <3>2. p - L \in Kept(t, S)
      BY <1>6, <3>1
    <3>3. PICK k \in 1..m : g[k] = p - L
      BY <1>4, <3>2
    <3>4. h[n + k] = p /\ n + k \in 1..(n + m)
      BY <1>9, <3>1, <3>3
    <3> QED BY <3>4
  <2> QED BY <2>2, <2>3
<1>14. Without(u, S) = [k \in 1..(n + m) |-> u[h[k]]]
  <2>1. Enumerates(h, n + m, u, S)
    BY <1>11, <1>12, <1>13 DEF Enumerates
  <2>2. n + m \in Nat
    OBVIOUS
  <2> QED BY <1>3, <2>1, <2>2, WithoutIs
<1> DEFINE a == Without(s, S)
           b == Without(t, S)
           w == Without(u, S)
<1>15. a \in Seq(T) /\ b \in Seq(T) /\ w \in Seq(T)
  BY <1>3, WithoutProperties
<1>16. a = [k \in 1..n |-> s[f[k]]] /\ b = [k \in 1..m |-> t[g[k]]]
       /\ w = [k \in 1..(n + m) |-> u[h[k]]]
  BY <1>1, <1>2, <1>14
<1> HIDE DEF a, b, w
<1>17. Len(a) = n /\ Len(b) = m /\ Len(w) = n + m
  BY <1>15, <1>16, LenProperties
<1>18. /\ a \o b \in Seq(T) /\ Len(a \o b) = n + m
       /\ \A i \in 1..(n + m) : (a \o b)[i] = IF i <= n THEN a[i] ELSE b[i - n]
  BY <1>15, <1>17, ConcatProperties
<1>19. \A k \in 1..(n + m) : w[k] = (a \o b)[k]
  <2> TAKE k \in 1..(n + m)
  <2>1. CASE k \in 1..n
    <3>1. w[k] = u[f[k]] /\ f[k] \in 1..L /\ a[k] = s[f[k]]
      BY <1>8, <1>16, <2>1
    <3>2. u[f[k]] = s[f[k]]
      BY <1>3, <3>1
    <3> QED BY <1>18, <2>1, <3>1, <3>2
  <2>2. CASE \E i \in 1..m : k = n + i
    <3>1. PICK i \in 1..m : k = n + i
      BY <2>2
    <3>2. w[k] = u[L + g[i]] /\ g[i] \in 1..Len(t) /\ b[i] = t[g[i]]
      BY <1>9, <1>16, <3>1
    <3>3. /\ L + g[i] \in 1..(L + Len(t)) /\ ~(L + g[i] <= L)
          /\ (L + g[i]) - L = g[i]
      BY <1>3, <3>2
    <3>4. u[L + g[i]] = t[g[i]]
      BY <1>3, <3>3
    <3>5. ~(k <= n) /\ k - n = i
      BY <3>1
    <3>6. (a \o b)[k] = b[i]
      BY <1>18, <3>5
    <3> QED BY <3>2, <3>4, <3>6
  <2> QED BY <1>10, <2>1, <2>2
<1>20. w = a \o b
  BY <1>15, <1>17, <1>18, <1>19, SeqEqual
<1> QED BY <1>20 DEF a, b, w, u

(* Nothing to remove.                                                      *)
LEMMA WithoutNothing ==
    ASSUME NEW T, NEW s \in Seq(T), NEW S, \A i \in 1..Len(s) : s[i] \notin S
    PROVE  Without(s, S) = s
<1> DEFINE n == Len(s)
           f == [k \in 1..n |-> k]
<1>1. n \in Nat /\ DOMAIN s = 1..n /\ s = [k \in 1..n |-> s[k]]
  BY LenProperties
<1>2. Kept(s, S) = 1..n
  BY <1>1 DEF Kept
<1>3. Enumerates(f, n, s, S)
  BY <1>2 DEF Enumerates
<1>4. n \in Nat /\ \A k \in 1..n : f[k] = k
  BY <1>1
<1> HIDE DEF f, n
<1>5. Without(s, S) = [k \in 1..n |-> s[f[k]]]
  BY <1>3, <1>4, WithoutIs
<1> QED BY <1>1, <1>4, <1>5

(* Everything removed.                                                     *)
LEMMA WithoutAll ==
    ASSUME NEW T, NEW s \in Seq(T), NEW S, \A i \in 1..Len(s) : s[i] \in S
    PROVE  Without(s, S) = <<>>
<1> DEFINE f == <<>>
<1>1. Kept(s, S) = {}
  BY LenProperties DEF Kept
<1>2. Enumerates(f, 0, s, S)
  BY <1>1 DEF Enumerates
<1>3. 0 \in Nat
  OBVIOUS
<1> HIDE DEF f
<1>4. Without(s, S) = [k \in 1..0 |-> s[f[k]]]
  BY <1>2, <1>3, WithoutIs
<1> QED BY <1>4

(* The first element, and the rest.                                        *)
LEMMA WithoutTail ==
    ASSUME NEW T, NEW s \in Seq(T), NEW S, s # <<>>
    PROVE  /\ Head(s) \in S => Without(s, S) = Without(Tail(s), S)
           /\ Head(s) \notin S =>
                 /\ Without(s, S) # <<>>
                 /\ Head(Without(s, S)) = Head(s)
                 /\ Tail(Without(s, S)) = Without(Tail(s), S)
<1> DEFINE h == <<Head(s)>>
           t == Tail(s)
           w == Without(t, S)
<1>1. h \in Seq(T) /\ t \in Seq(T) /\ Len(h) = 1 /\ h[1] = Head(s)
  BY HeadTailProperties
<1>2. s = h \o t
  BY HeadThenTail
<1>3. w \in Seq(T)
  BY <1>1, WithoutProperties
<1> HIDE DEF t, h
<1>4. Without(s, S) = Without(h, S) \o w
  BY <1>1, <1>2, WithoutCat
<1>5. CASE Head(s) \in S
  <2>1. Without(h, S) = <<>>
    BY <1>1, <1>5, WithoutAll
  <2> HIDE DEF w
  <2>2. Without(s, S) = w
    BY <1>3, <1>4, <2>1, ConcatEmptySeq
  <2> QED BY <1>5, <2>2 DEF w, t
<1>6. CASE Head(s) \notin S
  <2>1. Without(h, S) = h
    BY <1>1, <1>6, WithoutNothing
  <2> HIDE DEF w
  <2>2. Without(s, S) = <<Head(s)>> \o w
    BY <1>4, <2>1 DEF h
  <2>3. Head(s) \in T
    BY HeadTailProperties
  <2>4. /\ <<Head(s)>> \o w # <<>> /\ Head(<<Head(s)>> \o w) = Head(s)
        /\ Tail(<<Head(s)>> \o w) = w
    BY <1>3, <2>3, ConsProperties
  <2> QED BY <1>6, <2>2, <2>4 DEF w, t
<1> QED BY <1>5, <1>6

(* One element.                                                            *)
LEMMA WithoutSingle ==
    ASSUME NEW T, NEW x \in T, NEW S
    PROVE  Without(<<x>>, S) = IF x \in S THEN <<>> ELSE <<x>>
<1> DEFINE l == <<x>>
<1>1. l \in Seq(T) /\ \A i \in 1..Len(l) : l[i] = x
  OBVIOUS
<1> HIDE DEF l
<1>2. ASSUME x \in S PROVE Without(l, S) = <<>>
  BY <1>1, <1>2, WithoutAll
<1>3. ASSUME x \notin S PROVE Without(l, S) = l
  BY <1>1, <1>3, WithoutNothing
<1>4. Without(l, S) = IF x \in S THEN <<>> ELSE l
  BY <1>2, <1>3
<1> QED BY <1>4 DEF l

(* One element more.                                                       *)
LEMMA WithoutMore ==
    ASSUME NEW T, NEW s \in Seq(T), NEW x \in T, NEW S
    PROVE  Without(s \o <<x>>, S) =
              IF x \in S THEN Without(s, S) ELSE Without(s, S) \o <<x>>
<1> DEFINE l == <<x>>
           w == Without(s, S)
<1>1. l \in Seq(T)
  OBVIOUS
<1>2. Without(l, S) = IF x \in S THEN <<>> ELSE l
  BY WithoutSingle
<1>3. w \in Seq(T)
  BY WithoutProperties
<1> HIDE DEF l
<1>4. Without(s \o l, S) = w \o Without(l, S)
  BY <1>1, WithoutCat
<1> HIDE DEF w
<1>5. w \o <<>> = w
  BY <1>3, ConcatEmptySeq
<1>6. Without(s \o l, S) = IF x \in S THEN w ELSE w \o l
  BY <1>2, <1>4, <1>5
<1> QED BY <1>6 DEF l, w
=============================================================================
