------------------------- MODULE SubsequencesProofs -------------------------
(* What Kept returns, for every sequence and every set, and what the other *)
(* operators on lists do to the set of a list's elements.                  *)
EXTENDS Subsequences, SequencesExt, SequenceTheorems, WellFoundedInduction, TLAPS

\* The recursion of Kept over the first n elements.
KeptUpTo(q, S, n, f) ==
  f = [i \in 0..n |-> IF i = 0 THEN <<>>
                      ELSE IF q[i] \in S THEN Append(f[i - 1], q[i])
                      ELSE f[i - 1]]

Solvable(q, S, n) == \E f : KeptUpTo(q, S, n, f)

\* The least natural number of a set, by which the proofs below go by induction.
LEMMA LeastNumber ==
  ASSUME NEW T, T \subseteq Nat, T # {}
  PROVE  \E m \in T : \A k \in T : m <= k
<1>1. PICK m \in T : \A k \in T : ~(<<k, m>> \in OpToRel(<, Nat))
  BY NatLessThanWellFounded, WFMin
<1>2. \A k \in T : k \in Nat /\ m \in Nat /\ ~(k < m)
  BY <1>1 DEF OpToRel
<1>. QED  BY <1>2

\* The recursion has a solution.
LEMMA KeptExists ==
  ASSUME NEW S, NEW q \in Seq(S), NEW P, NEW n \in 0..Len(q)
  PROVE  Solvable(q, P, n)
<1>. DEFINE Bad == {i \in 0..Len(q) : ~Solvable(q, P, i)}
<1>0. Len(q) \in Nat
  BY LenProperties
<1>1. SUFFICES ASSUME Bad # {} PROVE FALSE
  OBVIOUS
<1>2. PICK m \in Bad : \A k \in Bad : m <= k
  <2>1. Bad \subseteq Nat
    BY <1>0
  <2>. HIDE DEF Bad
  <2>. QED  BY <1>1, <2>1, LeastNumber
<1>3. m \in 0..Len(q) /\ m \in Nat
  BY <1>0
<1>4. m # 0
  <2>1. KeptUpTo(q, P, 0, [i \in 0..0 |-> <<>>])
    BY DEF KeptUpTo
  <2>. QED  BY <2>1 DEF Solvable
<1>5. PICK f : KeptUpTo(q, P, m - 1, f)
  <2>1. m - 1 \in 0..Len(q) /\ ~(m <= m - 1)
    BY <1>0, <1>3, <1>4
  <2>2. m - 1 \notin Bad
    BY <1>2, <2>1
  <2>. QED  BY <2>1, <2>2 DEF Solvable
<1>6. PICK g : g = [i \in 0..m |-> IF i = m THEN (IF q[m] \in P THEN Append(f[m - 1], q[m]) ELSE f[m - 1])
                                   ELSE f[i]]
  OBVIOUS
<1>7. \A i \in 0..m : i < m => g[i] = f[i]
  BY <1>3, <1>6
<1>8. \A i \in 0..m : i # 0 => g[i - 1] = f[i - 1]
  BY <1>3, <1>6
<1>9. \A i \in 0..m : g[i] = IF i = 0 THEN <<>> ELSE IF q[i] \in P THEN Append(g[i - 1], q[i]) ELSE g[i - 1]
  <2>. TAKE i \in 0..m
  <2>1. CASE i = m
    BY <1>4, <1>6, <1>8, <2>1
  <2>2. CASE i # m
    <3>1. i \in 0..(m - 1)
      BY <1>3, <2>2
    <3>2. f[i] = IF i = 0 THEN <<>> ELSE IF q[i] \in P THEN Append(f[i - 1], q[i]) ELSE f[i - 1]
      BY <1>5, <3>1 DEF KeptUpTo
    <3>. QED  BY <1>6, <1>8, <2>2, <3>2
  <2>. QED  BY <2>1, <2>2
<1>10. KeptUpTo(q, P, m, g)
  <2>1. g = [i \in 0..m |-> g[i]]
    BY <1>6
  <2>. QED  BY <1>9, <2>1 DEF KeptUpTo
<1>. QED  BY <1>10 DEF Solvable

\* What is kept of a list: the elements of the set, no others, each as often as before.
LEMMA KeptElements ==
  ASSUME NEW S, NEW q \in Seq(S), NEW P
  PROVE  /\ Kept(q, P) \in Seq(S)
         /\ \A x \in S : (\E i \in DOMAIN Kept(q, P) : Kept(q, P)[i] = x)
                           <=> x \in P /\ \E i \in DOMAIN q : q[i] = x
         /\ (\A i, j \in DOMAIN q : q[i] = q[j] => i = j)
              => \A i, j \in DOMAIN Kept(q, P) : Kept(q, P)[i] = Kept(q, P)[j] => i = j
<1>0. Len(q) \in Nat /\ DOMAIN q = 1..Len(q) /\ \A i \in 1..Len(q) : q[i] \in S
  BY LenProperties, ElementOfSeq
<1>1. PICK f : KeptUpTo(q, P, Len(q), f) /\ Kept(q, P) = f[Len(q)]
  <2>0. Len(q) \in 0..Len(q)
    BY <1>0
  <2>1. \E f : KeptUpTo(q, P, Len(q), f)
    BY <1>0, <2>0, KeptExists DEF Solvable
  <2>2. Kept(q, P) = (CHOOSE f : KeptUpTo(q, P, Len(q), f))[Len(q)]
    BY DEF Kept, KeptUpTo
  <2>. QED  BY <2>1, <2>2
<1>2. \A i \in 0..Len(q) : f[i] = IF i = 0 THEN <<>> ELSE IF q[i] \in P THEN Append(f[i - 1], q[i]) ELSE f[i - 1]
  BY <1>1 DEF KeptUpTo
<1>. DEFINE Good(n) ==
       /\ f[n] \in Seq(S)
       /\ \A x \in S : (\E i \in DOMAIN f[n] : f[n][i] = x) <=> x \in P /\ \E i \in 1..n : q[i] = x
       /\ (\A i, j \in DOMAIN q : q[i] = q[j] => i = j)
            => \A i, j \in DOMAIN f[n] : f[n][i] = f[n][j] => i = j
<1>3. Good(0)
  <2>1. f[0] = <<>>
    BY <1>0, <1>2
  <2>. QED  BY <2>1, EmptySeq
<1>4. ASSUME NEW n \in 1..Len(q), Good(n - 1) PROVE Good(n)
  <2>0. n \in Nat /\ n - 1 \in Nat /\ n # 0 /\ n \in 0..Len(q) /\ q[n] \in S
    BY <1>0
  <2>a. \A x : (\E i \in 1..n : q[i] = x) <=> (\E i \in 1..(n - 1) : q[i] = x) \/ q[n] = x
    BY <2>0
  <2>1. CASE q[n] \notin P
    <3>1. f[n] = f[n - 1]
      BY <1>2, <2>0, <2>1
    <3>2. \A x \in S : (\E i \in DOMAIN f[n] : f[n][i] = x) <=> x \in P /\ \E i \in 1..n : q[i] = x
      <4>. TAKE x \in S
      <4>1. (\E i \in DOMAIN f[n] : f[n][i] = x) <=> x \in P /\ \E i \in 1..(n - 1) : q[i] = x
        BY <1>4, <3>1
      <4>2. x \in P => ((\E i \in 1..(n - 1) : q[i] = x) <=> \E i \in 1..n : q[i] = x)
        BY <2>1, <2>a
      <4>. QED  BY <4>1, <4>2
    <3>. QED  BY <1>4, <3>1, <3>2
  <2>2. CASE q[n] \in P
    <3>1. f[n] = Append(f[n - 1], q[n])
      BY <1>2, <2>0, <2>2
    <3>2. PICK s \in Seq(S) : s = f[n - 1]
      BY <1>4
    <3>3. PICK t : t = Append(s, q[n])
      OBVIOUS
    <3>4. /\ t \in Seq(S) /\ Len(t) = Len(s) + 1 /\ Len(s) \in Nat
          /\ \A i \in 1..Len(s) : t[i] = s[i]
          /\ t[Len(s) + 1] = q[n]
          /\ DOMAIN t = 1..(Len(s) + 1) /\ DOMAIN s = 1..Len(s)
      BY <2>0, <3>3, AppendProperties, LenProperties
    <3>5. \A x : (\E i \in DOMAIN t : t[i] = x) <=> (\E i \in DOMAIN s : s[i] = x) \/ q[n] = x
      <4>1. PICK l \in Nat : l = Len(s)
        BY <3>4
      <4>2. 1..(l + 1) = 1..l \cup {l + 1}
        BY ONLY l \in Nat
      <4>3. /\ \A i \in 1..l : t[i] = s[i]
            /\ t[l + 1] = q[n] /\ DOMAIN t = 1..(l + 1) /\ DOMAIN s = 1..l
        BY ONLY <3>4, <4>1
      <4>. TAKE x
      <4>4. (\E i \in DOMAIN t : t[i] = x) <=> (\E i \in 1..l : t[i] = x) \/ t[l + 1] = x
        BY ONLY <4>2, <4>3
      <4>. QED  BY ONLY <4>3, <4>4
    <3>6. \A x \in S : (\E i \in DOMAIN t : t[i] = x) <=> x \in P /\ \E i \in 1..n : q[i] = x
      <4>. TAKE x \in S
      <4>1. (\E i \in DOMAIN s : s[i] = x) <=> x \in P /\ \E i \in 1..(n - 1) : q[i] = x
        BY <1>4, <3>2
      <4>2. (\E i \in 1..n : q[i] = x) <=> (\E i \in 1..(n - 1) : q[i] = x) \/ q[n] = x
        BY ONLY <2>a
      <4>3. (\E i \in DOMAIN t : t[i] = x) <=> (\E i \in DOMAIN s : s[i] = x) \/ q[n] = x
        BY ONLY <3>5
      <4>. QED  BY ONLY <2>2, <4>1, <4>2, <4>3
    <3>7. ASSUME \A i, j \in DOMAIN q : q[i] = q[j] => i = j, NEW i \in DOMAIN t, NEW j \in DOMAIN t, t[i] = t[j]
          PROVE  i = j
      <4>1. \A k \in DOMAIN s : s[k] # q[n]
        <5>1. \A k \in 1..(n - 1) : q[k] # q[n]
          BY <1>0, <2>0, <3>7
        <5>2. ~ \E k \in DOMAIN s : s[k] = q[n]
          BY <1>4, <2>0, <3>2, <5>1
        <5>. QED  BY <5>2
      <4>2. \A k, l \in DOMAIN s : s[k] = s[l] => k = l
        BY <1>4, <3>2, <3>7
      <4>. QED  BY <3>4, <3>7, <4>1, <4>2
    <3>8. t = f[n]
      BY <3>1, <3>2, <3>3
    <3>. QED  BY <3>4, <3>6, <3>7, <3>8
  <2>. QED  BY <2>1, <2>2
<1>5. \A n \in 0..Len(q) : Good(n)
  <2>. DEFINE Bad == {n \in 0..Len(q) : ~Good(n)}
  <2>. HIDE DEF Good
  <2>1. SUFFICES ASSUME Bad # {} PROVE FALSE
    OBVIOUS
  <2>2. PICK m \in Bad : \A k \in Bad : m <= k
    <3>1. Bad \subseteq Nat
      BY <1>0
    <3>. HIDE DEF Bad
    <3>. QED  BY <2>1, <3>1, LeastNumber
  <2>3. m \in 0..Len(q) /\ ~Good(m) /\ m # 0
    BY <1>3
  <2>4. m \in 1..Len(q) /\ m - 1 \in 0..Len(q) /\ ~(m <= m - 1)
    BY <1>0, <2>3
  <2>5. Good(m - 1)
    BY <2>2, <2>4
  <2>. QED  BY <1>4, <2>3, <2>4, <2>5
<1>6. Good(Len(q))
  <2>. HIDE DEF Good
  <2>. QED  BY <1>0, <1>5
<1>. QED  BY <1>0, <1>1, <1>6

-----------------------------------------------------------------------------
(* Lists and their elements *)

\* The elements of a list.
LEMMA ListElements ==
  ASSUME NEW S, NEW s \in Seq(S)
  PROVE  /\ Len(s) \in Nat /\ DOMAIN s = 1..Len(s)
         /\ ToSet(s) \subseteq S
         /\ \A x : x \in ToSet(s) <=> \E k \in 1..Len(s) : s[k] = x
         /\ s = <<>> <=> ToSet(s) = {}
<1>1. Len(s) \in Nat /\ DOMAIN s = 1..Len(s) /\ \A k \in 1..Len(s) : s[k] \in S
  BY LenProperties, ElementOfSeq
<1>2. s # <<>> => 1 \in 1..Len(s)
  BY <1>1, EmptySeq
<1>3. s = <<>> => Len(s) = 0
  BY EmptySeq
<1>4. ToSet(s) = {s[k] : k \in 1..Len(s)}
  BY <1>1 DEF ToSet
<1>5. \A x : x \in ToSet(s) <=> \E k \in 1..Len(s) : s[k] = x
  BY ONLY <1>4
<1>6. ToSet(s) \subseteq S
  BY ONLY <1>1, <1>5
<1>7. s = <<>> <=> ToSet(s) = {}
  <2>1. CASE s = <<>>
    BY ONLY <1>1, <1>3, <1>5, <2>1
  <2>2. CASE s # <<>>
    BY ONLY <1>2, <1>5, <2>2
  <2>. QED  BY <2>1, <2>2
<1>. QED  BY ONLY <1>1, <1>5, <1>6, <1>7

\* A list that is appended to has one element more.
LEMMA ListGrows ==
  ASSUME NEW S, NEW s \in Seq(S), NEW x \in S
  PROVE  /\ Append(s, x) \in Seq(S) /\ Append(s, x) # <<>>
         /\ Len(Append(s, x)) = Len(s) + 1 /\ Append(s, x)[Len(s) + 1] = x
         /\ \A k \in 1..Len(s) : Append(s, x)[k] = s[k]
         /\ ToSet(Append(s, x)) = ToSet(s) \cup {x}
         /\ IsInjective(s) /\ x \notin ToSet(s) => IsInjective(Append(s, x))
         /\ s # <<>> => Head(Append(s, x)) = Head(s)
         /\ s = <<>> => Head(Append(s, x)) = x
<1>. DEFINE t == Append(s, x)
<1>1. /\ t \in Seq(S) /\ t # <<>> /\ Len(t) = Len(s) + 1 /\ t[Len(s) + 1] = x
      /\ \A k \in 1..Len(s) : t[k] = s[k]
  BY AppendProperties
<1>2. Len(s) \in Nat /\ DOMAIN s = 1..Len(s) /\ \A y : y \in ToSet(s) <=> \E k \in 1..Len(s) : s[k] = y
  BY ListElements
<1>3. DOMAIN t = 1..(Len(s) + 1) /\ \A y : y \in ToSet(t) <=> \E k \in 1..(Len(s) + 1) : t[k] = y
  BY <1>1, ListElements
<1>4. Head(t) = IF s = <<>> THEN x ELSE Head(s)
  BY HeadTailAppend
<1>. HIDE DEF t
<1>5. ToSet(t) = ToSet(s) \cup {x}
  BY <1>1, <1>2, <1>3
<1>6. ASSUME IsInjective(s), x \notin ToSet(s) PROVE IsInjective(t)
  BY <1>1, <1>2, <1>3, <1>6 DEF IsInjective
<1>7. /\ t \in Seq(S) /\ t # <<>>
      /\ Len(t) = Len(s) + 1 /\ t[Len(s) + 1] = x
      /\ \A k \in 1..Len(s) : t[k] = s[k]
      /\ ToSet(t) = ToSet(s) \cup {x}
      /\ IsInjective(s) /\ x \notin ToSet(s) => IsInjective(t)
      /\ s # <<>> => Head(t) = Head(s)
      /\ s = <<>> => Head(t) = x
  BY <1>1, <1>4, <1>5, <1>6
<1>. QED  BY <1>7 DEF t

\* A list without its first element.
LEMMA ListShrinks ==
  ASSUME NEW S, NEW s \in Seq(S), s # <<>>
  PROVE  /\ Tail(s) \in Seq(S) /\ Head(s) \in ToSet(s) /\ Head(s) \in S
         /\ ToSet(s) = ToSet(Tail(s)) \cup {Head(s)}
         /\ IsInjective(s) => IsInjective(Tail(s)) /\ ToSet(Tail(s)) = ToSet(s) \ {Head(s)}
         /\ Tail(s) # <<>> => Tail(s)[Len(Tail(s))] = s[Len(s)]
<1>. DEFINE t == Tail(s)
<1>1. Head(s) \in S /\ t \in Seq(S) /\ Len(t) = Len(s) - 1 /\ \A k \in 1..Len(t) : t[k] = s[k + 1]
  BY HeadTailProperties
<1>2. Len(s) \in Nat /\ DOMAIN s = 1..Len(s) /\ \A y : y \in ToSet(s) <=> \E k \in 1..Len(s) : s[k] = y
  BY ListElements
<1>3. DOMAIN t = 1..(Len(s) - 1) /\ \A y : y \in ToSet(t) <=> \E k \in 1..(Len(s) - 1) : t[k] = y
  BY <1>1, ListElements
<1>4. Head(s) = s[1]
  BY DEF Head
<1>5. Len(s) # 0
  BY EmptySeq
<1>6. t # <<>> => Len(t) # 0
  BY <1>1, EmptySeq
<1>. HIDE DEF t
<1>7. \A k \in 2..Len(s) : k - 1 \in 1..(Len(s) - 1) /\ t[k - 1] = s[k]
  BY <1>1, <1>2
<1>8. ToSet(s) = ToSet(t) \cup {Head(s)}
  <2>1. \A y \in ToSet(t) : y \in ToSet(s)
    BY <1>1, <1>2, <1>3
  <2>2. \A y \in ToSet(s) : y = Head(s) \/ y \in ToSet(t)
    <3>1. TAKE y \in ToSet(s)
    <3>2. PICK k \in 1..Len(s) : s[k] = y
      BY <1>2
    <3>3. CASE k = 1
      BY <1>4, <3>2, <3>3
    <3>4. CASE k # 1
      BY <1>2, <1>3, <1>7, <3>2, <3>4
    <3>. QED  BY <3>3, <3>4
  <2>3. Head(s) \in ToSet(s)
    BY <1>2, <1>4, <1>5
  <2>. QED  BY <2>1, <2>2, <2>3
<1>9. ASSUME IsInjective(s) PROVE IsInjective(t) /\ ToSet(t) = ToSet(s) \ {Head(s)}
  <2>1. IsInjective(t)
    <3>1. \A k, l \in 1..(Len(s) - 1) : t[k] = t[l] => k + 1 = l + 1
      <4>1. \A k \in 1..(Len(s) - 1) : k + 1 \in DOMAIN s /\ t[k] = s[k + 1]
        BY <1>1, <1>2
      <4>. QED  BY <1>9, <4>1 DEF IsInjective
    <3>2. \A k, l \in 1..(Len(s) - 1) : k + 1 = l + 1 => k = l
      BY <1>2
    <3>. QED  BY <1>3, <3>1, <3>2 DEF IsInjective
  <2>2. Head(s) \notin ToSet(t)
    <3>1. \A k \in 1..(Len(s) - 1) : t[k] # Head(s)
      BY <1>1, <1>2, <1>4, <1>9 DEF IsInjective
    <3>. QED  BY <1>3, <3>1
  <2>. QED  BY <1>8, <2>1, <2>2
<1>10. t # <<>> => t[Len(t)] = s[Len(s)]
  BY <1>1, <1>2, <1>6
<1>11. /\ t \in Seq(S) /\ Head(s) \in ToSet(s) /\ Head(s) \in S
       /\ ToSet(s) = ToSet(t) \cup {Head(s)}
       /\ IsInjective(s) => IsInjective(t) /\ ToSet(t) = ToSet(s) \ {Head(s)}
       /\ t # <<>> => t[Len(t)] = s[Len(s)]
  BY <1>1, <1>8, <1>9, <1>10
<1>. QED  BY <1>11 DEF t

\* Two lists, one after the other.
LEMMA ListsJoin ==
  ASSUME NEW S, NEW s \in Seq(S), NEW t \in Seq(S)
  PROVE  /\ s \o t \in Seq(S)
         /\ ToSet(s \o t) = ToSet(s) \cup ToSet(t)
         /\ IsInjective(s) /\ IsInjective(t) /\ ToSet(s) \cap ToSet(t) = {} => IsInjective(s \o t)
<1>. DEFINE u == s \o t
<1>1. /\ u \in Seq(S) /\ Len(u) = Len(s) + Len(t)
      /\ \A k \in 1..(Len(s) + Len(t)) : u[k] = IF k <= Len(s) THEN s[k] ELSE t[k - Len(s)]
  BY ConcatProperties
<1>2. ToSet(u) = ToSet(s) \cup ToSet(t)
  <2>1. Range(s \o t) = Range(s) \cup Range(t)
    BY RangeConcatenation
  <2>. QED  BY ONLY <2>1 DEF Range, ToSet, u
<1>3. Len(s) \in Nat /\ DOMAIN s = 1..Len(s) /\ \A y : y \in ToSet(s) <=> \E k \in 1..Len(s) : s[k] = y
  BY ListElements
<1>4. Len(t) \in Nat /\ DOMAIN t = 1..Len(t) /\ \A y : y \in ToSet(t) <=> \E k \in 1..Len(t) : t[k] = y
  BY ListElements
<1>5. DOMAIN u = 1..(Len(s) + Len(t))
  BY <1>1, ListElements
<1>. HIDE DEF u
<1>6. \A k \in 1..(Len(s) + Len(t)) : \/ k \in 1..Len(s) /\ u[k] = s[k]
                                      \/ k - Len(s) \in 1..Len(t) /\ u[k] = t[k - Len(s)]
  BY <1>1, <1>3, <1>4
<1>7. ASSUME IsInjective(s), IsInjective(t), ToSet(s) \cap ToSet(t) = {} PROVE IsInjective(u)
  <2>1. \A k, l \in 1..(Len(s) + Len(t)) : u[k] = u[l] => k = l
    <3>1. TAKE k, l \in 1..(Len(s) + Len(t))
    <3>2. HAVE u[k] = u[l]
    <3>3. CASE k \in 1..Len(s) /\ u[k] = s[k] /\ l \in 1..Len(s) /\ u[l] = s[l]
      BY <1>3, <1>7, <3>2, <3>3 DEF IsInjective
    <3>4. CASE k - Len(s) \in 1..Len(t) /\ u[k] = t[k - Len(s)] /\ l - Len(s) \in 1..Len(t) /\ u[l] = t[l - Len(s)]
      <4>1. k - Len(s) = l - Len(s)
        BY <1>4, <1>7, <3>2, <3>4 DEF IsInjective
      <4>. QED  BY <1>3, <4>1
    <3>5. CASE k \in 1..Len(s) /\ u[k] = s[k] /\ l - Len(s) \in 1..Len(t) /\ u[l] = t[l - Len(s)]
      <4>1. u[k] \in ToSet(s) /\ u[l] \in ToSet(t)
        BY <1>3, <1>4, <3>5
      <4>. QED  BY <1>7, <3>2, <4>1
    <3>6. CASE k - Len(s) \in 1..Len(t) /\ u[k] = t[k - Len(s)] /\ l \in 1..Len(s) /\ u[l] = s[l]
      <4>1. u[l] \in ToSet(s) /\ u[k] \in ToSet(t)
        BY <1>3, <1>4, <3>6
      <4>. QED  BY <1>7, <3>2, <4>1
    <3>. QED  BY <1>6, <3>3, <3>4, <3>5, <3>6
  <2>. QED  BY <1>5, <2>1 DEF IsInjective
<1>8. /\ u \in Seq(S)
      /\ ToSet(u) = ToSet(s) \cup ToSet(t)
      /\ IsInjective(s) /\ IsInjective(t) /\ ToSet(s) \cap ToSet(t) = {} => IsInjective(u)
  BY <1>1, <1>2, <1>7
<1>. QED  BY <1>8 DEF u

\* What Kept leaves, as a set.
LEMMA ListKept ==
  ASSUME NEW S, NEW s \in Seq(S), NEW P
  PROVE  /\ Kept(s, P) \in Seq(S)
         /\ ToSet(Kept(s, P)) = ToSet(s) \cap P
         /\ IsInjective(s) => IsInjective(Kept(s, P))
<1>1. /\ Kept(s, P) \in Seq(S)
      /\ \A x \in S : (\E i \in DOMAIN Kept(s, P) : Kept(s, P)[i] = x)
                        <=> x \in P /\ \E i \in DOMAIN s : s[i] = x
      /\ (\A i, j \in DOMAIN s : s[i] = s[j] => i = j)
           => \A i, j \in DOMAIN Kept(s, P) : Kept(s, P)[i] = Kept(s, P)[j] => i = j
  BY KeptElements
<1>. DEFINE t == Kept(s, P)
<1>2. /\ t \in Seq(S)
      /\ \A x \in S : (\E i \in DOMAIN t : t[i] = x) <=> x \in P /\ \E i \in DOMAIN s : s[i] = x
      /\ (\A i, j \in DOMAIN s : s[i] = s[j] => i = j) => \A i, j \in DOMAIN t : t[i] = t[j] => i = j
  BY <1>1
<1>. HIDE DEF t
<1>3. ToSet(t) \subseteq S /\ ToSet(s) \subseteq S
  BY <1>2, ListElements
<1>4. ToSet(t) = ToSet(s) \cap P
  BY <1>2, <1>3 DEF ToSet
<1>5. IsInjective(s) => IsInjective(t)
  BY <1>2 DEF IsInjective
<1>. QED  BY <1>2, <1>4, <1>5 DEF t

\* The place where an element is found first.
LEMMA FirstPlace ==
  ASSUME NEW S, NEW s \in Seq(S), NEW x \in ToSet(s)
  PROVE  \E k \in DOMAIN s : s[k] = x /\ \A j \in 1..(k - 1) : s[j] # x
<1>. DEFINE T == {k \in 1..Len(s) : s[k] = x}
<1>1. Len(s) \in Nat /\ DOMAIN s = 1..Len(s) /\ \E k \in 1..Len(s) : s[k] = x
  BY ListElements
<1>2. T \subseteq Nat /\ T # {}
  BY <1>1
<1>3. \A k : k \in T <=> k \in 1..Len(s) /\ s[k] = x
  OBVIOUS
<1>. HIDE DEF T
<1>4. PICK m \in T : \A k \in T : m <= k
  BY <1>2, LeastNumber
<1>5. m \in 1..Len(s) /\ s[m] = x
  BY <1>3, <1>4
<1>6. ASSUME NEW j \in 1..(m - 1), s[j] = x PROVE FALSE
  <2>1. j \in 1..Len(s) /\ ~(m <= j)
    BY <1>1, <1>5
  <2>. QED  BY <1>3, <1>4, <1>6, <2>1
<1>. QED  BY <1>1, <1>5, <1>6

=============================================================================
