----------------------------- MODULE ListLemmas -----------------------------
(***************************************************************************)
(* Facts about sequences and sets of numbers that several proofs rest on:  *)
(* what an edit leaves of a list, the least element of a set, induction    *)
(* over the prefixes of a list.                                            *)
(***************************************************************************)
EXTENDS Integers, Lists, SequencesExt, FiniteSetTheorems, WellFoundedInduction, TLAPS

-----------------------------------------------------------------------------
(* The edits of a sequence: what stays, and where. *)

LEMMA Removing ==
    ASSUME NEW S, NEW s \in Seq(S), NEW i \in DOMAIN s
    PROVE  /\ RemoveAt(s, i) \in Seq(S)
           /\ DOMAIN RemoveAt(s, i) = 1..(Len(s) - 1) /\ Len(s) \in Nat
           /\ \A j \in 1..(Len(s) - 1) :
                RemoveAt(s, i)[j] = IF j < i THEN s[j] ELSE s[j + 1]
<1> DEFINE a == SubSeq(s, 1, i - 1)
           b == SubSeq(s, i + 1, Len(s))
<1>1. i \in 1..Len(s) /\ Len(s) \in Nat
    OBVIOUS
<1>2. /\ a \in Seq(S) /\ Len(a) = i - 1
      /\ \A j \in 1..(i - 1) : a[j] = s[j]
    BY <1>1
<1>3. /\ b \in Seq(S) /\ Len(b) = Len(s) - i
      /\ \A j \in 1..(Len(s) - i) : b[j] = s[i + j]
    BY <1>1
<1>4. RemoveAt(s, i) = a \o b
    BY DEF RemoveAt
<1> HIDE DEF a, b
<1>5. /\ a \o b \in Seq(S) /\ Len(a \o b) = Len(s) - 1
      /\ \A j \in 1..(Len(s) - 1) :
           (a \o b)[j] = IF j <= Len(a) THEN a[j] ELSE b[j - Len(a)]
    <2>1. a \in Seq(S) /\ b \in Seq(S) /\ Len(a) + Len(b) = Len(s) - 1
        BY <1>1, <1>2, <1>3
    <2>2. /\ a \o b \in Seq(S) /\ Len(a \o b) = Len(a) + Len(b)
          /\ \A j \in 1..(Len(a) + Len(b)) :
               (a \o b)[j] = IF j <= Len(a) THEN a[j] ELSE b[j - Len(a)]
        BY <2>1
    <2>3. QED BY <2>1, <2>2
<1>6. ASSUME NEW j \in 1..(Len(s) - 1)
      PROVE  (a \o b)[j] = IF j < i THEN s[j] ELSE s[j + 1]
    <2>1. CASE j < i
        BY <1>1, <1>2, <1>5, <2>1
    <2>2. CASE ~ j < i
        <3>1. /\ j - (i - 1) \in 1..(Len(s) - i) /\ i + (j - (i - 1)) = j + 1
              /\ ~ j <= Len(a)
            BY <1>1, <1>2, <2>2, SMTT(20)
        <3>2. (a \o b)[j] = b[j - (i - 1)]
            BY <1>2, <1>5, <3>1
        <3>3. QED BY <1>3, <2>2, <3>1, <3>2
    <2>3. QED BY <2>1, <2>2
<1>7. DOMAIN (a \o b) = 1..(Len(s) - 1)
    BY <1>5
<1>8. QED BY <1>4, <1>5, <1>6, <1>7

LEMMA Putting ==
    ASSUME NEW S, NEW s \in Seq(S), NEW x \in S
    PROVE  /\ Cons(x, s) \in Seq(S)
           /\ DOMAIN Cons(x, s) = 1..(Len(s) + 1) /\ Len(s) \in Nat
           /\ \A j \in 1..(Len(s) + 1) :
                Cons(x, s)[j] = IF j = 1 THEN x ELSE s[j - 1]
BY DEF Cons

LEMMA Replacing ==
    ASSUME NEW S, NEW s \in Seq(S), NEW x \in S, NEW y \in S
    PROVE  /\ ReplaceAll(s, x, y) \in Seq(S)
           /\ DOMAIN ReplaceAll(s, x, y) = DOMAIN s
           /\ \A j \in DOMAIN s : ReplaceAll(s, x, y)[j] = IF s[j] = x THEN y ELSE s[j]
BY DEF ReplaceAll

LEMMA LeastOf ==
    ASSUME NEW I, I \subseteq Nat, I # {}
    PROVE  Min(I) \in I /\ \A y \in I : Min(I) <= y
<1>1. PICK x \in I : \A y \in I : ~ (<<y, x>> \in OpToRel(<, Nat))
    BY NatLessThanWellFounded, WFMin
<1>2. ASSUME NEW y \in I PROVE x <= y
    <2>1. ~ (y < x)
        BY <1>1 DEF OpToRel
    <2>2. QED BY <2>1
<1>3. QED BY <1>2 DEF Min

-----------------------------------------------------------------------------
(* A sequence without some of its elements. *)

\* Induction over the naturals, for a set of them.
LEMMA FromZero ==
    ASSUME NEW I \in SUBSET Nat, 0 \in I, \A n \in I : n + 1 \in I
    PROVE  Nat \subseteq I
<1>1. SUFFICES ASSUME Nat \ I # {} PROVE FALSE
    OBVIOUS
<1> DEFINE m == Min(Nat \ I)
<1>2. m \in Nat \ I
    BY <1>1, LeastOf
<1>3. \A y \in Nat \ I : m <= y
    BY <1>1, LeastOf
<1> HIDE DEF m
<1>4. m # 0 /\ m - 1 \in Nat /\ ~(m <= m - 1)
    BY <1>2
<1>5. m - 1 \in I
    BY <1>3, <1>4
<1>6. (m - 1) + 1 = m
    BY <1>2
<1>7. QED BY <1>2, <1>5, <1>6

\* f lists, for each prefix of s, what is left of it without S.
Filters(f, s, S, n) ==
    /\ f[0] = <<>>
    /\ \A m \in 1..n :
         f[m] = IF s[m] \in S THEN f[m - 1] ELSE Append(f[m - 1], s[m])

Filtered(f, s, S, n) ==
    f = [m \in 0..n |->
           IF m = 0 THEN <<>>
           ELSE IF s[m] \in S THEN f[m - 1] ELSE Append(f[m - 1], s[m])]

LEMMA FilterExists ==
    ASSUME NEW S, NEW s, NEW n \in Nat
    PROVE  \E f : Filtered(f, s, S, n)
<1> DEFINE Step(f, m) == IF m = 0 THEN <<>>
                         ELSE IF s[m] \in S THEN f[m - 1] ELSE Append(f[m - 1], s[m])
           I == {k \in Nat : \E f : f = [m \in 0..k |-> Step(f, m)]}
<1>1. 0 \in I
    <2> DEFINE f == [m \in 0..0 |-> <<>>]
    <2>1. \A m \in 0..0 : m = 0
        OBVIOUS
    <2>2. f = [m \in 0..0 |-> Step(f, m)]
        BY <2>1
    <2>3. QED BY <2>2
<1>2. ASSUME NEW k \in I PROVE k + 1 \in I
    <2>1. k \in Nat
        OBVIOUS
    <2>2. PICK f : f = [m \in 0..k |-> Step(f, m)]
        OBVIOUS
    <2> DEFINE g == [m \in 0..(k + 1) |-> IF m = k + 1 THEN Step(f, m) ELSE f[m]]
    <2>3. ASSUME NEW m \in 0..(k + 1) PROVE g[m] = Step(g, m)
        <3>1. \A j \in 0..k : g[j] = f[j]
            BY <2>1
        <3>2. m = 0 \/ (m - 1 \in 0..k)
            BY <2>1
        <3>3. Step(g, m) = Step(f, m)
            BY <3>1, <3>2
        <3>4. CASE m = k + 1
            BY <3>3, <3>4
        <3>5. CASE m # k + 1
            <4>1. m \in 0..k
                BY <2>1, <3>5
            <4>2. f[m] = Step(f, m)
                <5> HIDE DEF Step
                <5>1. QED BY <2>2, <4>1
            <4>3. QED BY <3>1, <3>3, <4>1, <4>2
        <3>6. QED BY <3>4, <3>5
    <2> HIDE DEF Step
    <2>4. g = [m \in 0..(k + 1) |-> Step(g, m)]
        BY <2>3
    <2> HIDE DEF g
    <2>5. k + 1 \in Nat
        BY <2>1
    <2>6. QED BY <2>4, <2>5
<1>3. n \in I
    <2> HIDE DEF I
    <2>1. I \in SUBSET Nat
        BY DEF I
    <2>2. QED BY <1>1, <1>2, <2>1, FromZero
<1>4. QED BY <1>3 DEF Filtered

LEMMA WithoutIs ==
    ASSUME NEW S, NEW T, NEW s \in Seq(T)
    PROVE  \E f : Filters(f, s, S, Len(s)) /\ Without(s, S) = f[Len(s)]
<1> DEFINE f0 == CHOOSE f : Filtered(f, s, S, Len(s))
<1>1. Len(s) \in Nat
    OBVIOUS
<1>2. \E f : Filtered(f, s, S, Len(s))
    BY <1>1, FilterExists
<1>3. Filtered(f0, s, S, Len(s))
    BY <1>2
<1>4. Without(s, S) = f0[Len(s)]
    BY Zenon DEF Without, Filtered
<1> HIDE DEF f0
<1>5. Filters(f0, s, S, Len(s))
    <2>1. f0[0] = <<>>
        BY <1>1, <1>3 DEF Filtered
    <2>2. ASSUME NEW m \in 1..Len(s)
          PROVE  f0[m] = IF s[m] \in S THEN f0[m - 1] ELSE Append(f0[m - 1], s[m])
        <3>1. m \in 0..Len(s) /\ m # 0
            BY <1>1
        <3>2. QED BY <1>3, <3>1 DEF Filtered
    <2>3. QED BY <2>1, <2>2 DEF Filters
<1>6. QED BY <1>4, <1>5

\* An element of S more or less makes no difference.
LEMMA WithoutOne ==
    ASSUME NEW S, NEW T, NEW s \in Seq(T), NEW i \in DOMAIN s, s[i] \in S
    PROVE  Without(RemoveAt(s, i), S) = Without(s, S)
<1> DEFINE u == RemoveAt(s, i)
           n == Len(s)
<1>1. n \in Nat /\ i \in 1..n /\ i \in Nat
    OBVIOUS
<1>2. /\ u \in Seq(T) /\ Len(u) = n - 1
      /\ \A j \in 1..(n - 1) : u[j] = IF j < i THEN s[j] ELSE s[j + 1]
    <2>1. /\ u \in Seq(T) /\ DOMAIN u = 1..(n - 1)
          /\ \A j \in 1..(n - 1) : u[j] = IF j < i THEN s[j] ELSE s[j + 1]
        BY Removing
    <2> HIDE DEF u
    <2>2. Len(u) = n - 1
        BY <1>1, <2>1
    <2>3. QED BY <2>1, <2>2
<1>3. PICK f : Filters(f, s, S, n) /\ Without(s, S) = f[n]
    BY WithoutIs
<1> HIDE DEF u
<1>4. PICK g : Filters(g, u, S, n - 1) /\ Without(u, S) = g[n - 1]
    BY <1>2, WithoutIs
<1> HIDE DEF n
<1> DEFINE I == {k \in Nat : k <= n - 1 =>
                   /\ k < i => g[k] = f[k]
                   /\ k >= i - 1 => g[k] = f[k + 1]}
<1>5. f[i] = f[i - 1]
    BY <1>1, <1>3 DEF Filters
<1>6. 0 \in I
    BY <1>1, <1>3, <1>4, <1>5 DEF Filters
<1>7. ASSUME NEW k \in I PROVE k + 1 \in I
    <2>1. k \in Nat
        OBVIOUS
    <2>2. SUFFICES ASSUME k + 1 <= n - 1
                   PROVE  /\ k + 1 < i => g[k + 1] = f[k + 1]
                          /\ k + 1 >= i - 1 => g[k + 1] = f[k + 2]
        BY <2>1
    <2>3. /\ k < i => g[k] = f[k]
          /\ k >= i - 1 => g[k] = f[k + 1]
        BY <1>1, <2>1, <2>2
    <2>4. g[k + 1] = IF u[k + 1] \in S THEN g[k] ELSE Append(g[k], u[k + 1])
        <3>1. k + 1 \in 1..(n - 1) /\ (k + 1) - 1 = k
            BY <1>1, <2>1, <2>2
        <3>2. QED BY <1>4, <3>1 DEF Filters
    <2>5. f[k + 1] = IF s[k + 1] \in S THEN f[k] ELSE Append(f[k], s[k + 1])
        <3>1. k + 1 \in 1..n /\ (k + 1) - 1 = k
            BY <1>1, <2>1, <2>2
        <3>2. QED BY <1>3, <3>1 DEF Filters
    <2>6. f[k + 2] = IF s[k + 2] \in S THEN f[k + 1] ELSE Append(f[k + 1], s[k + 2])
        <3>1. k + 2 \in 1..n /\ (k + 2) - 1 = k + 1
            BY <1>1, <2>1, <2>2
        <3>2. QED BY <1>3, <3>1 DEF Filters
    <2>7. CASE k + 1 < i
        <3>1. u[k + 1] = s[k + 1] /\ g[k] = f[k]
            BY <1>1, <1>2, <2>1, <2>2, <2>3, <2>7
        <3>2. g[k + 1] = f[k + 1]
            BY <2>4, <2>5, <3>1
        <3>3. k + 1 >= i - 1 => k + 2 = i
            BY <1>1, <2>1, <2>7
        <3>4. k + 2 = i => f[k + 2] = f[k + 1]
            BY <1>5, <2>1
        <3>5. QED BY <2>7, <3>2, <3>3, <3>4
    <2>8. CASE ~(k + 1 < i)
        <3>1. u[k + 1] = s[k + 2] /\ g[k] = f[k + 1]
            <4>1. k + 1 \in 1..(n - 1) /\ (k + 1) + 1 = k + 2 /\ k >= i - 1
                BY <1>1, <2>1, <2>2, <2>8
            <4>2. QED BY <1>2, <2>3, <2>8, <4>1
        <3>2. QED BY <2>4, <2>6, <2>8, <3>1
    <2>9. QED BY <2>7, <2>8
<1>8. n - 1 \in I
    <2> HIDE DEF I
    <2>1. I \in SUBSET Nat /\ n - 1 \in Nat
        BY <1>1 DEF I
    <2>2. QED BY <1>6, <1>7, <2>1, FromZero
<1>9. g[n - 1] = f[n]
    <2>1. n - 1 <= n - 1 /\ n - 1 >= i - 1 /\ (n - 1) + 1 = n
        BY <1>1
    <2>2. QED BY <1>8, <2>1
<1>10. QED BY <1>3, <1>4, <1>9 DEF u, n

\* One more element behind the others.
LEMMA Appending ==
    ASSUME NEW T, NEW q \in Seq(T), NEW x \in T
    PROVE  Append(q, x) \in Seq(T) /\ ToSet(Append(q, x)) = ToSet(q) \union {x}
<1>1. /\ Append(q, x) \in Seq(T) /\ Len(q) \in Nat /\ DOMAIN q = 1..Len(q)
      /\ DOMAIN Append(q, x) = 1..(Len(q) + 1)
      /\ \A j \in 1..Len(q) : Append(q, x)[j] = q[j]
      /\ Append(q, x)[Len(q) + 1] = x
    OBVIOUS
<1>2. \A j : j \in 1..(Len(q) + 1) <=> j \in 1..Len(q) \/ j = Len(q) + 1
    BY <1>1
<1>3. ASSUME NEW y PROVE y \in ToSet(Append(q, x)) <=> y \in ToSet(q) \/ y = x
    BY <1>1, <1>2, Zenon DEF ToSet
<1>4. QED BY <1>1, <1>3

\* Without S, the elements that are not in S are left.
LEMMA WithoutElements ==
    ASSUME NEW S, NEW T, NEW s \in Seq(T)
    PROVE  Without(s, S) \in Seq(T) /\ ToSet(Without(s, S)) = ToSet(s) \ S
<1>1. PICK f : Filters(f, s, S, Len(s)) /\ Without(s, S) = f[Len(s)]
    BY WithoutIs
<1> DEFINE n == Len(s)
           Upto(k) == {s[i] : i \in 1..k}
           I == {k \in Nat : k <= n => f[k] \in Seq(T) /\ ToSet(f[k]) = Upto(k) \ S}
<1>2. n \in Nat /\ DOMAIN s = 1..n /\ \A i \in 1..n : s[i] \in T
    OBVIOUS
<1>3. 0 \in I
    <2>1. f[0] = <<>>
        BY <1>1 DEF Filters
    <2>2. ToSet(<<>>) = {} /\ Upto(0) = {} /\ <<>> \in Seq(T)
        BY DEF ToSet
    <2> HIDE DEF Upto, n
    <2>3. f[0] \in Seq(T) /\ ToSet(f[0]) = Upto(0) \ S
        BY <2>1, <2>2
    <2>4. QED BY <2>3
<1>4. ASSUME NEW k \in I PROVE k + 1 \in I
    <2>1. k \in Nat
        OBVIOUS
    <2>2. SUFFICES ASSUME k + 1 <= n
                   PROVE  f[k + 1] \in Seq(T) /\ ToSet(f[k + 1]) = Upto(k + 1) \ S
        BY <2>1
    <2>3. f[k] \in Seq(T) /\ ToSet(f[k]) = Upto(k) \ S
        BY <1>2, <2>1, <2>2
    <2>4. k + 1 \in 1..n /\ (k + 1) - 1 = k
        BY <1>2, <2>1, <2>2
    <2>5. f[k + 1] = IF s[k + 1] \in S THEN f[k] ELSE Append(f[k], s[k + 1])
        BY <1>1, <2>4 DEF Filters
    <2>6. Upto(k + 1) = Upto(k) \union {s[k + 1]}
        <3>1. \A i : i \in 1..(k + 1) <=> i \in 1..k \/ i = k + 1
            BY <2>1
        <3>2. QED BY <3>1, Zenon
    <2>7. Append(f[k], s[k + 1]) \in Seq(T)
          /\ ToSet(Append(f[k], s[k + 1])) = ToSet(f[k]) \union {s[k + 1]}
        BY <1>2, <2>3, <2>4, Appending
    <2> HIDE DEF Upto, n
    <2>8. QED BY <2>3, <2>5, <2>6, <2>7
<1>5. n \in I
    <2> HIDE DEF I
    <2>1. I \in SUBSET Nat
        BY DEF I
    <2>2. QED BY <1>2, <1>3, <1>4, <2>1, FromZero
<1>6. Upto(n) = ToSet(s)
    BY <1>2 DEF ToSet
<1>7. QED BY <1>1, <1>5, <1>6

(* What a left fold of a list goes through. *)

LEMMA Folding ==
    ASSUME NEW S, NEW base \in S, NEW n \in Nat, NEW G \in [1..n -> [S -> S]]
    PROVE  \E f \in [0..n -> S] : f[0] = base /\ \A m \in 1..n : f[m] = G[m][f[m - 1]]
<1> DEFINE Folds(f, k) == f[0] = base /\ \A m \in 1..k : f[m] = G[m][f[m - 1]]
           I == {k \in Nat : k <= n => \E f \in [0..k -> S] : Folds(f, k)}
<1>1. 0 \in I
    <2> DEFINE f == [m \in 0..0 |-> base]
    <2>1. f \in [0..0 -> S] /\ Folds(f, 0)
        OBVIOUS
    <2>2. QED BY <2>1
<1>2. ASSUME NEW k \in I PROVE k + 1 \in I
    <2>1. k \in Nat /\ k + 1 \in Nat
        OBVIOUS
    <2>2. SUFFICES ASSUME k + 1 <= n PROVE \E g \in [0..(k + 1) -> S] : Folds(g, k + 1)
        BY <2>1
    <2>3. PICK f \in [0..k -> S] : Folds(f, k)
        BY <2>1, <2>2
    <2> DEFINE g == [m \in 0..(k + 1) |-> IF m = k + 1 THEN G[k + 1][f[k]] ELSE f[m]]
    <2>4. G[k + 1][f[k]] \in S
        BY <2>1, <2>2
    <2>5. \A m \in 0..(k + 1) : m # k + 1 => m \in 0..k
        BY <2>1
    <2>6. g \in [0..(k + 1) -> S]
        BY <2>4, <2>5
    <2>7. \A m \in 0..k : g[m] = f[m]
        BY <2>1
    <2>8. g[k + 1] = G[k + 1][f[k]]
        BY <2>1
    <2> HIDE DEF g
    <2>9. ASSUME NEW m \in 1..(k + 1) PROVE g[m] = G[m][g[m - 1]]
        <3>1. CASE m = k + 1
            BY <2>1, <2>7, <2>8, <3>1
        <3>2. CASE m # k + 1
            <4>1. m \in 1..k /\ m \in 0..k /\ m - 1 \in 0..k
                BY <2>1, <3>2
            <4>2. QED BY <2>3, <2>7, <4>1
        <3>3. QED BY <3>1, <3>2
    <2>10. g[0] = base
        BY <2>1, <2>3, <2>7
    <2>11. QED BY <2>6, <2>9, <2>10
<1>3. n \in I
    <2> HIDE DEF I
    <2>1. I \in SUBSET Nat
        BY DEF I
    <2>2. QED BY <1>1, <1>2, <2>1, FromZero
<1>4. QED BY <1>3

-----------------------------------------------------------------------------
(* What is counted in a list. *)

LEMMA SameSize ==
    ASSUME NEW A, NEW B, IsFiniteSet(A), NEW f \in [A -> B],
           \A a, b \in A : f[a] = f[b] => a = b, \A b \in B : \E a \in A : f[a] = b
    PROVE  IsFiniteSet(B) /\ Cardinality(B) = Cardinality(A)
<1>1. ExistsBijection(A, B)
    BY DEF ExistsBijection, Bijection, Injection, Surjection, IsInjective
<1>2. QED BY <1>1, FS_Bijection

LEMMA SomePlaces ==
    ASSUME NEW n \in Nat, NEW I \in SUBSET (1..n)
    PROVE  IsFiniteSet(I) /\ Cardinality(I) \in Nat
<1>1. IsFiniteSet(1..n)
    BY FS_Interval
<1>2. IsFiniteSet(I)
    BY <1>1, FS_Subset
<1>3. QED BY <1>2, FS_CardinalityType

LEMMA CountIs ==
    ASSUME NEW T, NEW s \in Seq(T), NEW x
    PROVE  Count(s, x) \in Nat /\ (Count(s, x) > 0 <=> \E i \in DOMAIN s : s[i] = x)
<1> DEFINE I == {i \in DOMAIN s : s[i] = x}
<1>1. IsFiniteSet(I) /\ Cardinality(I) \in Nat
    <2>1. Len(s) \in Nat /\ I \in SUBSET (1..Len(s))
        OBVIOUS
    <2> HIDE DEF I
    <2>2. QED BY <2>1, SomePlaces
<1>2. Cardinality(I) = 0 <=> I = {}
    BY <1>1, FS_EmptySet
<1>3. QED BY <1>1, <1>2 DEF Count

LEMMA CountAppended ==
    ASSUME NEW T, NEW q \in Seq(T), NEW x, NEW r
    PROVE  Count(Append(q, x), r) = Count(q, r) + (IF x = r THEN 1 ELSE 0)
<1> DEFINE n == Len(q)
           I == {i \in DOMAIN q : q[i] = r}
           J == {i \in DOMAIN Append(q, x) : Append(q, x)[i] = r}
<1>1. /\ n \in Nat /\ DOMAIN q = 1..n /\ DOMAIN Append(q, x) = 1..(n + 1)
      /\ \A i \in 1..n : Append(q, x)[i] = q[i]
      /\ Append(q, x)[n + 1] = x
    OBVIOUS
<1>2. IsFiniteSet(I) /\ Cardinality(I) \in Nat /\ n + 1 \notin I
    BY <1>1, SomePlaces
<1> HIDE DEF n
<1>3. J = IF x = r THEN I \cup {n + 1} ELSE I
    <2>1. \A i : i \in 1..(n + 1) <=> i \in 1..n \/ i = n + 1
        BY <1>1
    <2>2. QED BY <1>1, <2>1
<1>4. Cardinality(J) = Cardinality(I) + (IF x = r THEN 1 ELSE 0)
    <2>1. Cardinality(I \cup {n + 1}) = Cardinality(I) + 1
        BY <1>2, FS_AddElement
    <2> HIDE DEF I, J
    <2>2. QED BY <1>2, <1>3, <2>1
<1>5. QED BY <1>4 DEF Count

LEMMA CountNone == \A r : Count(<<>>, r) = 0
<1>1. ASSUME NEW r PROVE Count(<<>>, r) = 0
    <2>1. {i \in DOMAIN <<>> : <<>>[i] = r} = {}
        OBVIOUS
    <2>2. QED BY <2>1, FS_EmptySet DEF Count
<1>2. QED BY <1>1

\* A list the other way round.
LEMMA Reversing ==
    ASSUME NEW T, NEW s \in Seq(T)
    PROVE  /\ Reverse(s) \in Seq(T) /\ Len(Reverse(s)) = Len(s)
           /\ \A i \in 1..Len(s) : Reverse(s)[i] = s[Len(s) - i + 1]
           /\ \A r : Count(Reverse(s), r) = Count(s, r)
<1> DEFINE n == Len(s)
           t == Reverse(s)
<1>1. n \in Nat /\ DOMAIN s = 1..n /\ \A i \in 1..n : s[i] \in T
    OBVIOUS
<1>2. t = [i \in 1..n |-> s[n - i + 1]]
    BY DEF Reverse
<1> HIDE DEF n
<1>3. \A i \in 1..n : n - i + 1 \in 1..n
    BY <1>1
<1>4. t \in [1..n -> T]
    BY <1>1, <1>2, <1>3
<1>5. t \in Seq(T) /\ Len(t) = n /\ DOMAIN t = 1..n
    BY <1>1, <1>4
<1>6. ASSUME NEW r PROVE Count(t, r) = Count(s, r)
    <2> DEFINE A == {i \in 1..n : t[i] = r}
               B == {i \in 1..n : s[i] = r}
               f == [i \in A |-> n - i + 1]
    <2>1. IsFiniteSet(A)
        BY <1>1, SomePlaces
    <2>2. f \in [A -> B]
        BY <1>2, <1>3
    <2>3. \A a, b \in A : f[a] = f[b] => a = b
        BY <1>1
    <2>4. ASSUME NEW b \in B PROVE \E a \in A : f[a] = b
        <3>1. n - b + 1 \in 1..n /\ n - (n - b + 1) + 1 = b
            BY <1>1
        <3>2. n - b + 1 \in A
            BY <1>2, <3>1
        <3>3. QED BY <3>1, <3>2
    <2> HIDE DEF A, B, f
    <2>5. Cardinality(B) = Cardinality(A)
        BY <2>1, <2>2, <2>3, <2>4, SameSize
    <2>6. QED BY <1>1, <1>5, <2>5 DEF Count, A, B
<1>7. QED BY <1>2, <1>5, <1>6 DEF t, n

\* e tells, of each place of w, where it was in s.
Embeds(e, w, s, I) ==
    /\ e \in [1..Len(w) -> I]
    /\ \A i, j \in 1..Len(w) : i < j => e[i] < e[j]
    /\ \A i \in 1..Len(w) : w[i] = s[e[i]]
    /\ \A k \in I : \E i \in 1..Len(w) : e[i] = k

\* What is left stands in its order.
LEMMA WithoutEmbeds ==
    ASSUME NEW S, NEW T, NEW s \in Seq(T)
    PROVE  /\ Without(s, S) \in Seq(T)
           /\ \E e : Embeds(e, Without(s, S), s, {i \in 1..Len(s) : s[i] \notin S})
<1>1. PICK f : Filters(f, s, S, Len(s)) /\ Without(s, S) = f[Len(s)]
    BY WithoutIs
<1> DEFINE n == Len(s)
           P(k) == {i \in 1..k : s[i] \notin S}
           I == {k \in Nat : k <= n => f[k] \in Seq(T) /\ \E e : Embeds(e, f[k], s, P(k))}
<1>2. n \in Nat /\ DOMAIN s = 1..n /\ \A i \in 1..n : s[i] \in T
    OBVIOUS
<1>3. 0 \in I
    <2>1. f[0] = <<>> /\ P(0) = {}
        BY <1>1 DEF Filters
    <2>2. <<>> \in Seq(T) /\ Len(<<>>) = 0 /\ 1..0 = {}
        OBVIOUS
    <2> DEFINE e == [i \in {} |-> i]
    <2>3. e \in [{} -> {}]
        OBVIOUS
    <2>4. Embeds(e, f[0], s, P(0))
        <3> HIDE DEF e, P
        <3>1. QED BY <2>1, <2>2, <2>3 DEF Embeds
    <2> HIDE DEF P, n
    <2>5. QED BY <2>1, <2>2, <2>4
<1>4. ASSUME NEW k \in I PROVE k + 1 \in I
    <2>1. k \in Nat /\ k + 1 \in Nat
        OBVIOUS
    <2>2. SUFFICES ASSUME k + 1 <= n
                   PROVE  f[k + 1] \in Seq(T) /\ \E e : Embeds(e, f[k + 1], s, P(k + 1))
        BY <2>1
    <2>3. f[k] \in Seq(T) /\ \E e : Embeds(e, f[k], s, P(k))
        <3>1. k <= n
            BY <1>2, <2>1, <2>2
        <3> HIDE DEF P, n
        <3>2. QED BY <3>1
    <2> DEFINE q == f[k]
               m == Len(q)
    <2>4. PICK e : Embeds(e, q, s, P(k))
        BY <2>3
    <2>5. k + 1 \in 1..n /\ (k + 1) - 1 = k
        BY <1>2, <2>1, <2>2
    <2>6. f[k + 1] = IF s[k + 1] \in S THEN q ELSE Append(q, s[k + 1])
        BY <1>1, <2>5 DEF Filters
    <2>7. P(k + 1) = IF s[k + 1] \in S THEN P(k) ELSE P(k) \cup {k + 1}
        <3>1. \A i : i \in 1..(k + 1) <=> i \in 1..k \/ i = k + 1
            BY <2>1
        <3>2. QED BY <3>1
    <2>8. \A i \in P(k) : i \in 1..k
        OBVIOUS
    <2> HIDE DEF q, P, n
    <2>9. CASE s[k + 1] \in S
        BY <2>3, <2>4, <2>6, <2>7, <2>9 DEF q
    <2>10. CASE s[k + 1] \notin S
        <3> DEFINE w == Append(q, s[k + 1])
                   d == [i \in 1..(m + 1) |-> IF i = m + 1 THEN k + 1 ELSE e[i]]
        <3>1. q \in Seq(T) /\ m \in Nat /\ s[k + 1] \in T
            BY <1>2, <2>3, <2>5 DEF q
        <3>2. /\ w \in Seq(T) /\ Len(w) = m + 1
              /\ \A i \in 1..m : w[i] = q[i]
              /\ w[m + 1] = s[k + 1]
            BY <3>1
        <3>3. /\ e \in [1..m -> P(k)]
              /\ \A i, j \in 1..m : i < j => e[i] < e[j]
              /\ \A i \in 1..m : q[i] = s[e[i]]
              /\ \A h \in P(k) : \E i \in 1..m : e[i] = h
            BY <2>4 DEF Embeds
        <3> HIDE DEF m, w
        <3>4. \A i \in 1..(m + 1) : i # m + 1 => i \in 1..m
            BY <3>1
        <3>5. /\ \A i \in 1..m : d[i] = e[i] /\ i \in 1..(m + 1)
              /\ d[m + 1] = k + 1 /\ m + 1 \in 1..(m + 1)
            BY <3>1
        <3>6. d \in [1..(m + 1) -> P(k) \cup {k + 1}]
            BY <3>3, <3>4
        <3> HIDE DEF d
        <3>7. ASSUME NEW i \in 1..(m + 1), NEW j \in 1..(m + 1), i < j PROVE d[i] < d[j]
            <4>1. i \in 1..m
                BY <3>1, <3>7
            <4>2. e[i] \in 1..k
                BY <2>8, <3>3, <4>1
            <4>3. CASE j = m + 1
                BY <2>1, <3>5, <4>1, <4>2, <4>3
            <4>4. CASE j # m + 1
                BY <3>3, <3>4, <3>5, <3>7, <4>1, <4>4
            <4>5. QED BY <4>3, <4>4
        <3>8. ASSUME NEW i \in 1..(m + 1) PROVE w[i] = s[d[i]]
            BY <3>2, <3>3, <3>4, <3>5
        <3>9. ASSUME NEW h \in P(k) \cup {k + 1} PROVE \E i \in 1..(m + 1) : d[i] = h
            BY <3>3, <3>5
        <3>10. Embeds(d, w, s, P(k + 1))
            BY <2>7, <2>10, <3>2, <3>6, <3>7, <3>8, <3>9 DEF Embeds
        <3>11. QED BY <2>6, <2>10, <3>2, <3>10 DEF w
    <2>11. QED BY <2>9, <2>10
<1>5. n \in I
    <2> HIDE DEF I
    <2>1. I \in SUBSET Nat
        BY DEF I
    <2>2. QED BY <1>2, <1>3, <1>4, <2>1, FromZero
<1>6. f[n] \in Seq(T) /\ \E e : Embeds(e, f[n], s, P(n))
    <2>1. n <= n
        BY <1>2
    <2> HIDE DEF P, n
    <2>2. QED BY <1>5, <2>1
<1>7. QED BY <1>1, <1>6, Zenon

\* The elements of S that s has, in their order.
LEMMA OnlyEmbeds ==
    ASSUME NEW S, NEW T, NEW s \in Seq(T)
    PROVE  /\ Only(s, S) \in Seq(T)
           /\ \E e : Embeds(e, Only(s, S), s, {i \in 1..Len(s) : s[i] \in S})
<1> DEFINE R == {s[i] : i \in DOMAIN s} \ S
<1>1. DOMAIN s = 1..Len(s)
    OBVIOUS
<1>2. {i \in 1..Len(s) : s[i] \notin R} = {i \in 1..Len(s) : s[i] \in S}
    BY <1>1
<1>3. Only(s, S) = Without(s, R)
    BY DEF Only
<1> HIDE DEF R
<1>4. /\ Without(s, R) \in Seq(T)
      /\ \E e : Embeds(e, Without(s, R), s, {i \in 1..Len(s) : s[i] \notin R})
    BY WithoutEmbeds, Zenon
<1>5. QED BY <1>2, <1>3, <1>4, Zenon

\* There are as many of a kind as there were.
Within(s, X) == Cardinality({i \in 1..Len(s) : s[i] \in X})

LEMMA OnlySize ==
    ASSUME NEW S, NEW T, NEW s \in Seq(T), NEW X
    PROVE  Within(Only(s, S), X) = Within(s, S \cap X)
<1> DEFINE w == Only(s, S)
           I == {i \in 1..Len(s) : s[i] \in S}
           A == {i \in 1..Len(w) : w[i] \in X}
           B == {i \in 1..Len(s) : s[i] \in S \cap X}
<1>1. w \in Seq(T) /\ \E e : Embeds(e, w, s, I)
    BY OnlyEmbeds
<1>2. PICK e : Embeds(e, w, s, I)
    BY <1>1
<1>3. /\ e \in [1..Len(w) -> I]
      /\ \A i, j \in 1..Len(w) : i < j => e[i] < e[j]
      /\ \A i \in 1..Len(w) : w[i] = s[e[i]]
      /\ \A k \in I : \E i \in 1..Len(w) : e[i] = k
    BY <1>2 DEF Embeds
<1>4. Len(w) \in Nat
    BY <1>1
<1> HIDE DEF w
<1> DEFINE f == [i \in A |-> e[i]]
<1>5. IsFiniteSet(A)
    BY <1>4, SomePlaces
<1>6. f \in [A -> B]
    BY <1>3
<1>7. \A a, b \in A : f[a] = f[b] => a = b
    <2>1. \A a, b \in 1..Len(w) : a # b => a < b \/ b < a
        BY <1>4
    <2>2. \A i \in I : i \in Int /\ ~(i < i)
        OBVIOUS
    <2> HIDE DEF I
    <2>3. QED BY <1>3, <2>1, <2>2
<1>8. \A b \in B : \E a \in A : f[a] = b
    BY <1>3
<1> HIDE DEF A, B, f
<1>9. Cardinality(B) = Cardinality(A)
    BY <1>5, <1>6, <1>7, <1>8, SameSize
<1>10. QED BY <1>9 DEF A, B, w, Within

LEMMA OnlyCounts ==
    ASSUME NEW S, NEW T, NEW s \in Seq(T)
    PROVE  /\ \A x \in S : Count(Only(s, S), x) = Count(s, x)
           /\ Len(Only(s, S)) = Cardinality({i \in DOMAIN s : s[i] \in S})
<1> DEFINE w == Only(s, S)
<1>1. w \in Seq(T) /\ Len(w) \in Nat /\ DOMAIN w = 1..Len(w) /\ DOMAIN s = 1..Len(s)
    BY OnlyEmbeds
<1>2. ASSUME NEW x \in S PROVE Count(w, x) = Count(s, x)
    <2>1. Within(w, {x}) = Within(s, S \cap {x})
        BY OnlySize
    <2>2. {i \in 1..Len(s) : s[i] \in S \cap {x}} = {i \in DOMAIN s : s[i] = x}
        BY <1>1
    <2>3. {i \in 1..Len(w) : w[i] \in {x}} = {i \in DOMAIN w : w[i] = x}
        BY <1>1
    <2>4. QED BY <2>1, <2>2, <2>3 DEF Count, Within
<1>3. Len(w) = Cardinality({i \in DOMAIN s : s[i] \in S})
    <2>1. Within(w, T) = Within(s, S \cap T)
        BY OnlySize
    <2>2. {i \in 1..Len(s) : s[i] \in S \cap T} = {i \in DOMAIN s : s[i] \in S}
        BY <1>1
    <2>3. {i \in 1..Len(w) : w[i] \in T} = 1..Len(w)
        BY <1>1
    <2> DEFINE n == Len(w)
    <2>4. n \in Nat /\ 1 \in Int /\ n \in Int
        BY <1>1
    <2> HIDE DEF n
    <2>5. Cardinality(1..n) = IF 1 > n THEN 0 ELSE n - 1 + 1
        BY <2>4, FS_Interval
    <2>6. Cardinality(1..n) = n
        BY <2>4, <2>5
    <2>7. QED BY <2>1, <2>2, <2>3, <2>6 DEF Within, n
<1>4. QED BY <1>2, <1>3 DEF w

-----------------------------------------------------------------------------
(* The places of a finite set in an order. *)

\* R orders the elements of I.
Orders(R, I) ==
    /\ \A a \in I : <<a, a>> \notin R
    /\ \A a, b \in I : a # b => <<a, b>> \in R \/ <<b, a>> \in R
    /\ \A a, b, c \in I : <<a, b>> \in R /\ <<b, c>> \in R => <<a, c>> \in R

NoLater(R, I, i) == {j \in I : j = i \/ <<j, i>> \in R}

\* The number of elements up to one is its place: the first has 1, the last
\* all of them, and no two the same.
LEMMA Ranking ==
    ASSUME NEW I, IsFiniteSet(I), NEW R, Orders(R, I)
    PROVE  /\ Cardinality(I) \in Nat
           /\ \A i \in I : Cardinality(NoLater(R, I, i)) \in 1..Cardinality(I)
           /\ \A i, j \in I : <<i, j>> \in R =>
                Cardinality(NoLater(R, I, i)) < Cardinality(NoLater(R, I, j))
           /\ \A n \in 1..Cardinality(I) : \E i \in I : Cardinality(NoLater(R, I, i)) = n
<1>1. Cardinality(I) \in Nat
    BY FS_CardinalityType
<1>2. ASSUME NEW i \in I
      PROVE  /\ IsFiniteSet(NoLater(R, I, i)) /\ Cardinality(NoLater(R, I, i)) \in 1..Cardinality(I)
    <2> DEFINE U == NoLater(R, I, i)
    <2>1. U \in SUBSET I /\ i \in U
        BY DEF NoLater
    <2> HIDE DEF U
    <2>2. IsFiniteSet(U) /\ Cardinality(U) <= Cardinality(I)
        BY <2>1, FS_Subset
    <2>3. Cardinality(U) \in Nat
        BY <2>2, FS_CardinalityType
    <2>4. Cardinality(U) # 0
        BY <2>1, <2>2, FS_EmptySet
    <2>5. QED BY <1>1, <2>2, <2>3, <2>4 DEF U
<1>3. ASSUME NEW i \in I, NEW j \in I, <<i, j>> \in R
      PROVE  Cardinality(NoLater(R, I, i)) < Cardinality(NoLater(R, I, j))
    <2> DEFINE U == NoLater(R, I, i)
               W == NoLater(R, I, j)
    <2>1. U \subseteq W
        BY <1>3, Zenon DEF NoLater, Orders
    <2>2. j \in W /\ j \notin U
        BY <1>3, Zenon DEF NoLater, Orders
    <2>3. IsFiniteSet(W) /\ Cardinality(W) \in Nat /\ Cardinality(U) \in Nat
        BY <1>2
    <2> HIDE DEF U, W
    <2>4. Cardinality(U) <= Cardinality(W) /\ Cardinality(U) # Cardinality(W)
        BY <2>1, <2>2, <2>3, FS_Subset
    <2>5. QED BY <2>3, <2>4 DEF U, W
<1>4. ASSUME NEW n \in 1..Cardinality(I) PROVE \E i \in I : Cardinality(NoLater(R, I, i)) = n
    <2> DEFINE f == [i \in I |-> Cardinality(NoLater(R, I, i))]
               N == Cardinality(I)
    <2>1. f \in [I -> 1..N]
        BY <1>2
    <2>2. \A i, j \in I : f[i] = f[j] => i = j
        <3>1. \A i, j \in I : i # j => f[i] < f[j] \/ f[j] < f[i]
            BY <1>3 DEF Orders
        <3>2. \A i \in I : f[i] \in Nat
            BY <2>1
        <3> HIDE DEF f
        <3>3. \A i, j \in I : f[i] < f[j] => f[i] # f[j]
            BY <3>2
        <3>4. QED BY <3>1, <3>3
    <2>3. IsFiniteSet(1..N) /\ Cardinality(1..N) = N
        <3>1. N \in Nat /\ N \in Int /\ 1 \in Int
            BY <1>1
        <3> HIDE DEF N
        <3>2. /\ IsFiniteSet(1..N)
              /\ Cardinality(1..N) = IF 1 > N THEN 0 ELSE N - 1 + 1
            BY <3>1, FS_Interval
        <3>3. QED BY <3>1, <3>2
    <2> HIDE DEF f
    <2>4. f \in Injection(I, 1..N)
        BY <2>1, <2>2, Zenon DEF Injection, IsInjective
    <2>5. f \in Surjection(I, 1..N)
        BY <2>3, <2>4, FS_Injection DEF N
    <2>6. \E i \in I : f[i] = n
        BY <2>5 DEF Surjection, N
    <2>7. QED BY <2>6 DEF f
<1>5. QED BY <1>1, <1>2, <1>3, <1>4

\* e tells, of each item of w, where it stood in s: at one place of I, and at
\* every one of them.
Moves(e, w, s, I) ==
    /\ e \in [1..Len(w) -> I]
    /\ \A i, j \in 1..Len(w) : e[i] = e[j] => i = j
    /\ \A k \in I : \E i \in 1..Len(w) : e[i] = k
    /\ \A i \in 1..Len(w) : w[i] = s[e[i]]

\* The items of s in the order of R, those at the places I.
Arranged(s, I, R) ==
    SubSeq([n \in 1..Cardinality(I) |->
              s[CHOOSE i \in I : Cardinality(NoLater(R, I, i)) = n]], 1, Cardinality(I))

LEMMA ArrangedIs ==
    ASSUME NEW T, NEW s \in Seq(T), NEW I \in SUBSET (1..Len(s)), NEW R, Orders(R, I)
    PROVE  /\ Arranged(s, I, R) \in Seq(T) /\ Len(Arranged(s, I, R)) = Cardinality(I)
           /\ \E e : /\ Moves(e, Arranged(s, I, R), s, I)
                     /\ \A i, j \in 1..Cardinality(I) : i < j => <<e[i], e[j]>> \in R
<1> DEFINE N == Cardinality(I)
           w == Arranged(s, I, R)
           e == [n \in 1..N |-> CHOOSE i \in I : Cardinality(NoLater(R, I, i)) = n]
<1>1. Len(s) \in Nat /\ \A i \in I : s[i] \in T
    OBVIOUS
<1>2. IsFiniteSet(I) /\ N \in Nat
    <2> DEFINE n == Len(s)
    <2>1. n \in Nat /\ I \in SUBSET (1..n)
        BY <1>1
    <2> HIDE DEF n
    <2>2. QED BY <2>1, SomePlaces
<1>3. /\ \A i, j \in I : <<i, j>> \in R =>
           Cardinality(NoLater(R, I, i)) < Cardinality(NoLater(R, I, j))
      /\ \A i \in I : Cardinality(NoLater(R, I, i)) \in 1..N
      /\ \A n \in 1..N : \E i \in I : Cardinality(NoLater(R, I, i)) = n
    <2>1. IsFiniteSet(I) /\ Orders(R, I)
        BY <1>2
    <2>2. \A i \in I : Cardinality(NoLater(R, I, i)) \in 1..N
        BY ONLY <2>1, Ranking
    <2>3. \A i, j \in I : <<i, j>> \in R =>
           Cardinality(NoLater(R, I, i)) < Cardinality(NoLater(R, I, j))
        BY ONLY <2>1, Ranking
    <2>4. \A n \in 1..N : \E i \in I : Cardinality(NoLater(R, I, i)) = n
        BY ONLY <2>1, Ranking
    <2>5. QED BY <2>2, <2>3, <2>4
<1>4. \A n \in 1..N : e[n] \in I /\ Cardinality(NoLater(R, I, e[n])) = n
    BY <1>3
<1>5. w = SubSeq([n \in 1..N |-> s[e[n]]], 1, N)
    <2>1. \A n \in 1..N : s[e[n]] = s[CHOOSE i \in I : Cardinality(NoLater(R, I, i)) = n]
        OBVIOUS
    <2>2. [n \in 1..N |-> s[e[n]]]
          = [n \in 1..N |-> s[CHOOSE i \in I : Cardinality(NoLater(R, I, i)) = n]]
        BY ONLY <2>1, Zenon
    <2>3. QED BY <2>2, Zenon DEF Arranged
<1> HIDE DEF e, w, N
<1>6. [n \in 1..N |-> s[e[n]]] \in Seq(T)
    <2>1. \A n \in 1..N : s[e[n]] \in T
        BY <1>1, <1>4
    <2> DEFINE u == [n \in 1..N |-> s[e[n]]]
    <2>2. u \in [1..N -> T]
        BY <2>1
    <2> HIDE DEF u
    <2>3. u \in Seq(T)
        BY <1>2, <2>2
    <2>4. QED BY <2>3 DEF u
<1>7. w \in Seq(T) /\ Len(w) = N /\ \A n \in 1..N : w[n] = s[e[n]]
    <2> DEFINE v == [n \in 1..N |-> s[e[n]]]
    <2>1. v \in Seq(T) /\ Len(v) = N /\ \A n \in 1..N : v[n] = s[e[n]]
        BY <1>2, <1>6
    <2>2. w = SubSeq(v, 1, N)
        BY <1>5
    <2> HIDE DEF v
    <2>3. w \in Seq(T) /\ Len(w) = N /\ \A n \in 1..N : w[n] = v[n]
        BY <1>2, <2>1, <2>2
    <2>4. QED BY <2>1, <2>3
<1>8. \A i, j \in 1..N : i < j => <<e[i], e[j]>> \in R
    <2>1. SUFFICES ASSUME NEW i \in 1..N, NEW j \in 1..N, i < j PROVE <<e[i], e[j]>> \in R
        OBVIOUS
    <2>2. e[i] \in I /\ e[j] \in I /\ e[i] # e[j]
        BY <1>4, <2>1
    <2>3. CASE <<e[j], e[i]>> \in R
        <3>1. Cardinality(NoLater(R, I, e[j])) < Cardinality(NoLater(R, I, e[i]))
            BY <1>3, <2>2, <2>3
        <3>2. j < i
            BY <1>4, <3>1
        <3>3. QED BY <2>1, <3>2
    <2>4. QED BY <2>2, <2>3 DEF Orders
<1>9. Moves(e, w, s, I)
    <2>1. e \in [1..N -> I]
        BY <1>4 DEF e
    <2>2. \A i, j \in 1..N : e[i] = e[j] => i = j
        BY <1>4
    <2>3. ASSUME NEW k \in I PROVE \E i \in 1..N : e[i] = k
        <3> DEFINE n == Cardinality(NoLater(R, I, k))
        <3>1. n \in 1..N
            BY <1>3
        <3>2. e[n] \in I /\ Cardinality(NoLater(R, I, e[n])) = n
            BY <1>4, <3>1
        <3>3. e[n] = k
            <4>1. SUFFICES ASSUME e[n] # k PROVE FALSE
                OBVIOUS
            <4>2. <<e[n], k>> \in R \/ <<k, e[n]>> \in R
                BY <3>2, <4>1 DEF Orders
            <4>3. n < n
                BY <1>3, <3>2, <4>2
            <4>4. QED BY <3>1, <4>3
        <3>4. QED BY <3>1, <3>3
    <2>4. QED BY <1>7, <2>1, <2>2, <2>3 DEF Moves
<1>10. QED BY <1>7, <1>8, <1>9 DEF w, N

LEMMA PickedIs ==
    ASSUME NEW T, NEW s \in Seq(T), NEW I \in SUBSET (1..Len(s))
    PROVE  /\ Picked(s, I) \in Seq(T) /\ Len(Picked(s, I)) = Cardinality(I)
           /\ \E e : /\ Moves(e, Picked(s, I), s, I)
                     /\ \A i, j \in 1..Cardinality(I) : i < j => e[i] < e[j]
<1> DEFINE R == {p \in I \X I : p[1] < p[2]}
<1>1. \A a, b \in I : <<a, b>> \in R <=> a < b
    OBVIOUS
<1>2. \A a \in I : a \in Int
    OBVIOUS
<1> HIDE DEF R
<1>3. Orders(R, I)
    BY <1>1, <1>2 DEF Orders
<1>4. \A i \in I : {j \in I : j <= i} = NoLater(R, I, i)
    <2>1. SUFFICES ASSUME NEW i \in I, NEW j \in I
                   PROVE  j <= i <=> j = i \/ <<j, i>> \in R
        BY Zenon DEF NoLater
    <2>2. QED BY <1>1, <1>2
<1> DEFINE u == [n \in 1..Cardinality(I) |->
                   s[CHOOSE i \in I : Cardinality({j \in I : j <= i}) = n]]
           v == [n \in 1..Cardinality(I) |->
                   s[CHOOSE i \in I : Cardinality(NoLater(R, I, i)) = n]]
<1>6. Picked(s, I) = Arranged(s, I, R)
    <2>1. Picked(s, I) = SubSeq(u, 1, Cardinality(I))
        BY DEF Picked
    <2>2. Arranged(s, I, R) = SubSeq(v, 1, Cardinality(I))
        BY DEF Arranged
    <2>3. u = v
        <3>1. ASSUME NEW n \in 1..Cardinality(I) PROVE u[n] = v[n]
            <4>1. u[n] = s[CHOOSE i \in I : Cardinality({j \in I : j <= i}) = n]
                OBVIOUS
            <4>2. v[n] = s[CHOOSE i \in I : Cardinality(NoLater(R, I, i)) = n]
                OBVIOUS
            <4>3. (CHOOSE i \in I : Cardinality({j \in I : j <= i}) = n)
                  = (CHOOSE i \in I : Cardinality(NoLater(R, I, i)) = n)
                BY <1>4
            <4> HIDE DEF u, v
            <4>4. QED BY ONLY <4>1, <4>2, <4>3, Zenon
        <3>2. u = [n \in 1..Cardinality(I) |-> u[n]] /\ v = [n \in 1..Cardinality(I) |-> v[n]]
            OBVIOUS
        <3> HIDE DEF u, v
        <3>3. [n \in 1..Cardinality(I) |-> u[n]] = [n \in 1..Cardinality(I) |-> v[n]]
            BY <3>1
        <3>4. QED BY <3>2, <3>3
    <2>4. QED BY ONLY <2>1, <2>2, <2>3, Zenon
<1> HIDE DEF u, v
<1>7. PICK e : /\ Moves(e, Arranged(s, I, R), s, I)
               /\ \A i, j \in 1..Cardinality(I) : i < j => <<e[i], e[j]>> \in R
    BY <1>3, ArrangedIs
<1>8. Arranged(s, I, R) \in Seq(T) /\ Len(Arranged(s, I, R)) = Cardinality(I)
    BY <1>3, ArrangedIs
<1>9. \A i, j \in 1..Cardinality(I) : i < j => e[i] < e[j]
    <2>1. \A i \in 1..Cardinality(I) : e[i] \in I
        BY <1>7, <1>8, Zenon DEF Moves
    <2>2. QED BY <1>1, <1>7, <2>1
<1>10. QED BY <1>6, <1>7, <1>8, <1>9, Zenon

LEMMA SortedIs ==
    ASSUME NEW T, NEW s \in Seq(T), NEW rank \in [1..Len(s) -> Int]
    PROVE  /\ Sorted(s, rank) \in Seq(T) /\ Len(Sorted(s, rank)) = Len(s)
           /\ \E e : /\ Moves(e, Sorted(s, rank), s, 1..Len(s))
                     /\ \A i, j \in 1..Len(s) : i < j => rank[e[i]] <= rank[e[j]]
<1> DEFINE N == Len(s)
           I == 1..N
           R == {p \in I \X I : rank[p[1]] < rank[p[2]]
                                \/ (rank[p[1]] = rank[p[2]] /\ p[1] < p[2])}
<1>1. \A a, b \in I : <<a, b>> \in R <=> rank[a] < rank[b] \/ (rank[a] = rank[b] /\ a < b)
    OBVIOUS
<1>2. N \in Nat /\ DOMAIN s = I /\ I \in SUBSET (1..Len(s)) /\ \A a \in I : a \in Int /\ rank[a] \in Int
    OBVIOUS
<1>3. IsFiniteSet(I) /\ Cardinality(I) = N
    <2>1. N \in Nat /\ N \in Int /\ 1 \in Int
        BY <1>2
    <2> HIDE DEF N
    <2>2. /\ IsFiniteSet(1..N)
          /\ Cardinality(1..N) = IF 1 > N THEN 0 ELSE N - 1 + 1
        BY <2>1, FS_Interval
    <2>3. QED BY <2>1, <2>2
<1> HIDE DEF R, I, N
<1>4. Orders(R, I)
    BY <1>1, <1>2 DEF Orders
<1>5. \A i \in I : {j \in I : rank[j] < rank[i] \/ (rank[j] = rank[i] /\ j <= i)} = NoLater(R, I, i)
    BY <1>1, <1>2 DEF NoLater
<1> DEFINE place == [i \in I |-> Cardinality({j \in I : rank[j] < rank[i] \/ (rank[j] = rank[i] /\ j <= i)})]
<1>6. \A i \in I : place[i] = Cardinality(NoLater(R, I, i))
    BY <1>5
<1> DEFINE u == [n \in I |-> s[CHOOSE i \in I : place[i] = n]]
           v == [n \in I |-> s[CHOOSE i \in I : Cardinality(NoLater(R, I, i)) = n]]
<1>7. Sorted(s, rank) = SubSeq(u, 1, N)
    <2>1. DOMAIN s = I
        BY <1>2
    <2>2. QED BY <2>1 DEF Sorted, N, place
<1> HIDE DEF place
<1>9. Arranged(s, I, R) = SubSeq(v, 1, N)
    <2>1. 1..Cardinality(I) = I
        BY <1>3 DEF I
    <2>2. Arranged(s, I, R) =
            SubSeq([n \in I |-> s[CHOOSE i \in I : Cardinality(NoLater(R, I, i)) = n]], 1, Cardinality(I))
        BY ONLY <2>1, Zenon DEF Arranged
    <2>3. QED BY <1>3, <2>2
<1>10. Sorted(s, rank) = Arranged(s, I, R)
    <2>1. u = v
        <3>1. ASSUME NEW n \in I PROVE u[n] = v[n]
            <4>1. u[n] = s[CHOOSE i \in I : place[i] = n]
                OBVIOUS
            <4>2. v[n] = s[CHOOSE i \in I : Cardinality(NoLater(R, I, i)) = n]
                OBVIOUS
            <4>3. (CHOOSE i \in I : place[i] = n)
                  = (CHOOSE i \in I : Cardinality(NoLater(R, I, i)) = n)
                BY <1>6
            <4> HIDE DEF u, v
            <4>4. QED BY ONLY <4>1, <4>2, <4>3, Zenon
        <3>2. u = [n \in I |-> u[n]] /\ v = [n \in I |-> v[n]]
            OBVIOUS
        <3> HIDE DEF u, v
        <3>3. [n \in I |-> u[n]] = [n \in I |-> v[n]]
            BY <3>1
        <3>4. QED BY <3>2, <3>3
    <2>2. QED BY ONLY <1>7, <1>9, <2>1, Zenon
<1> HIDE DEF u, v
<1>11. PICK e : /\ Moves(e, Arranged(s, I, R), s, I)
                /\ \A i, j \in 1..Cardinality(I) : i < j => <<e[i], e[j]>> \in R
    BY <1>2, <1>4, ArrangedIs
<1>12. Arranged(s, I, R) \in Seq(T) /\ Len(Arranged(s, I, R)) = N
    BY <1>2, <1>3, <1>4, ArrangedIs
<1>13. \A i, j \in I : i < j => rank[e[i]] <= rank[e[j]]
    <2>1. \A i \in I : e[i] \in I
        BY <1>11, <1>12, Zenon DEF Moves, I
    <2>2. I = 1..Cardinality(I)
        BY <1>3 DEF I
    <2>3. ASSUME NEW i \in I, NEW j \in I, i < j PROVE rank[e[i]] <= rank[e[j]]
        <3>1. <<e[i], e[j]>> \in R
            BY <1>11, <2>2, <2>3
        <3>2. e[i] \in I /\ e[j] \in I
            BY <2>1
        <3>3. rank[e[i]] < rank[e[j]] \/ rank[e[i]] = rank[e[j]]
            BY <1>1, <3>1, <3>2
        <3>4. rank[e[i]] \in Int /\ rank[e[j]] \in Int
            BY <1>2, <3>2
        <3>5. QED BY ONLY <3>3, <3>4
    <2>4. QED BY <2>3
<1>14. QED BY <1>10, <1>11, <1>12, <1>13, Zenon DEF N, I

\* What is moved is what there was, as often.
LEMMA MovesKeep ==
    ASSUME NEW T, NEW s \in Seq(T), NEW w \in Seq(T), NEW I \in SUBSET (1..Len(s)),
           NEW e, Moves(e, w, s, I)
    PROVE  /\ ToSet(w) = {s[i] : i \in I}
           /\ \A x : (\A i \in 1..Len(s) : s[i] = x => i \in I) => Count(w, x) = Count(s, x)
           /\ \A x : (\A i \in I : s[i] # x) => Count(w, x) = 0
<1>1. /\ e \in [1..Len(w) -> I]
      /\ \A i, j \in 1..Len(w) : e[i] = e[j] => i = j
      /\ \A k \in I : \E i \in 1..Len(w) : e[i] = k
      /\ \A i \in 1..Len(w) : w[i] = s[e[i]]
    BY DEF Moves
<1>2. DOMAIN w = 1..Len(w) /\ DOMAIN s = 1..Len(s) /\ Len(w) \in Nat
    OBVIOUS
<1>3. ToSet(w) = {s[i] : i \in I}
    <2>1. ToSet(w) = {w[i] : i \in 1..Len(w)}
        BY <1>2, Zenon DEF ToSet
    <2>2. ASSUME NEW i \in 1..Len(w) PROVE e[i] \in I /\ w[i] = s[e[i]]
        BY <1>1
    <2>3. \A i \in 1..Len(w) : w[i] \in {s[k] : k \in I}
        BY <2>2, Zenon
    <2>4. \A k \in I : s[k] \in {w[i] : i \in 1..Len(w)}
        <3>1. ASSUME NEW k \in I PROVE s[k] \in {w[i] : i \in 1..Len(w)}
            <4>1. PICK i \in 1..Len(w) : e[i] = k
                BY <1>1, Zenon
            <4>2. w[i] = s[k]
                BY <2>2, <4>1, Zenon
            <4>3. QED BY <4>2, Zenon
        <3>2. QED BY <3>1, Zenon
    <2>5. QED BY <2>1, <2>3, <2>4, Zenon
<1>4. ASSUME NEW x, \A i \in 1..Len(s) : s[i] = x => i \in I
      PROVE  Count(w, x) = Count(s, x)
    <2> DEFINE A == {i \in DOMAIN w : w[i] = x}
               B == {i \in DOMAIN s : s[i] = x}
               f == [i \in A |-> e[i]]
    <2>1. IsFiniteSet(A)
        BY <1>2, SomePlaces
    <2>2. f \in [A -> B]
        BY <1>1, <1>2
    <2>3. \A a, b \in A : f[a] = f[b] => a = b
        BY <1>1, <1>2
    <2>4. ASSUME NEW b \in B PROVE \E a \in A : f[a] = b
        <3>1. b \in I /\ s[b] = x
            BY <1>2, <1>4
        <3>2. PICK a \in 1..Len(w) : e[a] = b
            BY <1>1, <3>1
        <3>3. a \in A
            BY <1>1, <1>2, <3>1, <3>2
        <3>4. QED BY <3>2, <3>3
    <2> HIDE DEF A, B, f
    <2>5. Cardinality(B) = Cardinality(A)
        BY <2>1, <2>2, <2>3, <2>4, SameSize
    <2>6. QED BY <2>5 DEF A, B, Count
<1>5. ASSUME NEW x, \A i \in I : s[i] # x PROVE Count(w, x) = 0
    <2>1. SUFFICES ASSUME NEW i \in DOMAIN w, w[i] = x PROVE FALSE
        <3>1. {i \in DOMAIN w : w[i] = x} = {}
            BY <2>1, Zenon
        <3>2. QED BY <3>1, FS_EmptySet, Zenon DEF Count
    <2>2. e[i] \in I /\ w[i] = s[e[i]]
        BY <1>1, <1>2, Zenon
    <2>3. QED BY <1>5, <2>1, <2>2, Zenon
<1>6. QED BY <1>3, <1>4, <1>5

LEMMA PickedKeeps ==
    ASSUME NEW T, NEW s \in Seq(T), NEW I \in SUBSET (1..Len(s))
    PROVE  /\ Picked(s, I) \in Seq(T) /\ ToSet(Picked(s, I)) = {s[i] : i \in I}
           /\ \A x : (\A i \in 1..Len(s) : s[i] = x => i \in I)
                       => Count(Picked(s, I), x) = Count(s, x)
           /\ \A x : (\A i \in I : s[i] # x) => Count(Picked(s, I), x) = 0
<1>1. PICK e : Moves(e, Picked(s, I), s, I)
    BY PickedIs
<1>2. Picked(s, I) \in Seq(T)
    BY PickedIs
<1> DEFINE w == Picked(s, I)
<1>3. w \in Seq(T) /\ Moves(e, w, s, I)
    BY <1>1, <1>2
<1> HIDE DEF w
<1>4. /\ ToSet(w) = {s[i] : i \in I}
      /\ \A x : (\A i \in 1..Len(s) : s[i] = x => i \in I) => Count(w, x) = Count(s, x)
      /\ \A x : (\A i \in I : s[i] # x) => Count(w, x) = 0
    <2>1. ToSet(w) = {s[i] : i \in I}
        BY ONLY <1>3, s \in Seq(T), I \in SUBSET (1..Len(s)), MovesKeep
    <2>2. \A x : (\A i \in 1..Len(s) : s[i] = x => i \in I) => Count(w, x) = Count(s, x)
        BY ONLY <1>3, s \in Seq(T), I \in SUBSET (1..Len(s)), MovesKeep
    <2>3. \A x : (\A i \in I : s[i] # x) => Count(w, x) = 0
        BY ONLY <1>3, s \in Seq(T), I \in SUBSET (1..Len(s)), MovesKeep
    <2>4. QED BY <2>1, <2>2, <2>3, Zenon
<1>5. QED BY <1>3, <1>4, Zenon DEF w

LEMMA SortedKeeps ==
    ASSUME NEW T, NEW s \in Seq(T), NEW rank \in [1..Len(s) -> Int]
    PROVE  /\ Sorted(s, rank) \in Seq(T) /\ ToSet(Sorted(s, rank)) = ToSet(s)
           /\ \A x : Count(Sorted(s, rank), x) = Count(s, x)
<1> DEFINE w == Sorted(s, rank)
           I == 1..Len(s)
<1>1. PICK e : Moves(e, w, s, I)
    BY SortedIs
<1>2. w \in Seq(T)
    BY SortedIs
<1> HIDE DEF w
<1>3. I \in SUBSET (1..Len(s)) /\ ToSet(s) = {s[i] : i \in I}
    BY DEF ToSet
<1>4. \A x : \A i \in 1..Len(s) : s[i] = x => i \in I
    OBVIOUS
<1> HIDE DEF I
<1>5. /\ ToSet(w) = {s[i] : i \in I}
      /\ \A x : (\A i \in 1..Len(s) : s[i] = x => i \in I) => Count(w, x) = Count(s, x)
    <2>1. ToSet(w) = {s[i] : i \in I}
        BY ONLY <1>1, <1>2, <1>3, s \in Seq(T), MovesKeep
    <2>2. \A x : (\A i \in 1..Len(s) : s[i] = x => i \in I) => Count(w, x) = Count(s, x)
        <3>1. I \in SUBSET (1..Len(s))
            BY <1>3
        <3>2. QED BY ONLY <1>1, <1>2, <3>1, s \in Seq(T), MovesKeep
    <2>3. QED BY <2>1, <2>2, Zenon
<1>6. \A x : Count(w, x) = Count(s, x)
    BY <1>4, <1>5, Zenon
<1>7. QED BY <1>2, <1>3, <1>5, <1>6 DEF w

LEMMA CountZero ==
    ASSUME NEW T, NEW s \in Seq(T), NEW x
    PROVE  Count(s, x) \in Nat /\ (Count(s, x) = 0 <=> x \notin ToSet(s))
<1>1. Count(s, x) \in Nat /\ (Count(s, x) > 0 <=> \E i \in DOMAIN s : s[i] = x)
    BY CountIs
<1>2. x \in ToSet(s) <=> \E i \in DOMAIN s : s[i] = x
    BY Zenon DEF ToSet
<1>3. QED BY <1>1, <1>2

\* A list has no item twice if each is counted once.
LEMMA CountOnce ==
    ASSUME NEW T, NEW s \in Seq(T)
    PROVE  IsInjective(s) <=> \A x \in ToSet(s) : Count(s, x) = 1
<1>1. ASSUME NEW x \in ToSet(s), IsInjective(s) PROVE Count(s, x) = 1
    <2>1. PICK i \in DOMAIN s : s[i] = x
        BY DEF ToSet
    <2>2. {j \in DOMAIN s : s[j] = x} = {i}
        BY <1>1, <2>1 DEF IsInjective
    <2>3. QED BY <2>2, FS_Singleton DEF Count
<1>2. ASSUME \A x \in ToSet(s) : Count(s, x) = 1, NEW i \in DOMAIN s, NEW j \in DOMAIN s, s[i] = s[j]
      PROVE  i = j
    <2> DEFINE A == {k \in DOMAIN s : s[k] = s[i]}
    <2>1. Count(s, s[i]) = 1
        BY <1>2, Zenon DEF ToSet
    <2>2. Cardinality(A) = 1
        BY <2>1 DEF Count
    <2>3. IsFiniteSet(A)
        <3>1. Len(s) \in Nat /\ A \in SUBSET (1..Len(s))
            OBVIOUS
        <3> HIDE DEF A
        <3>2. QED BY <3>1, SomePlaces
    <2>4. i \in A /\ j \in A
        BY <1>2
    <2> HIDE DEF A
    <2>5. \E z : A = {z}
        BY <2>2, <2>3, FS_Singleton
    <2>6. QED BY <2>4, <2>5
<1>3. QED BY <1>1, <1>2, Zenon DEF IsInjective

\* A list of the elements of a set.
LEMMA SetToSeqIs ==
    ASSUME NEW S, IsFiniteSet(S)
    PROVE  SetToSeq(S) \in Seq(S) /\ IsInjective(SetToSeq(S)) /\ ToSet(SetToSeq(S)) = S
<1> DEFINE N == Cardinality(S)
           q == SetToSeq(S)
<1>1. N \in Nat /\ ExistsBijection(1..N, S)
    BY FS_CardinalityType
<1>2. \E f \in [1..N -> S] : IsInjective(f)
    BY <1>1, Zenon DEF ExistsBijection, Bijection, Injection
<1>3. q \in [1..N -> S] /\ IsInjective(q)
    BY <1>2, Zenon DEF SetToSeq
<1>4. IsFiniteSet(1..N) /\ Cardinality(1..N) = N
    <2>1. N \in Nat /\ N \in Int /\ 1 \in Int
        BY <1>1
    <2> HIDE DEF N
    <2>2. /\ IsFiniteSet(1..N)
          /\ Cardinality(1..N) = IF 1 > N THEN 0 ELSE N - 1 + 1
        BY <2>1, FS_Interval
    <2>3. QED BY <2>1, <2>2
<1> HIDE DEF q
<1>5. q \in Injection(1..N, S)
    BY <1>3, Zenon DEF Injection
<1>6. q \in Surjection(1..N, S)
    BY <1>4, <1>5, FS_Injection
<1> HIDE DEF N
<1>7. q \in Seq(S) /\ DOMAIN q = 1..N
    BY <1>1, <1>3
<1>8. ToSet(q) = S
    BY <1>3, <1>6, <1>7 DEF ToSet, Surjection
<1>9. QED BY <1>3, <1>7, <1>8 DEF q

-----------------------------------------------------------------------------
(* Lists put one behind the other. *)

\* a and b tell, of each item of w, in which list and at which place of it it
\* stood; the lists from the first to the k-th follow each other.
Strings(a, b, w, ss, k) ==
    /\ a \in [1..Len(w) -> 1..k] /\ b \in [1..Len(w) -> Nat]
    /\ \A n \in 1..Len(w) : b[n] \in 1..Len(ss[a[n]]) /\ w[n] = ss[a[n]][b[n]]
    /\ \A m, n \in 1..Len(w) : m < n => a[m] < a[n] \/ (a[m] = a[n] /\ b[m] < b[n])
    /\ \A g \in 1..k : \A j \in 1..Len(ss[g]) : \E n \in 1..Len(w) : a[n] = g /\ b[n] = j

LEMMA StringsOn ==
    ASSUME NEW T, NEW ss \in Seq(Seq(T)), NEW k \in Nat, k + 1 \in 1..Len(ss), NEW w \in Seq(T),
           NEW a, NEW b, Strings(a, b, w, ss, k)
    PROVE  /\ w \o ss[k + 1] \in Seq(T)
           /\ \E c, d : Strings(c, d, w \o ss[k + 1], ss, k + 1)
<1> DEFINE u == ss[k + 1]
           L == Len(w)
           M == Len(u)
           v == w \o u
           c == [n \in 1..(L + M) |-> IF n <= L THEN a[n] ELSE k + 1]
           d == [n \in 1..(L + M) |-> IF n <= L THEN b[n] ELSE n - L]
<1>1. u \in Seq(T) /\ L \in Nat /\ M \in Nat
    OBVIOUS
<1>2. /\ v \in Seq(T) /\ Len(v) = L + M
      /\ \A n \in 1..L : v[n] = w[n]
      /\ \A n \in 1..M : v[L + n] = u[n]
    BY <1>1
<1>3. /\ a \in [1..L -> 1..k] /\ b \in [1..L -> Nat]
      /\ \A n \in 1..L : b[n] \in 1..Len(ss[a[n]]) /\ w[n] = ss[a[n]][b[n]]
      /\ \A m, n \in 1..L : m < n => a[m] < a[n] \/ (a[m] = a[n] /\ b[m] < b[n])
      /\ \A g \in 1..k : \A j \in 1..Len(ss[g]) : \E n \in 1..L : a[n] = g /\ b[n] = j
    BY DEF Strings
<1> DEFINE Q == ss[k + 1]
<1>4. Q = u
    OBVIOUS
<1> HIDE DEF v, u, L, M, Q
<1>5. /\ \A n \in 1..L : c[n] = a[n] /\ d[n] = b[n] /\ c[n] \in 1..k
      /\ \A n \in 1..(L + M) : n \notin 1..L => c[n] = k + 1 /\ d[n] = n - L /\ n - L \in 1..M
    <2>1. ASSUME NEW n \in 1..L PROVE c[n] = a[n] /\ d[n] = b[n] /\ c[n] \in 1..k
        <3>1. n \in 1..(L + M) /\ n <= L
            BY <1>1
        <3>2. c[n] = a[n] /\ d[n] = b[n]
            BY <3>1
        <3>3. a[n] \in 1..k
            BY <1>3
        <3>4. QED BY <3>2, <3>3, Zenon
    <2>2. ASSUME NEW n \in 1..(L + M), n \notin 1..L
          PROVE  c[n] = k + 1 /\ d[n] = n - L /\ n - L \in 1..M
        <3>1. ~(n <= L) /\ n - L \in 1..M
            BY <1>1, <2>2
        <3>2. QED BY <3>1
    <2>3. QED BY <2>1, <2>2
<1>6. c \in [1..(L + M) -> 1..(k + 1)] /\ d \in [1..(L + M) -> Nat]
    BY <1>1, <1>3
<1> HIDE DEF c, d
<1>7. ASSUME NEW n \in 1..(L + M)
      PROVE  d[n] \in 1..Len(ss[c[n]]) /\ v[n] = ss[c[n]][d[n]]
    <2>1. CASE n \in 1..L
        BY <1>2, <1>3, <1>5, <2>1
    <2>2. CASE n \notin 1..L
        <3>1. c[n] = k + 1 /\ d[n] = n - L /\ n - L \in 1..M
            BY <1>5, <2>2
        <3>2. v[L + (n - L)] = u[n - L] /\ L + (n - L) = n
            BY <1>1, <1>2, <3>1
        <3>3. ss[c[n]] = u
            BY <1>4, <3>1 DEF Q
        <3>4. QED BY <3>1, <3>2, <3>3 DEF M
    <2>3. QED BY <2>1, <2>2
<1>8. ASSUME NEW m \in 1..(L + M), NEW n \in 1..(L + M), m < n
      PROVE  c[m] < c[n] \/ (c[m] = c[n] /\ d[m] < d[n])
    <2>1. CASE n \in 1..L
        <3>1. m \in 1..L
            BY <1>1, <1>8, <2>1
        <3>2. QED BY <1>3, <1>5, <1>8, <2>1, <3>1
    <2>2. CASE n \notin 1..L /\ m \in 1..L
        BY <1>5, <2>2
    <2>3. CASE n \notin 1..L /\ m \notin 1..L
        BY <1>1, <1>5, <1>8, <2>3
    <2>4. QED BY <2>1, <2>2, <2>3
<1>9. ASSUME NEW g \in 1..(k + 1), NEW j \in 1..Len(ss[g])
      PROVE  \E n \in 1..(L + M) : c[n] = g /\ d[n] = j
    <2>1. CASE g \in 1..k
        <3>1. PICK n \in 1..L : a[n] = g /\ b[n] = j
            BY <1>3, <2>1
        <3>2. n \in 1..(L + M)
            BY <1>1
        <3>3. QED BY <1>5, <3>1, <3>2
    <2>2. CASE g \notin 1..k
        <3>1. g = k + 1
            BY <2>2
        <3>2. j \in 1..M
            BY <1>4, <3>1 DEF M, Q
        <3>3. L + j \in 1..(L + M) /\ L + j \notin 1..L /\ (L + j) - L = j
            BY <1>1, <3>2
        <3>4. QED BY <1>5, <3>1, <3>3
    <2>3. QED BY <2>1, <2>2
<1>10. Strings(c, d, v, ss, k + 1)
    BY <1>2, <1>6, <1>7, <1>8, <1>9 DEF Strings
<1>11. v \in Seq(T) /\ \E p, q : Strings(p, q, v, ss, k + 1)
    BY <1>2, <1>10
<1>12. v = w \o ss[k + 1]
    BY DEF v, u
<1>13. QED BY ONLY <1>11, <1>12, Zenon

LEMMA FlattenStrings ==
    ASSUME NEW T, NEW ss, ss \in Seq(Seq(T))
    PROVE  /\ FlattenSeq(ss) \in Seq(T)
           /\ \E a, b : Strings(a, b, FlattenSeq(ss), ss, Len(ss))
<1> DEFINE N == Len(ss)
           S == Seq(T)
           G == [m \in 1..N |-> [w \in S |-> w \o ss[m]]]
<1>0. N \in Nat
    OBVIOUS
<1>1. N \in Nat /\ <<>> \in S /\ \A m \in 1..N : ss[m] \in S
    OBVIOUS
<1>2. G \in [1..N -> [S -> S]]
    <2>1. \A m \in 1..N : \A w \in S : w \o ss[m] \in S
        BY <1>1
    <2> HIDE DEF S, N
    <2>2. QED BY <2>1
<1>3. \A m \in 1..N : \A w \in S : G[m][w] = w \o ss[m]
    OBVIOUS
<1> HIDE DEF G, S, N
<1>4. PICK f \in [0..N -> S] : f[0] = <<>> /\ \A m \in 1..N : f[m] = G[m][f[m - 1]]
    <2>1. <<>> \in S
        BY <1>1
    <2>2. QED BY ONLY <1>0, <2>1, <1>2, Folding
<1>5. \A m \in 1..N : f[m] = f[m - 1] \o ss[m]
    <2>1. ASSUME NEW m \in 1..N PROVE f[m] = f[m - 1] \o ss[m]
        <3>1. m - 1 \in 0..N
            BY <1>1
        <3>2. f[m - 1] \in S
            BY <1>4, <3>1
        <3>3. QED BY <1>3, <1>4, <3>2
    <2>2. QED BY <2>1
<1> DEFINE I == {k \in Nat : k <= N => f[k] \in S /\ \E a, b : Strings(a, b, f[k], ss, k)}
<1>6. 0 \in I
    <2> DEFINE e == [n \in 1..0 |-> 0]
    <2>1. Strings(e, e, <<>>, ss, 0)
        BY DEF Strings
    <2>2. \E a, b : Strings(a, b, f[0], ss, 0)
        BY <1>4, <2>1, Zenon
    <2>3. QED BY <1>1, <1>4, <2>2
<1>7. ASSUME NEW k \in I PROVE k + 1 \in I
    <2>1. k \in Nat /\ k + 1 \in Nat
        OBVIOUS
    <2>2. SUFFICES ASSUME k + 1 <= N
                   PROVE  f[k + 1] \in S /\ \E a, b : Strings(a, b, f[k + 1], ss, k + 1)
        BY <2>1
    <2>3. k <= N /\ k + 1 \in 1..N /\ (k + 1) - 1 = k
        BY <1>1, <2>1, <2>2
    <2>4. f[k] \in S /\ \E a, b : Strings(a, b, f[k], ss, k)
        BY <2>3
    <2>5. PICK a, b : Strings(a, b, f[k], ss, k)
        BY <2>4
    <2>6. f[k + 1] = f[k] \o ss[k + 1]
        BY <1>5, <2>3
    <2> DEFINE w == f[k]
    <2>7. w \in Seq(T) /\ Strings(a, b, w, ss, k) /\ k + 1 \in 1..Len(ss)
        BY <2>3, <2>4, <2>5 DEF S, N
    <2> HIDE DEF w
    <2>8. /\ w \o ss[k + 1] \in Seq(T)
          /\ \E c, d : Strings(c, d, w \o ss[k + 1], ss, k + 1)
        BY ONLY <2>1, <2>7, ss \in Seq(Seq(T)), StringsOn
    <2>9. QED BY <2>6, <2>8, Zenon DEF w, S
<1>8. N \in I
    <2> HIDE DEF I
    <2>1. I \in SUBSET Nat
        BY DEF I
    <2>2. QED BY <1>0, <1>6, <1>7, <2>1, FromZero
<1>9. f[N] \in S /\ \E a, b : Strings(a, b, f[N], ss, N)
    BY <1>1, <1>8
<1>10. FlattenSeq(ss) = f[N]
    <2>1. CASE N = 0
        <3>1. ss = <<>>
            BY <2>1 DEF N
        <3>2. FlattenSeq(ss) = ss
            BY <2>1 DEF FlattenSeq, N
        <3>3. QED BY <1>4, <2>1, <3>1, <3>2
    <2>2. CASE N # 0
        <3> DEFINE Runs(h) == h = [i \in 1..N |-> IF i = 1 THEN ss[i] ELSE h[i - 1] \o ss[i]]
                   h0 == CHOOSE h : Runs(h)
                   fN == [i \in 1..N |-> f[i]]
        <3>1. Runs(fN)
            <4>1. ASSUME NEW i \in 1..N
                  PROVE  f[i] = IF i = 1 THEN ss[i] ELSE fN[i - 1] \o ss[i]
                <5>1. CASE i = 1
                    <6>1. f[1] = <<>> \o ss[1] /\ ss[1] \in Seq(T)
                        <7>1. 1 \in 1..N /\ 1 - 1 = 0
                            BY <5>1
                        <7>2. f[1] = f[1 - 1] \o ss[1] /\ ss[1] \in S
                            BY <1>1, <1>5, <7>1
                        <7>3. QED BY <1>4, <7>1, <7>2 DEF S
                    <6>2. <<>> \o ss[1] = ss[1]
                        BY <6>1
                    <6>3. QED BY <5>1, <6>1, <6>2
                <5>2. CASE i # 1
                    <6>1. i - 1 \in 1..N
                        BY <1>1, <5>2
                    <6>2. fN[i - 1] = f[i - 1]
                        BY <6>1
                    <6>3. QED BY <1>5, <5>2, <6>2
                <5>3. QED BY <5>1, <5>2
            <4>2. QED BY <4>1
        <3>2. Runs(h0)
            <4> HIDE DEF Runs, fN
            <4>1. \E h : Runs(h)
                BY <3>1
            <4>2. QED BY <4>1
        <3>3. FlattenSeq(ss) = h0[N]
            BY <2>2, Zenon DEF FlattenSeq, N
        <3> HIDE DEF h0
        <3>4. \A i \in 1..N : h0[i] = IF i = 1 THEN ss[i] ELSE h0[i - 1] \o ss[i]
            BY <3>2
        <3> HIDE DEF Runs, fN
        <3> DEFINE J == {k \in Nat : k + 1 <= N => h0[k + 1] = f[k + 1]}
        <3>5. 0 \in J
            <4>1. 1 \in 1..N /\ 1 - 1 = 0 /\ 0 + 1 = 1
                BY <1>0, <2>2
            <4>2. h0[1] = ss[1] /\ f[1] = f[1 - 1] \o ss[1] /\ ss[1] \in S
                BY <1>1, <1>5, <3>4, <4>1
            <4>3. f[1] = <<>> \o ss[1] /\ ss[1] \in Seq(T)
                BY <1>4, <4>1, <4>2 DEF S
            <4>4. h0[0 + 1] = f[0 + 1]
                BY <4>1, <4>2, <4>3
            <4>5. QED BY <4>4
        <3>6. ASSUME NEW k \in J PROVE k + 1 \in J
            <4>1. k \in Nat /\ k + 1 \in Nat /\ (k + 1) + 1 # 1 /\ ((k + 1) + 1) - 1 = k + 1
                OBVIOUS
            <4>2. SUFFICES ASSUME (k + 1) + 1 <= N PROVE h0[(k + 1) + 1] = f[(k + 1) + 1]
                BY <4>1
            <4>3. (k + 1) + 1 \in 1..N /\ k + 1 <= N
                BY <1>1, <4>1, <4>2
            <4>4. h0[k + 1] = f[k + 1]
                BY <4>3
            <4>5. h0[(k + 1) + 1] = h0[k + 1] \o ss[(k + 1) + 1]
                BY <3>4, <4>1, <4>3
            <4>6. f[(k + 1) + 1] = f[k + 1] \o ss[(k + 1) + 1]
                BY <1>5, <4>1, <4>3
            <4>7. QED BY ONLY <4>4, <4>5, <4>6, Zenon
        <3>7. N - 1 \in J /\ (N - 1) + 1 = N
            <4>1. N - 1 \in Nat /\ (N - 1) + 1 = N
                BY <1>0, <2>2
            <4> HIDE DEF J
            <4>2. J \in SUBSET Nat
                BY DEF J
            <4>3. \A k \in J : k + 1 \in J
                BY <3>6
            <4>4. Nat \subseteq J
                BY <3>5, <4>2, <4>3, FromZero
            <4>5. QED BY <4>1, <4>4
        <3>8. QED BY <1>1, <3>3, <3>7
    <2>3. QED BY <2>1, <2>2
<1>11. QED BY <1>9, <1>10, Zenon DEF S, N

\* An item of one of the lists alone is counted as there.
LEMMA FlattenCounts ==
    ASSUME NEW T, NEW ss \in Seq(Seq(T)), NEW x
    PROVE  /\ \A g \in 1..Len(ss) :
                (\A h \in 1..Len(ss) : h # g => x \notin ToSet(ss[h]))
                  => Count(FlattenSeq(ss), x) = Count(ss[g], x)
           /\ x \in ToSet(FlattenSeq(ss)) <=> \E g \in 1..Len(ss) : x \in ToSet(ss[g])
<1> DEFINE w == FlattenSeq(ss)
<1>1. w \in Seq(T) /\ \E a, b : Strings(a, b, w, ss, Len(ss))
    BY FlattenStrings
<1> HIDE DEF w
<1>2. PICK a, b : Strings(a, b, w, ss, Len(ss))
    BY <1>1
<1>3. /\ a \in [1..Len(w) -> 1..Len(ss)] /\ b \in [1..Len(w) -> Nat]
      /\ \A n \in 1..Len(w) : b[n] \in 1..Len(ss[a[n]]) /\ w[n] = ss[a[n]][b[n]]
      /\ \A m, n \in 1..Len(w) : m < n => a[m] < a[n] \/ (a[m] = a[n] /\ b[m] < b[n])
      /\ \A g \in 1..Len(ss) : \A j \in 1..Len(ss[g]) : \E n \in 1..Len(w) : a[n] = g /\ b[n] = j
    BY <1>2 DEF Strings
<1>4. /\ DOMAIN w = 1..Len(w) /\ Len(w) \in Nat
      /\ \A g \in 1..Len(ss) : DOMAIN ss[g] = 1..Len(ss[g])
    BY <1>1
<1>5. ASSUME NEW g \in 1..Len(ss), \A h \in 1..Len(ss) : h # g => x \notin ToSet(ss[h])
      PROVE  Count(w, x) = Count(ss[g], x)
    <2> DEFINE A == {i \in DOMAIN w : w[i] = x}
               B == {i \in DOMAIN ss[g] : ss[g][i] = x}
               f == [i \in A |-> b[i]]
    <2>1. IsFiniteSet(A)
        BY <1>4, SomePlaces
    <2>2. \A i \in A : a[i] = g
        <3>1. ASSUME NEW i \in A, a[i] # g PROVE FALSE
            <4>1. /\ i \in 1..Len(w) /\ a[i] \in 1..Len(ss)
                  /\ b[i] \in DOMAIN ss[a[i]] /\ ss[a[i]][b[i]] = x
                BY <1>3, <1>4
            <4>2. x \in ToSet(ss[a[i]])
                BY <4>1, Zenon DEF ToSet
            <4>3. QED BY <1>5, <3>1, <4>1, <4>2
        <3>2. QED BY <3>1
    <2>3. f \in [A -> B]
        BY <1>3, <1>4, <2>2
    <2>4. \A i, j \in A : f[i] = f[j] => i = j
        <3>1. SUFFICES ASSUME NEW i \in A, NEW j \in A, b[i] = b[j], i # j PROVE FALSE
            OBVIOUS
        <3>2. i \in 1..Len(w) /\ j \in 1..Len(w) /\ a[i] = a[j] /\ a[i] \in Int /\ b[i] \in Int
            BY <1>3, <1>4, <2>2
        <3>3. i < j \/ j < i
            BY <1>4, <3>1, <3>2
        <3>4. a[i] < a[j] \/ b[i] < b[j] \/ a[j] < a[i] \/ b[j] < b[i]
            BY <1>3, <3>2, <3>3
        <3>5. QED BY ONLY <3>1, <3>2, <3>4
    <2>5. \A k \in B : \E i \in A : f[i] = k
        <3>0. \A k \in B : k \in 1..Len(ss[g]) /\ ss[g][k] = x
            BY <1>4
        <3>1. ASSUME NEW k \in B PROVE \E i \in A : f[i] = k
            <4>1. PICK n \in 1..Len(w) : a[n] = g /\ b[n] = k
                BY <1>3, <3>0
            <4>2. w[n] = x /\ n \in DOMAIN w
                BY <1>3, <1>4, <3>0, <4>1
            <4>3. n \in A
                BY <4>2
            <4>4. QED BY <4>1, <4>3
        <3>2. QED BY <3>1
    <2> HIDE DEF A, B, f
    <2>6. Cardinality(B) = Cardinality(A)
        BY <2>1, <2>3, <2>4, <2>5, SameSize
    <2>7. QED BY <2>6 DEF A, B, Count
<1>6. x \in ToSet(w) <=> \E g \in 1..Len(ss) : x \in ToSet(ss[g])
    <2>1. ASSUME x \in ToSet(w) PROVE \E g \in 1..Len(ss) : x \in ToSet(ss[g])
        <3>1. PICK n \in 1..Len(w) : w[n] = x
            BY <1>4, <2>1 DEF ToSet
        <3>2. a[n] \in 1..Len(ss) /\ b[n] \in DOMAIN ss[a[n]] /\ ss[a[n]][b[n]] = x
            BY <1>3, <1>4, <3>1
        <3>3. x \in ToSet(ss[a[n]])
            BY <3>2, Zenon DEF ToSet
        <3>4. QED BY <3>2, <3>3
    <2>2. ASSUME NEW g \in 1..Len(ss), x \in ToSet(ss[g]) PROVE x \in ToSet(w)
        <3>1. PICK j \in 1..Len(ss[g]) : ss[g][j] = x
            BY <1>4, <2>2 DEF ToSet
        <3>2. PICK n \in 1..Len(w) : a[n] = g /\ b[n] = j
            BY <1>3, <3>1
        <3>3. n \in DOMAIN w /\ w[n] = x
            BY <1>3, <1>4, <3>1, <3>2
        <3>4. QED BY <3>3, Zenon DEF ToSet
    <2>3. QED BY <2>1, <2>2
<1>7. QED BY <1>5, <1>6 DEF w

-----------------------------------------------------------------------------
(* Lists that hold the elements of a set, each once. *)

Listing(w, T, K) ==
    w \in Seq(T) /\ ToSet(w) = K /\ \A x \in K : Count(w, x) = 1

LEMMA ListingIs ==
    ASSUME NEW T, NEW w, NEW K, Listing(w, T, K)
    PROVE  /\ w \in Seq(T) /\ ToSet(w) = K /\ K \in SUBSET T /\ IsInjective(w)
           /\ \A x : Count(w, x) = IF x \in K THEN 1 ELSE 0
           /\ IsFiniteSet(K) /\ Cardinality(K) = Len(w)
<1>1. w \in Seq(T) /\ ToSet(w) = K
    BY DEF Listing
<1>2. DOMAIN w = 1..Len(w) /\ Len(w) \in Nat /\ \A i \in 1..Len(w) : w[i] \in T
    BY <1>1
<1>3. K \in SUBSET T
    BY <1>1, <1>2 DEF ToSet
<1>4. IsInjective(w)
    <2>1. \A x \in ToSet(w) : Count(w, x) = 1
        BY Zenon DEF Listing
    <2>2. QED BY <1>1, <2>1, CountOnce
<1>5. \A x : Count(w, x) = IF x \in K THEN 1 ELSE 0
    <2>1. SUFFICES ASSUME NEW x PROVE Count(w, x) = IF x \in K THEN 1 ELSE 0
        OBVIOUS
    <2>2. Count(w, x) = 0 <=> x \notin ToSet(w)
        BY <1>1, CountZero
    <2>3. x \in K => Count(w, x) = 1
        BY Zenon DEF Listing
    <2>4. QED BY <1>1, <2>2, <2>3
<1>6. IsFiniteSet(K) /\ Cardinality(K) = Len(w)
    <2> DEFINE n == Len(w)
    <2>1. n \in Nat /\ n \in Int /\ 1 \in Int
        BY <1>2
    <2>2. w \in [1..n -> K] /\ \A b \in K : \E a \in 1..n : w[a] = b
        <3>1. \A a \in 1..n : w[a] \in K
            BY <1>1, <1>2 DEF ToSet
        <3>2. \A b \in K : \E a \in 1..n : w[a] = b
            BY <1>1, <1>2 DEF ToSet
        <3>3. w \in [1..n -> K]
            BY <1>1, <1>2, <3>1
        <3>4. QED BY <3>2, <3>3
    <2>3. \A a, b \in 1..n : w[a] = w[b] => a = b
        BY <1>2, <1>4 DEF IsInjective
    <2> HIDE DEF n
    <2>4. /\ IsFiniteSet(1..n)
          /\ Cardinality(1..n) = IF 1 > n THEN 0 ELSE n - 1 + 1
        BY <2>1, FS_Interval
    <2>5. IsFiniteSet(K) /\ Cardinality(K) = Cardinality(1..n)
        BY <2>2, <2>3, <2>4, SameSize
    <2>6. QED BY <2>1, <2>4, <2>5 DEF n
<1>7. QED BY <1>1, <1>3, <1>4, <1>5, <1>6, Zenon

\* Some of its items are the elements that are meant.
LEMMA ListingPicked ==
    ASSUME NEW T, NEW w, NEW K, Listing(w, T, K), NEW M
    PROVE  Listing(Picked(w, {i \in DOMAIN w : w[i] \in M}), T, K \cap M)
<1> DEFINE I == {i \in DOMAIN w : w[i] \in M}
           v == Picked(w, I)
<1>1. w \in Seq(T) /\ ToSet(w) = K /\ \A x \in K : Count(w, x) = 1
    BY Zenon DEF Listing
<1>2. DOMAIN w = 1..Len(w)
    BY <1>1
<1>3. I \in SUBSET (1..Len(w))
    BY <1>2
<1>4. \A i : i \in I <=> i \in DOMAIN w /\ w[i] \in M
    OBVIOUS
<1> HIDE DEF I
<1>5. v \in Seq(T) /\ ToSet(v) = {w[i] : i \in I}
    BY <1>1, <1>3, PickedKeeps
<1>6. \A x : (\A i \in 1..Len(w) : w[i] = x => i \in I) => Count(v, x) = Count(w, x)
    BY ONLY <1>1, <1>3, PickedKeeps
<1> HIDE DEF v
<1>7. ToSet(v) = K \cap M
    <2>1. \A x : x \in {w[i] : i \in I} <=> x \in ToSet(w) /\ x \in M
        BY <1>4, Zenon DEF ToSet
    <2>2. QED BY <1>1, <1>5, <2>1
<1>8. ASSUME NEW x \in K \cap M PROVE Count(v, x) = 1
    <2>1. \A i \in 1..Len(w) : w[i] = x => i \in I
        BY <1>2, <1>4, <1>8
    <2>2. QED BY <1>1, <1>6, <2>1
<1>9. QED BY <1>5, <1>7, <1>8, Zenon DEF Listing, v, I

\* They stay in a nondecreasing order of keys.
Ascending(w, key) == \A i, j \in 1..Len(w) : i < j => key[w[i]] <= key[w[j]]

LEMMA PickedAscending ==
    ASSUME NEW T, NEW w \in Seq(T), NEW key \in [T -> Int], Ascending(w, key),
           NEW I \in SUBSET (1..Len(w))
    PROVE  Ascending(Picked(w, I), key)
<1> DEFINE v == Picked(w, I)
<1>1. v \in Seq(T) /\ Len(v) = Cardinality(I)
    BY PickedIs
<1>2. PICK e : /\ Moves(e, v, w, I)
               /\ \A i, j \in 1..Cardinality(I) : i < j => e[i] < e[j]
    BY PickedIs
<1> HIDE DEF v
<1>3. /\ e \in [1..Len(v) -> I]
      /\ \A i \in 1..Len(v) : v[i] = w[e[i]]
    BY <1>2, Zenon DEF Moves
<1>4. ASSUME NEW i \in 1..Len(v), NEW j \in 1..Len(v), i < j PROVE key[v[i]] <= key[v[j]]
    <2>1. e[i] \in 1..Len(w) /\ e[j] \in 1..Len(w) /\ e[i] < e[j]
        BY <1>1, <1>2, <1>3, <1>4
    <2>2. key[w[e[i]]] <= key[w[e[j]]]
        BY <2>1, Zenon DEF Ascending
    <2>3. QED BY <1>3, <2>2
<1>5. QED BY <1>4, Zenon DEF Ascending, v

\* Sorted by a key, they are the same in its order.
LEMMA ListingSorted ==
    ASSUME NEW T, NEW w, NEW K, Listing(w, T, K), NEW key \in [T -> Int],
           NEW rank, rank = [i \in DOMAIN w |-> key[w[i]]]
    PROVE  Listing(Sorted(w, rank), T, K) /\ Ascending(Sorted(w, rank), key)
<1> DEFINE v == Sorted(w, rank)
<1>1. w \in Seq(T) /\ ToSet(w) = K /\ \A x \in K : Count(w, x) = 1
    BY Zenon DEF Listing
<1>2. DOMAIN w = 1..Len(w) /\ \A i \in 1..Len(w) : w[i] \in T
    BY <1>1
<1>3. rank \in [1..Len(w) -> Int] /\ \A i \in 1..Len(w) : rank[i] = key[w[i]]
    BY <1>2
<1>4. v \in Seq(T) /\ ToSet(v) = ToSet(w)
    BY ONLY <1>1, <1>3, SortedKeeps
<1>5. \A x : Count(v, x) = Count(w, x)
    BY ONLY <1>1, <1>3, SortedKeeps
<1>6. Len(v) = Len(w)
    BY ONLY <1>1, <1>3, SortedIs
<1>7. PICK e : /\ Moves(e, v, w, 1..Len(w))
               /\ \A i, j \in 1..Len(w) : i < j => rank[e[i]] <= rank[e[j]]
    BY ONLY <1>1, <1>3, SortedIs
<1> HIDE DEF v
<1>8. Listing(v, T, K)
    BY <1>1, <1>4, <1>5, Zenon DEF Listing
<1>9. Ascending(v, key)
    <2>1. \A i \in 1..Len(v) : e[i] \in 1..Len(w) /\ v[i] = w[e[i]]
        BY <1>7, Zenon DEF Moves
    <2>2. \A i, j \in 1..Len(v) : i < j => rank[e[i]] <= rank[e[j]]
        BY <1>6, <1>7, Zenon
    <2>3. ASSUME NEW i \in 1..Len(v), NEW j \in 1..Len(v), i < j PROVE key[v[i]] <= key[v[j]]
        <3>1. rank[e[i]] <= rank[e[j]]
            BY <2>2, <2>3
        <3>2. rank[e[i]] = key[w[e[i]]] /\ rank[e[j]] = key[w[e[j]]]
            BY <1>3, <2>1
        <3>3. QED BY <2>1, <3>1, <3>2
    <2>4. QED BY <2>3, Zenon DEF Ascending
<1>10. QED BY <1>8, <1>9 DEF v

\* One behind the other, they are a list of what the lists hold.
LEMMA ListingFlatten ==
    ASSUME NEW T, NEW ss, NEW n \in Nat, NEW Ks, ss \in Seq(Seq(T)), Len(ss) = n,
           \A g \in 1..n : Listing(ss[g], T, Ks[g]),
           \A g, h \in 1..n : g # h => Ks[g] \cap Ks[h] = {},
           NEW K, \A x : x \in K <=> \E g \in 1..n : x \in Ks[g]
    PROVE  Listing(FlattenSeq(ss), T, K)
<1> DEFINE w == FlattenSeq(ss)
<1>1. w \in Seq(T)
    BY FlattenStrings
<1>2. \A g \in 1..n : ToSet(ss[g]) = Ks[g] /\ \A x \in Ks[g] : Count(ss[g], x) = 1
    BY Zenon DEF Listing
<1>3. \A x : x \in ToSet(w) <=> \E g \in 1..n : x \in ToSet(ss[g])
    BY ONLY ss \in Seq(Seq(T)), Len(ss) = n, FlattenCounts
<1>4. \A x : \A g \in 1..n : (\A h \in 1..n : h # g => x \notin ToSet(ss[h]))
                  => Count(w, x) = Count(ss[g], x)
    BY ONLY ss \in Seq(Seq(T)), Len(ss) = n, FlattenCounts
<1> HIDE DEF w
<1>5. \A x : x \in ToSet(w) <=> x \in K
    BY <1>2, <1>3
<1>6. ToSet(w) = K
    BY <1>5
<1>7. ASSUME NEW x \in K PROVE Count(w, x) = 1
    <2>1. PICK g \in 1..n : x \in Ks[g]
        BY <1>7
    <2>2. ASSUME NEW h \in 1..n, h # g PROVE x \notin ToSet(ss[h])
        <3>1. Ks[g] \cap Ks[h] = {}
            BY <2>2
        <3>2. QED BY <1>2, <2>1, <3>1
    <2>3. Count(w, x) = Count(ss[g], x)
        BY <1>4, <2>2
    <2>4. QED BY <1>2, <2>1, <2>3
<1>8. QED BY <1>1, <1>6, <1>7, Zenon DEF Listing, w

\* ... and so is one list behind another.
LEMMA ListingBoth ==
    ASSUME NEW T, NEW a, NEW b, NEW A, NEW B, Listing(a, T, A), Listing(b, T, B), A \cap B = {}
    PROVE  Listing(a \o b, T, A \cup B)
<1> DEFINE w == a \o b
           m == Len(a)
           n == Len(b)
<1>1. /\ a \in Seq(T) /\ ToSet(a) = A /\ b \in Seq(T) /\ ToSet(b) = B
      /\ IsInjective(a) /\ IsInjective(b)
    BY ListingIs
<1>2. /\ w \in Seq(T) /\ Len(w) = m + n /\ m \in Nat /\ n \in Nat
      /\ \A i \in 1..m : w[i] = a[i]
      /\ \A i \in 1..n : w[m + i] = b[i]
      /\ DOMAIN w = 1..(m + n) /\ DOMAIN a = 1..m /\ DOMAIN b = 1..n
    BY <1>1
<1> HIDE DEF w, m, n
<1>3. \A i \in 1..(m + n) : i \in 1..m \/ (i - m \in 1..n /\ m + (i - m) = i)
    BY <1>2
<1>4. /\ \A i \in 1..m : a[i] \in A
      /\ \A i \in 1..n : b[i] \in B
    BY <1>1, <1>2 DEF ToSet
<1>5. \A i \in 1..(m + n) : (i \in 1..m /\ w[i] \in A) \/ (i \notin 1..m /\ w[i] \in B)
    <2>1. ASSUME NEW i \in 1..(m + n), i \notin 1..m PROVE w[i] \in B
        <3>1. i - m \in 1..n /\ m + (i - m) = i
            BY <1>3, <2>1
        <3>2. w[m + (i - m)] = b[i - m]
            BY <1>2, <3>1
        <3>3. QED BY <1>4, <3>1, <3>2
    <2>2. QED BY <1>2, <1>4, <2>1
<1>6. \A x \in A \cup B : \E i \in 1..(m + n) : w[i] = x
    <2>1. ASSUME NEW x \in A PROVE \E i \in 1..(m + n) : w[i] = x
        <3>1. PICK i \in 1..m : a[i] = x
            BY <1>1, <1>2, <2>1 DEF ToSet
        <3>2. i \in 1..(m + n)
            BY <1>2
        <3>3. QED BY <1>2, <3>1, <3>2
    <2>2. ASSUME NEW x \in B PROVE \E i \in 1..(m + n) : w[i] = x
        <3>1. PICK i \in 1..n : b[i] = x
            BY <1>1, <1>2, <2>2 DEF ToSet
        <3>2. m + i \in 1..(m + n)
            BY <1>2
        <3>3. QED BY <1>2, <3>1, <3>2
    <2>3. QED BY <2>1, <2>2
<1>7. ToSet(w) = A \cup B
    <2>1. \A x : x \in ToSet(w) <=> \E i \in 1..(m + n) : w[i] = x
        BY <1>2, Zenon DEF ToSet
    <2>2. QED BY <1>5, <1>6, <2>1
<1>8. IsInjective(w)
    <2>1. SUFFICES ASSUME NEW i \in 1..(m + n), NEW j \in 1..(m + n), w[i] = w[j] PROVE i = j
        BY <1>2, Zenon DEF IsInjective
    <2>2. CASE i \in 1..m /\ j \in 1..m
        BY <1>1, <1>2, <2>1, <2>2, Zenon DEF IsInjective
    <2>3. CASE i \notin 1..m /\ j \notin 1..m
        <3>1. i - m \in 1..n /\ j - m \in 1..n /\ b[i - m] = b[j - m]
            BY <1>2, <1>3, <2>1, <2>3
        <3>2. i - m = j - m
            BY <1>1, <1>2, <3>1, Zenon DEF IsInjective
        <3>3. QED BY <1>2, <3>2
    <2>4. CASE i \in 1..m /\ j \notin 1..m
        BY <1>5, <2>1, <2>4
    <2>5. CASE i \notin 1..m /\ j \in 1..m
        BY <1>5, <2>1, <2>5
    <2>6. QED BY <2>2, <2>3, <2>4, <2>5
<1>9. \A x \in A \cup B : Count(w, x) = 1
    BY <1>2, <1>7, <1>8, CountOnce
<1>10. QED BY <1>2, <1>7, <1>9, Zenon DEF Listing, w

\* The empty list holds nothing, and only it.
LEMMA ListingEmpty ==
    ASSUME NEW T
    PROVE  /\ Listing(<<>>, T, {})
           /\ \A w, K : Listing(w, T, K) => (Len(w) = 0 <=> K = {})
<1>1. Listing(<<>>, T, {})
    BY DEF Listing, ToSet
<1>2. ASSUME NEW w, NEW K, Listing(w, T, K) PROVE Len(w) = 0 <=> K = {}
    <2>1. w \in Seq(T) /\ ToSet(w) = K
        BY <1>2 DEF Listing
    <2>2. DOMAIN w = 1..Len(w) /\ Len(w) \in Nat
        BY <2>1
    <2>3. K = {} => Len(w) = 0
        <3>1. Len(w) # 0 => 1 \in DOMAIN w
            BY <2>2
        <3>2. 1 \in DOMAIN w => w[1] \in ToSet(w)
            BY Zenon DEF ToSet
        <3>3. QED BY <2>1, <3>1, <3>2
    <2>4. Len(w) = 0 => K = {}
        BY <2>1, <2>2 DEF ToSet
    <2>5. QED BY <2>3, <2>4
<1>3. QED BY <1>1, <1>2
=============================================================================
