---------------------------- MODULE NumberLemmas ----------------------------
(***************************************************************************)
(* Least and greatest numbers, loops and sorted lists.  The models choose   *)
(* a least or a greatest element wherever the code takes a maximum or scans *)
(* a queue from its head, count loop variables up from 0 and sort by key;   *)
(* the proofs need to know that the choice exists, that the loop has a      *)
(* history, and that sorting only rearranges.                               *)
(***************************************************************************)
EXTENDS Integers, FiniteSets, Sorting, FiniteSetTheorems, WellFoundedInduction, TLAPS

\* Every nonempty set of naturals has a least element.
LEMMA LeastNatural ==
    ASSUME NEW S \in SUBSET Nat, S # {}
    PROVE  \E x \in S : \A y \in S : x <= y
<1> DEFINE R == {ss \in Nat \X Nat : ss[1] < ss[2]}
<1>1. IsWellFoundedOn(R, Nat)
  BY NatLessThanWellFounded DEF OpToRel
<1>2. \A x, y \in S : ~(<<y, x>> \in R) => x <= y
  OBVIOUS
<1> HIDE DEF R
<1>3. \E x \in S : \A y \in S : ~ (<<y, x>> \in R)
  BY <1>1, WFMin
<1> QED BY <1>2, <1>3

\* Every nonempty set of integers with an upper bound has a greatest element.
LEMMA GreatestBelow ==
    ASSUME NEW S \in SUBSET Int, S # {}, NEW m \in Int, \A x \in S : x <= m
    PROVE  \E x \in S : \A y \in S : y <= x
<1> DEFINE T == {n \in Nat : m - n \in S}
<1>1. PICK s \in S : TRUE
  OBVIOUS
<1>2. m - s \in T
  OBVIOUS
<1>3. PICK n \in T : \A k \in T : n <= k
  BY <1>2, LeastNatural
<1>4. ASSUME NEW y \in S PROVE y <= m - n
  <2>1. m - y \in T
    OBVIOUS
  <2>2. n <= m - y
    BY <1>3, <2>1
  <2> HIDE DEF T
  <2>3. n \in Int /\ y \in Int
    BY <1>3 DEF T
  <2> QED BY <2>2, <2>3
<1>5. m - n \in S
  BY <1>3
<1> QED BY <1>4, <1>5

\* Every nonempty finite set of integers has a greatest element.
LEMMA GreatestOfFinite ==
    ASSUME NEW S \in SUBSET Int, S # {}, IsFiniteSet(S)
    PROVE  \E x \in S : \A y \in S : y <= x
<1> DEFINE Above(x) == {y \in S : y > x}
           Counts == {Cardinality(Above(x)) : x \in S}
<1>1. \A x \in S : Above(x) \in SUBSET S
  OBVIOUS
<1>2. \A x \in S : IsFiniteSet(Above(x)) /\ Cardinality(Above(x)) \in Nat
  <2> SUFFICES ASSUME NEW x \in S
               PROVE  IsFiniteSet(Above(x)) /\ Cardinality(Above(x)) \in Nat
    OBVIOUS
  <2> HIDE DEF Above
  <2>1. IsFiniteSet(Above(x))
    BY <1>1, FS_Subset
  <2> QED BY <2>1, FS_CardinalityType
<1>3. Counts \in SUBSET Nat /\ Counts # {}
  BY <1>2
<1>4. PICK n \in Counts : \A k \in Counts : n <= k
  BY <1>3, LeastNatural
<1>5. PICK x \in S : n = Cardinality(Above(x))
  OBVIOUS
<1>6. ASSUME NEW y \in S, ~(y <= x) PROVE FALSE
  <2>0. y > x /\ x \in Int /\ y \in Int
    BY <1>6
  <2>1. Above(y) \in SUBSET Above(x) /\ y \in Above(x) /\ y \notin Above(y)
    <3>1. \A z \in S : z \in Int /\ (z > y => z > x)
      BY <2>0
    <3> HIDE DEF Counts
    <3>2. y \in Above(x) /\ y \notin Above(y)
      BY <2>0
    <3>3. Above(y) \in SUBSET Above(x)
      BY <3>1
    <3> QED BY <3>2, <3>3
  <2>2. Cardinality(Above(y)) <= Cardinality(Above(x))
        /\ (Cardinality(Above(x)) = Cardinality(Above(y)) => Above(x) = Above(y))
    <3> HIDE DEF Above
    <3> QED BY <1>2, <2>1, FS_Subset
  <2>3. Cardinality(Above(x)) <= Cardinality(Above(y))
    BY <1>4, <1>5
  <2>4. Cardinality(Above(x)) = Cardinality(Above(y))
    <3>1. Cardinality(Above(x)) \in Nat /\ Cardinality(Above(y)) \in Nat
      BY <1>2
    <3> HIDE DEF Above
    <3> QED BY <2>2, <2>3, <3>1
  <2> QED BY <2>1, <2>2, <2>4
<1> QED BY <1>6

(***************************************************************************)
(* Induction and loops over numbers.                                        *)
(***************************************************************************)
\* A set of naturals that holds 0 and with n also n + 1 holds them all.
LEMMA AllNaturals ==
    ASSUME NEW T, 0 \in T, \A n \in Nat : n \in T => n + 1 \in T
    PROVE  Nat \subseteq T
<1> SUFFICES ASSUME Nat \ T # {} PROVE FALSE
  OBVIOUS
<1>1. PICK x \in Nat \ T : \A y \in Nat \ T : x <= y
  BY LeastNatural
<1>2. x # 0 /\ x - 1 \in Nat
  BY <1>1
<1>3. x - 1 \in T
  BY <1>1, <1>2
<1> QED BY <1>1, <1>2, <1>3

\* What holds at 0 and is passed on by each step up to N holds up to N.
LEMMA UpTo ==
    ASSUME NEW N \in Nat, NEW T, 0 \in T, \A n \in 1..N : n - 1 \in T => n \in T
    PROVE  \A n \in 0..N : n \in T
<1> DEFINE U == {n \in Nat : n <= N => n \in T}
<1>1. 0 \in U
  OBVIOUS
<1>2. ASSUME NEW n \in Nat, n \in U PROVE n + 1 \in U
  <2> SUFFICES ASSUME n + 1 <= N PROVE n + 1 \in T
    OBVIOUS
  <2>1. n \in T /\ n + 1 \in 1..N /\ (n + 1) - 1 = n
    BY <1>2
  <2> QED BY <2>1
<1> HIDE DEF U
<1>3. Nat \subseteq U
  BY <1>1, <1>2, AllNaturals
<1> QED BY <1>3 DEF U

\* A loop that runs n from 1 to N, from base, step by step, has a history.
HasLoop(N, S, base, step) ==
    \E f \in [0..N -> S] : f[0] = base /\ \A n \in 1..N : f[n] = step[<<f[n - 1], n>>]

LEMMA LoopExists ==
    ASSUME NEW N \in Nat, NEW S, NEW base \in S, NEW step \in [S \X (1..N) -> S]
    PROVE  HasLoop(N, S, base, step)
<1> DEFINE Upto(m) == \E f \in [0..m -> S] :
              f[0] = base /\ \A n \in 1..m : f[n] = step[<<f[n - 1], n>>]
           T == {m \in Nat : m <= N => Upto(m)}
<1>1. 0 \in T
  <2> DEFINE f0 == [n \in 0..0 |-> base]
  <2>1. f0 \in [0..0 -> S] /\ f0[0] = base
    OBVIOUS
  <2>2. 1..0 = {}
    OBVIOUS
  <2> HIDE DEF f0
  <2>3. Upto(0)
    BY <2>1, <2>2
  <2> HIDE DEF Upto
  <2> QED BY <2>3
<1>2. ASSUME NEW m \in Nat, m \in T PROVE m + 1 \in T
  <2> SUFFICES ASSUME m + 1 <= N PROVE Upto(m + 1)
    OBVIOUS
  <2>1. Upto(m)
    BY <1>2
  <2>2. PICK f \in [0..m -> S] :
           f[0] = base /\ \A n \in 1..m : f[n] = step[<<f[n - 1], n>>]
    BY <2>1
  <2> DEFINE g == [n \in 0..(m + 1) |-> IF n = m + 1 THEN step[<<f[m], m + 1>>] ELSE f[n]]
  <2>3. f[m] \in S /\ m + 1 \in 1..N
    OBVIOUS
  <2>4. step[<<f[m], m + 1>>] \in S
    BY <2>3
  <2>5. g \in [0..(m + 1) -> S]
    BY <2>4
  <2>6. g[0] = base
    BY <2>2
  <2>7. ASSUME NEW n \in 1..(m + 1) PROVE g[n] = step[<<g[n - 1], n>>]
    <3>1. CASE n = m + 1
      <4>1. n - 1 = m /\ g[n - 1] = f[m]
        BY <3>1
      <4>2. g[n] = step[<<f[m], m + 1>>]
        BY <3>1
      <4> QED BY <3>1, <4>1, <4>2
    <3>2. CASE n # m + 1
      <4>1. n \in 1..m /\ g[n] = f[n] /\ g[n - 1] = f[n - 1]
        BY <3>2
      <4> QED BY <4>1, <2>2
    <3> QED BY <3>1, <3>2
  <2> HIDE DEF g
  <2> QED BY <2>5, <2>6, <2>7
<1> HIDE DEF Upto
<1>3. N \in T
  BY <1>1, <1>2, AllNaturals
<1>4. Upto(N)
  BY <1>3
<1> QED BY <1>4 DEF Upto, HasLoop

(***************************************************************************)
(* Sorting.                                                                 *)
(***************************************************************************)
KeyPairs == Int \X Int

LEMMA KeyOrder ==
    /\ \A a \in KeyPairs : ~KeyBefore(a, a)
    /\ \A a, b \in KeyPairs : a # b => KeyBefore(a, b) \/ KeyBefore(b, a)
    /\ \A a, b \in KeyPairs : ~(KeyBefore(a, b) /\ KeyBefore(b, a))
    /\ \A a, b, c \in KeyPairs : KeyBefore(a, b) /\ KeyBefore(b, c) => KeyBefore(a, c)
<1>1. \A a \in KeyPairs : a[1] \in Int /\ a[2] \in Int /\ a = <<a[1], a[2]>>
  BY DEF KeyPairs
<1>2. \A a, b \in KeyPairs : a[1] = b[1] /\ a[2] = b[2] => a = b
  BY <1>1
<1> QED BY <1>1, <1>2 DEF KeyBefore

\* Different elements have different keys.
Sortable(I, key) ==
    /\ IsFiniteSet(I) /\ key \in [I -> KeyPairs]
    /\ \A i, j \in I : key[i] = key[j] => i = j

\* How many elements of I do not come after i.
RankOf(I, key, i) == Cardinality({j \in I : ~KeyBefore(key[i], key[j])})

LEMMA RankIsANumber ==
    ASSUME NEW I, NEW key, Sortable(I, key), NEW i \in I
    PROVE  RankOf(I, key, i) \in 1..Cardinality(I)
<1> DEFINE D == {j \in I : ~KeyBefore(key[i], key[j])}
<1>1. D \in SUBSET I /\ IsFiniteSet(I)
  BY DEF Sortable
<1>2. i \in D
  BY KeyOrder DEF Sortable
<1> HIDE DEF D
<1>3. IsFiniteSet(D) /\ Cardinality(D) <= Cardinality(I) /\ Cardinality(D) \in Nat
      /\ Cardinality(I) \in Nat
  BY <1>1, FS_Subset, FS_CardinalityType
<1>4. Cardinality(D) # 0
  BY <1>2, <1>3, FS_EmptySet
<1> QED BY <1>3, <1>4 DEF D, RankOf

LEMMA RankFollowsKey ==
    ASSUME NEW I, NEW key, Sortable(I, key), NEW i \in I, NEW j \in I,
           KeyBefore(key[i], key[j])
    PROVE  RankOf(I, key, i) < RankOf(I, key, j)
<1> DEFINE D(x) == {z \in I : ~KeyBefore(key[x], key[z])}
<1>0. \A x \in I : key[x] \in KeyPairs
  BY DEF Sortable
<1>1. D(i) \in SUBSET D(j)
  <2> SUFFICES ASSUME NEW z \in I, ~KeyBefore(key[i], key[z]), KeyBefore(key[j], key[z])
               PROVE FALSE
    OBVIOUS
  <2> QED BY <1>0, KeyOrder
<1>2. j \in D(j) /\ j \notin D(i)
  BY <1>0, KeyOrder
<1>3. D(j) \in SUBSET I /\ IsFiniteSet(I)
  BY DEF Sortable
<1> HIDE DEF D
<1>4. IsFiniteSet(D(j))
  BY <1>3, FS_Subset
<1>5. IsFiniteSet(D(i)) /\ Cardinality(D(i)) <= Cardinality(D(j))
      /\ (Cardinality(D(j)) = Cardinality(D(i)) => D(j) = D(i))
  BY <1>1, <1>4, FS_Subset
<1>6. Cardinality(D(i)) \in Nat /\ Cardinality(D(j)) \in Nat
  BY <1>4, <1>5, FS_CardinalityType
<1>7. Cardinality(D(i)) # Cardinality(D(j))
  BY <1>2, <1>5
<1>8. RankOf(I, key, i) = Cardinality(D(i)) /\ RankOf(I, key, j) = Cardinality(D(j))
  BY DEF RankOf, D
<1> QED BY <1>5, <1>6, <1>7, <1>8

LEMMA RankIsUnique ==
    ASSUME NEW I, NEW key, Sortable(I, key), NEW i \in I, NEW j \in I,
           RankOf(I, key, i) = RankOf(I, key, j)
    PROVE  i = j
<1> SUFFICES ASSUME i # j PROVE FALSE
  OBVIOUS
<1>1. key[i] \in KeyPairs /\ key[j] \in KeyPairs /\ key[i] # key[j]
  BY DEF Sortable
<1>2. RankOf(I, key, i) \in Int /\ RankOf(I, key, j) \in Int
  BY RankIsANumber
<1>3. KeyBefore(key[i], key[j]) \/ KeyBefore(key[j], key[i])
  BY <1>1, KeyOrder
<1>4. CASE KeyBefore(key[i], key[j])
  <2>1. RankOf(I, key, i) < RankOf(I, key, j)
    BY <1>4, RankFollowsKey
  <2> QED BY <2>1, <1>2
<1>5. CASE KeyBefore(key[j], key[i])
  <2>1. RankOf(I, key, j) < RankOf(I, key, i)
    BY <1>5, RankFollowsKey
  <2> QED BY <2>1, <1>2
<1> QED BY <1>3, <1>4, <1>5

\* Every rank is taken: an injection of I into as many numbers hits them all.
LEMMA RankIsTaken ==
    ASSUME NEW I, NEW key, Sortable(I, key), NEW n \in 1..Cardinality(I)
    PROVE  \E i \in I : RankOf(I, key, i) = n
<1> DEFINE c == Cardinality(I)
           f == [i \in I |-> RankOf(I, key, i)]
<1>1. IsFiniteSet(I) /\ c \in Nat
  BY FS_CardinalityType DEF Sortable
<1>2. IsFiniteSet(1..c) /\ Cardinality(1..c) = c
  BY <1>1, FS_Interval
<1>3. f \in [I -> 1..c]
  BY RankIsANumber
<1>4. \A i, j \in I : f[i] = f[j] => i = j
  BY RankIsUnique
<1>5. f \in Injection(I, 1..c)
  BY <1>3, <1>4 DEF Injection, IsInjective
<1> HIDE DEF f
<1>6. f \in Surjection(I, 1..c)
  BY <1>2, <1>5, FS_Injection
<1>7. \E i \in I : f[i] = n
  BY <1>6 DEF Surjection
<1> QED BY <1>7 DEF f

\* SortedBy arranges all of I, each element once, by ascending key.
LEMMA SortedByIsSorted ==
    ASSUME NEW I, NEW key, Sortable(I, key)
    PROVE  /\ Cardinality(I) \in Nat
           /\ SortedBy(I, key) \in [1..Cardinality(I) -> I]
           /\ \A i \in I : \E n \in 1..Cardinality(I) : SortedBy(I, key)[n] = i
           /\ \A m, n \in 1..Cardinality(I) :
                 m < n => KeyBefore(key[SortedBy(I, key)[m]], key[SortedBy(I, key)[n]])
<1> DEFINE s == SortedBy(I, key)
           c == Cardinality(I)
<1>1. c \in Nat
  BY FS_CardinalityType DEF Sortable
<1>2. ASSUME NEW n \in 1..c
      PROVE  s[n] \in I /\ RankOf(I, key, s[n]) = n
  <2>1. s[n] = CHOOSE i \in I : RankOf(I, key, i) = n
    BY DEF SortedBy, RankOf
  <2>2. \E i \in I : RankOf(I, key, i) = n
    BY RankIsTaken
  <2> DEFINE w == CHOOSE i \in I : RankOf(I, key, i) = n
  <2>3. w \in I /\ RankOf(I, key, w) = n
    BY <2>2
  <2>4. s[n] = w
    BY <2>1
  <2> HIDE DEF s, w
  <2> QED BY <2>3, <2>4
<1>3. s = [n \in 1..c |-> s[n]]
  <2> DEFINE W(n) == CHOOSE i \in I : Cardinality({j \in I : ~KeyBefore(key[i], key[j])}) = n
  <2>1. s = [n \in 1..c |-> W(n)]
    BY DEF SortedBy
  <2> HIDE DEF W, s
  <2> QED BY <2>1
<1>4. s \in [1..c -> I]
  BY <1>2, <1>3
<1>5. ASSUME NEW i \in I PROVE \E n \in 1..c : s[n] = i
  <2>1. RankOf(I, key, i) \in 1..c
    BY RankIsANumber
  <2>2. PICK n \in 1..c : n = RankOf(I, key, i)
    BY <2>1
  <2>3. s[n] \in I /\ RankOf(I, key, s[n]) = RankOf(I, key, i)
    BY <2>2, <1>2
  <2>4. s[n] = i
    BY <2>3, RankIsUnique
  <2> QED BY <2>4
<1>6. ASSUME NEW m \in 1..c, NEW n \in 1..c, m < n
      PROVE  KeyBefore(key[s[m]], key[s[n]])
  <2>1. s[m] \in I /\ s[n] \in I /\ RankOf(I, key, s[m]) = m /\ RankOf(I, key, s[n]) = n
    BY <1>2
  <2> HIDE DEF s
  <2>2. s[m] # s[n]
    BY <1>6, <2>1
  <2>3. key[s[m]] \in KeyPairs /\ key[s[n]] \in KeyPairs /\ key[s[m]] # key[s[n]]
    BY <2>1, <2>2 DEF Sortable
  <2>4. ASSUME KeyBefore(key[s[n]], key[s[m]]) PROVE FALSE
    <3>1. RankOf(I, key, s[n]) < RankOf(I, key, s[m])
      BY <2>1, <2>4, RankFollowsKey
    <3> QED BY <3>1, <2>1, <1>6
  <2> QED BY <2>3, <2>4, KeyOrder
<1> QED BY <1>1, <1>4, <1>5, <1>6

\* Picks keeps exactly the elements at the positions, in their order.
LEMMA PicksIsAFilter ==
    ASSUME NEW I \in SUBSET Int, IsFiniteSet(I), NEW s
    PROVE  /\ Cardinality(I) \in Nat
           /\ DOMAIN Picks(s, I) = 1..Cardinality(I)
           /\ Picks(s, I) = [n \in 1..Cardinality(I) |-> Picks(s, I)[n]]
           /\ \A n \in 1..Cardinality(I) : \E i \in I : Picks(s, I)[n] = s[i]
           /\ \A i \in I : \E n \in 1..Cardinality(I) : Picks(s, I)[n] = s[i]
<1> DEFINE key == [i \in I |-> <<0, i>>]
           order == SortedBy(I, key)
<1>1. Sortable(I, key)
  <2>1. key \in [I -> KeyPairs]
    BY DEF KeyPairs
  <2>2. \A i, j \in I : key[i] = key[j] => i = j
    OBVIOUS
  <2> HIDE DEF key
  <2> QED BY <2>1, <2>2 DEF Sortable
<1>2. Picks(s, I) = [n \in DOMAIN order |-> s[order[n]]]
  BY DEF Picks
<1> HIDE DEF key
<1>3. /\ Cardinality(I) \in Nat
      /\ order \in [1..Cardinality(I) -> I]
      /\ \A i \in I : \E n \in 1..Cardinality(I) : order[n] = i
  BY <1>1, SortedByIsSorted
<1> HIDE DEF order
<1>4. DOMAIN order = 1..Cardinality(I)
  BY <1>3
<1>5. Picks(s, I) = [n \in 1..Cardinality(I) |-> s[order[n]]]
  BY <1>2, <1>4
<1> QED BY <1>3, <1>5
=============================================================================
