--------------------------- MODULE KnowledgeProofs ---------------------------
(***************************************************************************)
(* What a run of the resolver knows and what it may say: every pack of     *)
(* evidence it holds was gathered by it or contributed by the thread, a    *)
(* reference names a gathered source, a source is held in one pack, and    *)
(* what is known is never forgotten.  The first half proves what the       *)
(* operators that merge, order and bound the packs compute, by induction   *)
(* over sets of numbers and sequences.                                     *)
(***************************************************************************)
EXTENDS ResearchProofs, WellFoundedInduction

-----------------------------------------------------------------------------
(* Induction over the numbers, of a set: WFMin gives the least exception.    *)
LEMMA Induction ==
    ASSUME NEW T, 0 \in T, \A n \in Nat : n \in T => n + 1 \in T
    PROVE  \A n \in Nat : n \in T
<1> SUFFICES ASSUME NEW k \in Nat, k \notin T PROVE FALSE
  OBVIOUS
<1> DEFINE R == OpToRel(<, Nat)
           U == Nat \ T
<1>1. IsWellFoundedOn(R, Nat)
  BY NatLessThanWellFounded
<1>2. U \subseteq Nat /\ U # {}
  OBVIOUS
<1>3. PICK m \in U : \A y \in U : ~(<<y, m>> \in R)
  <2> HIDE DEF R, U
  <2> QED BY <1>1, <1>2, WFMin
<1>4. \A y \in U : ~(y < m)
  BY <1>3 DEF OpToRel
<1>5. m \in Nat /\ m # 0
  OBVIOUS
<1>6. m - 1 \in Nat /\ m - 1 < m /\ m - 1 \in T
  BY <1>4, <1>5
<1> QED
  BY <1>5, <1>6

-----------------------------------------------------------------------------
(* Sorting.  An order that tells the elements of a set apart, as a relation. *)
IsOrder(R, S) ==
    /\ \A x \in S : <<x, x>> \notin R
    /\ \A x, y, z \in S : <<x, y>> \in R /\ <<y, z>> \in R => <<x, z>> \in R
    /\ \A x, y \in S : x # y => <<x, y>> \in R \/ <<y, x>> \in R

(* The elements before x, and how many they are.                             *)
Below(R, S, x) == {y \in S : <<y, x>> \in R}
Rank(R, S, x) == Cardinality(Below(R, S, x))

(* A rank is a number smaller than the set, and grows with the order.        *)
LEMMA RankGrows ==
    ASSUME NEW S, IsFiniteSet(S), NEW R, IsOrder(R, S)
    PROVE  /\ \A x \in S : Rank(R, S, x) \in Nat /\ Rank(R, S, x) < Cardinality(S)
           /\ \A x, y \in S : <<x, y>> \in R => Rank(R, S, x) < Rank(R, S, y)
<1>1. ASSUME NEW x \in S
      PROVE  /\ IsFiniteSet(Below(R, S, x))
             /\ Rank(R, S, x) \in Nat /\ Rank(R, S, x) < Cardinality(S)
  <2>1. Below(R, S, x) \in SUBSET S /\ x \notin Below(R, S, x)
    BY DEF Below, IsOrder
  <2>2. IsFiniteSet(Below(R, S, x)) /\ Rank(R, S, x) <= Cardinality(S)
        /\ (Cardinality(S) = Rank(R, S, x) => S = Below(R, S, x))
    BY <2>1, FS_Subset DEF Rank
  <2>3. Rank(R, S, x) \in Nat /\ Cardinality(S) \in Nat
    BY <2>2, FS_CardinalityType DEF Rank
  <2> QED
    BY <2>1, <2>2, <2>3
<1>2. ASSUME NEW x \in S, NEW y \in S, <<x, y>> \in R
      PROVE  Rank(R, S, x) < Rank(R, S, y)
  <2>1. Below(R, S, x) \in SUBSET Below(R, S, y)
    BY <1>2 DEF Below, IsOrder
  <2>2. x \in Below(R, S, y) /\ x \notin Below(R, S, x)
    BY <1>2 DEF Below, IsOrder
  <2>3. Rank(R, S, x) <= Rank(R, S, y)
        /\ (Rank(R, S, y) = Rank(R, S, x) => Below(R, S, y) = Below(R, S, x))
    BY <1>1, <2>1, FS_Subset DEF Rank
  <2> QED
    BY <1>1, <2>2, <2>3
<1> QED
  BY <1>1, <1>2

(* So each number up to the size of a set is the rank of one element.        *)
LEMMA RanksAre ==
    ASSUME NEW S, IsFiniteSet(S), NEW R, IsOrder(R, S)
    PROVE  /\ Cardinality(S) \in Nat
           /\ \A x, y \in S : Rank(R, S, x) = Rank(R, S, y) => x = y
           /\ \A n \in 0..(Cardinality(S) - 1) : \E x \in S : Rank(R, S, x) = n
<1> DEFINE n == Cardinality(S)
           T == 0..(n - 1)
           rank == [x \in S |-> Rank(R, S, x)]
<1>1. n \in Nat
  BY FS_CardinalityType
<1>2. IsFiniteSet(T) /\ Cardinality(T) = n
  <2>1. IsFiniteSet(T) /\ Cardinality(T) = IF 0 > n - 1 THEN 0 ELSE n - 1 - 0 + 1
    BY <1>1, FS_Interval
  <2> QED
    BY <1>1, <2>1
<1>3. ASSUME NEW x \in S, NEW y \in S, x # y PROVE Rank(R, S, x) # Rank(R, S, y)
  <2>1. <<x, y>> \in R \/ <<y, x>> \in R
    BY <1>3 DEF IsOrder
  <2>2. Rank(R, S, x) \in Nat /\ Rank(R, S, y) \in Nat
    BY RankGrows
  <2>3. Rank(R, S, x) < Rank(R, S, y) \/ Rank(R, S, y) < Rank(R, S, x)
    BY <2>1, RankGrows
  <2> QED
    BY <2>2, <2>3
<1>4. \A x \in S : Rank(R, S, x) \in T
  BY <1>1, RankGrows
<1>5. rank \in Injection(S, T)
  BY <1>3, <1>4 DEF Injection, IsInjective
<1>6. rank \in Surjection(S, T)
  <2> HIDE DEF rank, T
  <2> QED
    BY <1>2, <1>5, FS_Injection
<1>7. \A k \in T : \E x \in S : rank[x] = k
  BY <1>6 DEF Surjection
<1> QED
  BY <1>1, <1>3, <1>7

(* A sequence that has each element in the place of its rank.                *)
LEMMA PlacedIs ==
    ASSUME NEW S, IsFiniteSet(S), NEW R, IsOrder(R, S),
           NEW f \in [1..Cardinality(S) -> S],
           \A n \in 1..Cardinality(S) : Rank(R, S, f[n]) = n - 1
    PROVE  /\ f \in Seq(S) /\ Len(f) = Cardinality(S)
           /\ ToSet(f) = S
           /\ \A i, j \in 1..Cardinality(S) : i < j => <<f[i], f[j]>> \in R
           /\ \A i, j \in 1..Cardinality(S) : f[i] = f[j] => i = j
<1> PICK n : n = Cardinality(S)
  OBVIOUS
<1>1. n \in Nat
  BY RanksAre
<1>2. f \in Seq(S) /\ Len(f) = n
  BY <1>1
<1>3. ASSUME NEW x \in S PROVE x \in ToSet(f)
  <2>1. PICK k \in Nat : k = Rank(R, S, x) /\ k < n
    BY RankGrows
  <2>2. k + 1 \in 1..n
    BY <1>1, <2>1
  <2>3. Rank(R, S, f[k + 1]) = k
    BY <2>1, <2>2
  <2>4. f[k + 1] = x
    BY <2>1, <2>2, <2>3, RanksAre
  <2> QED
    BY <2>2, <2>4 DEF ToSet
<1>4. ToSet(f) \subseteq S
  BY DEF ToSet
<1>5. ASSUME NEW i \in 1..n, NEW j \in 1..n, i < j PROVE <<f[i], f[j]>> \in R
  <2>1. Rank(R, S, f[i]) = i - 1 /\ Rank(R, S, f[j]) = j - 1
    OBVIOUS
  <2>2. f[i] # f[j]
    BY <1>5, <2>1
  <2>3. f[i] \in S /\ f[j] \in S
    OBVIOUS
  <2>4. ~(<<f[j], f[i]>> \in R)
    BY <1>5, <2>1, <2>3, RankGrows
  <2> QED
    BY <2>2, <2>3, <2>4 DEF IsOrder
<1>6. ASSUME NEW i \in 1..n, NEW j \in 1..n, f[i] = f[j] PROVE i = j
  <2>1. Rank(R, S, f[i]) = i - 1 /\ Rank(R, S, f[j]) = j - 1
    OBVIOUS
  <2> QED
    BY <1>6, <2>1
<1> QED
  BY <1>2, <1>3, <1>4, <1>5, <1>6

(* A sequence in which nothing is twice.                                     *)
IsListing(f) == IsSeq(f) /\ \A i, j \in 1..Len(f) : f[i] = f[j] => i = j

(* Sorting is that sequence.                                                 *)
Listed(R, S) == [n \in 1..Cardinality(S) |-> CHOOSE x \in S : Rank(R, S, x) = n - 1]

(* Listed puts every element of a finite ordered set in a sequence once, in  *)
(* its order.                                                                *)
LEMMA ListedIs ==
    ASSUME NEW S, IsFiniteSet(S), NEW R, IsOrder(R, S)
    PROVE  /\ Listed(R, S) \in Seq(S) /\ Len(Listed(R, S)) = Cardinality(S)
           /\ ToSet(Listed(R, S)) = S
           /\ \A i, j \in 1..Cardinality(S) : i < j => <<Listed(R, S)[i], Listed(R, S)[j]>> \in R
           /\ \A i, j \in 1..Cardinality(S) : Listed(R, S)[i] = Listed(R, S)[j] => i = j
<1> PICK f : f = Listed(R, S)
  OBVIOUS
<1>1. ASSUME NEW n \in 1..Cardinality(S) PROVE f[n] \in S /\ Rank(R, S, f[n]) = n - 1
  <2>1. n - 1 \in 0..(Cardinality(S) - 1)
    BY FS_CardinalityType
  <2>2. \E x \in S : Rank(R, S, x) = n - 1
    BY <2>1, RanksAre
  <2>3. f[n] = CHOOSE x \in S : Rank(R, S, x) = n - 1
    BY DEF Listed
  <2> QED
    BY <2>2, <2>3
<1>2. f \in [1..Cardinality(S) -> S]
  <2>1. f = [n \in 1..Cardinality(S) |-> f[n]]
    BY DEF Listed
  <2> QED
    BY <1>1, <2>1
<1> QED
  <2>1. Cardinality(S) \in Nat
    BY FS_CardinalityType
  <2> QED
    BY <1>1, <1>2, <2>1, PlacedIs

-----------------------------------------------------------------------------
(* The first of a set: those that fewer than so many come before.            *)
First(R, S) == {x \in S : Rank(R, S, x) < MaxPacks}

(* They are few.                                                             *)
LEMMA FewFirst ==
    ASSUME NEW S, IsFiniteSet(S), NEW R, IsOrder(R, S)
    PROVE  /\ IsFiniteSet(First(R, S)) /\ Cardinality(First(R, S)) \in Nat
           /\ Cardinality(First(R, S)) <= MaxPacks
<1> DEFINE F == First(R, S)
           T == 0..(MaxPacks - 1)
           rank == [x \in F |-> Rank(R, S, x)]
<1>1. MaxPacks \in Nat
  BY MaxPacksAssumption
<1>2. IsFiniteSet(T) /\ Cardinality(T) = MaxPacks
  <2>1. IsFiniteSet(T) /\ Cardinality(T) = IF 0 > MaxPacks - 1 THEN 0 ELSE MaxPacks - 1 - 0 + 1
    BY <1>1, FS_Interval
  <2> QED
    BY <1>1, <2>1
<1>3. ASSUME NEW x \in F PROVE x \in S /\ Rank(R, S, x) \in T
  <2>1. x \in S /\ Rank(R, S, x) < MaxPacks
    BY DEF First
  <2>2. Rank(R, S, x) \in Nat
    BY <2>1, RankGrows
  <2> QED
    BY <1>1, <2>1, <2>2
<1>4. ASSUME NEW x \in F, NEW y \in F, Rank(R, S, x) = Rank(R, S, y) PROVE x = y
  BY <1>3, <1>4, RanksAre
<1>5. rank \in Injection(F, T)
  <2> HIDE DEF F, T
  <2> QED
    BY <1>3, <1>4 DEF Injection, IsInjective
<1> HIDE DEF F, T, rank
<1>6. IsFiniteSet(F) /\ Cardinality(F) <= Cardinality(T)
  BY <1>2, <1>5, FS_Injection
<1> QED
  BY <1>2, <1>6, FS_CardinalityType DEF F

(* An order of a set is one of its parts.                                    *)
LEMMA OrderOfPart ==
    ASSUME NEW S, NEW T \in SUBSET S, NEW R, IsOrder(R, S)
    PROVE  IsOrder(R, T)
BY DEF IsOrder

(* Fewer come before an element in a part of a set.                          *)
LEMMA RankInPart ==
    ASSUME NEW S, IsFiniteSet(S), NEW R, IsOrder(R, S), NEW T \in SUBSET S, NEW x \in S
    PROVE  /\ IsFiniteSet(T)
           /\ Rank(R, T, x) \in Nat /\ Rank(R, S, x) \in Nat
           /\ Rank(R, T, x) <= Rank(R, S, x)
<1>1. Below(R, T, x) \in SUBSET Below(R, S, x) /\ Below(R, S, x) \in SUBSET S
  BY DEF Below
<1>2. IsFiniteSet(T) /\ IsFiniteSet(Below(R, S, x))
  BY <1>1, FS_Subset
<1>3. IsFiniteSet(Below(R, T, x)) /\ Rank(R, T, x) <= Rank(R, S, x)
  BY <1>1, <1>2, FS_Subset DEF Rank
<1> QED
  BY <1>2, <1>3, FS_CardinalityType DEF Rank

(* What is not among the first of a set has MaxPacks of them before it.      *)
LEMMA FirstFill ==
    ASSUME NEW S, IsFiniteSet(S), NEW R, IsOrder(R, S), NEW x \in S, x \notin First(R, S)
    PROVE  Rank(R, First(R, S), x) >= MaxPacks
<1> DEFINE F == First(R, S)
           T == 0..(MaxPacks - 1)
           rank == [y \in {z \in S : Rank(R, S, z) \in T} |-> Rank(R, S, y)]
<1>1. MaxPacks \in Nat
  BY MaxPacksAssumption
<1>2. \A y \in S : Rank(R, S, y) \in Nat /\ Rank(R, S, y) < Cardinality(S)
  BY RankGrows
<1>3. Rank(R, S, x) >= MaxPacks
  BY <1>1, <1>2 DEF First
<1>4. F = {z \in S : Rank(R, S, z) \in T}
  BY <1>1, <1>2 DEF First
<1>5. \A y \in F : <<y, x>> \in R
  <2> SUFFICES ASSUME NEW y \in F PROVE <<y, x>> \in R
    OBVIOUS
  <2>1. y \in S /\ Rank(R, S, y) < Rank(R, S, x)
    BY <1>1, <1>2, <1>3 DEF First
  <2>2. y # x /\ ~(<<x, y>> \in R)
    BY <1>2, <2>1, RankGrows
  <2> QED
    BY <2>1, <2>2 DEF IsOrder
<1>6. Below(R, F, x) = F
  BY <1>5 DEF Below
<1>7. F \in SUBSET S /\ IsFiniteSet(F)
  <2>1. F \in SUBSET S
    BY DEF First
  <2> QED
    BY <2>1, FS_Subset
<1>8. IsFiniteSet(T) /\ Cardinality(T) = MaxPacks
  <2>1. IsFiniteSet(T) /\ Cardinality(T) = IF 0 > MaxPacks - 1 THEN 0 ELSE MaxPacks - 1 - 0 + 1
    BY <1>1, FS_Interval
  <2> QED
    BY <1>1, <2>1
<1>9. rank \in Surjection(F, T)
  <2>1. ASSUME NEW k \in T PROVE \E y \in F : rank[y] = k
    <3>1. k \in 0..(Cardinality(S) - 1)
      <4>1. Cardinality(S) \in Nat
        BY FS_CardinalityType
      <4> QED
        BY <1>1, <1>2, <1>3, <4>1
    <3>2. PICK y \in S : Rank(R, S, y) = k
      BY <3>1, RanksAre
    <3> QED
      BY <1>4, <3>2
  <2>2. rank \in [F -> T]
    BY <1>4
  <2> HIDE DEF rank, T, F
  <2> QED
    BY <2>1, <2>2 DEF Surjection
<1>10. Cardinality(T) <= Cardinality(F)
  <2> HIDE DEF rank, T, F
  <2> QED
    BY <1>7, <1>9, FS_Surjection
<1>11. Cardinality(F) \in Nat
  BY <1>7, FS_CardinalityType
<1> QED
  BY <1>1, <1>6, <1>8, <1>10, <1>11 DEF Rank

(* Taking the first of some elements beforehand changes nothing: what they   *)
(* leave out would not be among the first of all.                            *)
LEMMA FirstOfFirst ==
    ASSUME NEW U, NEW R, IsOrder(R, U),
           NEW S \in SUBSET U, NEW T \in SUBSET U, IsFiniteSet(S), IsFiniteSet(T)
    PROVE  First(R, First(R, S) \cup T) = First(R, S \cup T)
<1> DEFINE A == S \cup T
           B == First(R, S) \cup T
<1>1. /\ A \in SUBSET U /\ B \in SUBSET A /\ S \in SUBSET A
      /\ IsFiniteSet(A) /\ IsFiniteSet(B) /\ IsOrder(R, A) /\ IsOrder(R, S)
  <2>1. A \in SUBSET U /\ B \in SUBSET A /\ S \in SUBSET A
    BY DEF First
  <2>2. IsFiniteSet(A)
    BY FS_Union
  <2> QED
    BY <2>1, <2>2, FS_Subset, OrderOfPart
<1>2. MaxPacks \in Nat
  BY MaxPacksAssumption
<1>3. ASSUME NEW x \in First(R, A) PROVE x \in First(R, B)
  <2>1. x \in A /\ Rank(R, A, x) < MaxPacks
    BY DEF First
  <2>2. ASSUME NEW P \in SUBSET A PROVE Rank(R, P, x) < MaxPacks
    <3> HIDE DEF A
    <3>1. Rank(R, P, x) \in Nat /\ Rank(R, A, x) \in Nat /\ Rank(R, P, x) <= Rank(R, A, x)
      BY <1>1, <2>1, RankInPart
    <3> QED
      BY <1>2, <2>1, <3>1
  <2>3. x \in S => x \in First(R, S)
    BY <1>1, <2>2 DEF First
  <2>4. x \in B
    BY <2>1, <2>3
  <2> QED
    BY <1>1, <2>2, <2>4 DEF First
<1>4. ASSUME NEW x \in First(R, B) PROVE x \in First(R, A)
  <2>1. x \in B /\ x \in A /\ Rank(R, B, x) < MaxPacks
    BY <1>1 DEF First
  <2>2. CASE \E y \in Below(R, A, x) : y \notin B
    <3>1. PICK y \in A : <<y, x>> \in R /\ y \notin B
      BY <2>2 DEF Below
    <3>2. y \in S /\ y \notin First(R, S)
      BY <3>1
    <3>3. Rank(R, First(R, S), y) >= MaxPacks
      BY <1>1, <3>2, FirstFill
    <3>4. Below(R, First(R, S), y) \in SUBSET Below(R, B, x)
      BY <1>1, <2>1, <3>1 DEF Below, IsOrder
    <3>5. IsFiniteSet(Below(R, B, x)) /\ Cardinality(Below(R, B, x)) \in Nat
      <4>1. Below(R, B, x) \in SUBSET B
        BY DEF Below
      <4> QED
        BY <1>1, <4>1, FS_Subset, FS_CardinalityType
    <3>6. /\ Rank(R, First(R, S), y) <= Rank(R, B, x) /\ Rank(R, B, x) \in Nat
          /\ Rank(R, First(R, S), y) \in Nat
      BY <3>4, <3>5, FS_Subset, FS_CardinalityType DEF Rank
    <3> QED
      BY <1>2, <2>1, <3>3, <3>6
  <2>3. CASE \A y \in Below(R, A, x) : y \in B
    <3>1. Below(R, A, x) = Below(R, B, x)
      BY <1>1, <2>3 DEF Below
    <3> QED
      BY <2>1, <3>1 DEF First, Rank
  <2> QED
    BY <2>2, <2>3
<1> QED
  BY <1>3, <1>4

-----------------------------------------------------------------------------
(* Packs.  A pack has three numbers that tell it from others, and sources.   *)
IsPack(p) ==
    /\ p = [order |-> p.order, problem |-> p.problem, query |-> p.query,
            sources |-> p.sources]
    /\ p.order \in Int /\ p.problem \in Int /\ p.query \in Int

IsPacks(S) == IsFiniteSet(S) /\ \A p \in S : IsPack(p)

KeyOf(p) == <<p.order, p.problem, p.query>>
Keys(S) == {KeyOf(p) : p \in S}
AllKeys == Int \X Int \X Int

(* All that the packs of a set hold under a key, as one pack.                *)
PackFor(S, k) ==
    [order |-> k[1], problem |-> k[2], query |-> k[3],
     sources |-> UNION {p.sources : p \in {q \in S : KeyOf(q) = k}}]

(* The three orders of packs, of their keys.                                 *)
KeyNewer(j, k) ==
    \/ j[1] > k[1]
    \/ j[1] = k[1] /\ j[3] < k[3]
    \/ j[1] = k[1] /\ j[3] = k[3] /\ j[2] < k[2]
NewerKeys == {jk \in AllKeys \X AllKeys : KeyNewer(jk[1], jk[2])}

(* Newer keys tell any keys apart.                                           *)
LEMMA NewerOrders == IsOrder(NewerKeys, AllKeys)
<1>1. ASSUME NEW k \in AllKeys PROVE /\ k[1] \in Int /\ k[2] \in Int /\ k[3] \in Int
                                    /\ k = <<k[1], k[2], k[3]>>
  BY DEF AllKeys
<1>2. \A j, k \in AllKeys : <<j, k>> \in NewerKeys <=> KeyNewer(j, k)
  BY DEF NewerKeys
<1>3. \A k \in AllKeys : ~KeyNewer(k, k)
  BY <1>1 DEF KeyNewer
<1>4. \A i, j, k \in AllKeys : KeyNewer(i, j) /\ KeyNewer(j, k) => KeyNewer(i, k)
  BY <1>1 DEF KeyNewer
<1>5. \A j, k \in AllKeys : j # k => KeyNewer(j, k) \/ KeyNewer(k, j)
  BY <1>1 DEF KeyNewer
<1> QED
  BY <1>2, <1>3, <1>4, <1>5 DEF IsOrder

(* A set of packs that no two share a key.                                   *)
IsKeyed(S) == IsPacks(S) /\ \A p, q \in S : KeyOf(p) = KeyOf(q) => p = q

(* Each of the three orders tells the packs of such a set apart.             *)
PrecedesIn(S) == {pq \in S \X S : Precedes(pq[1], pq[2])}
NewerIn(S) == {pq \in S \X S : Newer(pq[1], pq[2])}
ChronologicalIn(S) == {pq \in S \X S : Chronological(pq[1], pq[2])}

(* Packs with different keys are told apart by each of the three orders that *)
(* sort them.                                                                *)
LEMMA PacksOrdered ==
    ASSUME NEW S, IsKeyed(S)
    PROVE  /\ IsOrder(PrecedesIn(S), S) /\ IsOrder(ChronologicalIn(S), S)
           /\ IsOrder(NewerIn(S), S)
<1>1. \A p \in S : p.order \in Int /\ p.problem \in Int /\ p.query \in Int
  BY DEF IsKeyed, IsPacks, IsPack
<1>2. \A p, q \in S : p.order = q.order /\ p.problem = q.problem /\ p.query = q.query => p = q
  BY DEF IsKeyed, KeyOf
<1>3. IsOrder(PrecedesIn(S), S)
  <2>1. \A p, q \in S : <<p, q>> \in PrecedesIn(S) <=> Precedes(p, q)
    BY DEF PrecedesIn
  <2>2. \A p \in S : ~Precedes(p, p)
    BY <1>1 DEF Precedes
  <2>3. \A p, q, r \in S : Precedes(p, q) /\ Precedes(q, r) => Precedes(p, r)
    BY <1>1 DEF Precedes
  <2>4. \A p, q \in S : p # q => Precedes(p, q) \/ Precedes(q, p)
    BY <1>1, <1>2 DEF Precedes
  <2> QED
    BY <2>1, <2>2, <2>3, <2>4 DEF IsOrder
<1>4. IsOrder(ChronologicalIn(S), S)
  <2>1. \A p, q \in S : <<p, q>> \in ChronologicalIn(S) <=> Chronological(p, q)
    BY DEF ChronologicalIn
  <2>2. \A p \in S : ~Chronological(p, p)
    BY <1>1 DEF Chronological
  <2>3. \A p, q, r \in S : Chronological(p, q) /\ Chronological(q, r) => Chronological(p, r)
    BY <1>1 DEF Chronological
  <2>4. \A p, q \in S : p # q => Chronological(p, q) \/ Chronological(q, p)
    BY <1>1, <1>2 DEF Chronological
  <2> QED
    BY <2>1, <2>2, <2>3, <2>4 DEF IsOrder
<1>5. IsOrder(NewerIn(S), S)
  <2>1. \A p, q \in S : <<p, q>> \in NewerIn(S) <=> Newer(p, q)
    BY DEF NewerIn
  <2>2. \A p \in S : ~Newer(p, p)
    BY <1>1 DEF Newer
  <2>3. \A p, q, r \in S : Newer(p, q) /\ Newer(q, r) => Newer(p, r)
    BY <1>1 DEF Newer
  <2>4. \A p, q \in S : p # q => Newer(p, q) \/ Newer(q, p)
    BY <1>1, <1>2 DEF Newer
  <2> QED
    BY <2>1, <2>2, <2>3, <2>4 DEF IsOrder
<1> QED
  BY <1>3, <1>4, <1>5

(* So sorting them by name, as a join does, lists them;                      *)
LEMMA SortedByName ==
    ASSUME NEW S, IsKeyed(S)
    PROVE  /\ InOrder(S, Precedes) \in Seq(S) /\ Len(InOrder(S, Precedes)) = Cardinality(S)
           /\ ToSet(InOrder(S, Precedes)) = S /\ IsListing(InOrder(S, Precedes))
<1> PICK R : R = PrecedesIn(S)
  OBVIOUS
<1>1. IsFiniteSet(S) /\ IsOrder(R, S)
  BY PacksOrdered DEF IsKeyed, IsPacks
<1>2. \A x \in S : {y \in S : Precedes(y, x)} = Below(R, S, x)
  BY DEF PrecedesIn, Below
<1>3. InOrder(S, Precedes) = Listed(R, S)
  <2> DEFINE At(n) == CHOOSE x \in S : Cardinality({y \in S : Precedes(y, x)}) = n - 1
             f == [n \in 1..Cardinality(S) |-> At(n)]
  <2>1. InOrder(S, Precedes) = f
    BY DEF InOrder
  <2>2. ASSUME NEW n \in 1..Cardinality(S)
        PROVE  At(n) = CHOOSE x \in S : Rank(R, S, x) = n - 1
    <3>1. \A x : (x \in S /\ Cardinality({y \in S : Precedes(y, x)}) = n - 1)
                   <=> (x \in S /\ Rank(R, S, x) = n - 1)
      BY <1>2 DEF Rank
    <3> QED
      BY <3>1
  <2> HIDE DEF At
  <2>3. f = Listed(R, S)
    BY <2>2 DEF Listed
  <2> QED
    BY <2>1, <2>3
<1> PICK g : g = InOrder(S, Precedes)
  OBVIOUS
<1>4. /\ g \in Seq(S) /\ Len(g) = Cardinality(S) /\ ToSet(g) = S
      /\ \A i, j \in 1..Cardinality(S) : g[i] = g[j] => i = j
  BY <1>1, <1>3, ListedIs
<1>5. IsListing(g)
  BY <1>4, IsSeqOf DEF IsListing
<1> QED
  BY <1>4, <1>5

(* and so does sorting them by time, as keeping the newest does.             *)
LEMMA SortedByTime ==
    ASSUME NEW S, IsKeyed(S)
    PROVE  /\ InOrder(S, Chronological) \in Seq(S)
           /\ Len(InOrder(S, Chronological)) = Cardinality(S)
           /\ ToSet(InOrder(S, Chronological)) = S /\ IsListing(InOrder(S, Chronological))
<1> PICK R : R = ChronologicalIn(S)
  OBVIOUS
<1>1. IsFiniteSet(S) /\ IsOrder(R, S)
  BY PacksOrdered DEF IsKeyed, IsPacks
<1>2. \A x \in S : {y \in S : Chronological(y, x)} = Below(R, S, x)
  BY DEF ChronologicalIn, Below
<1>3. InOrder(S, Chronological) = Listed(R, S)
  <2> DEFINE At(n) == CHOOSE x \in S : Cardinality({y \in S : Chronological(y, x)}) = n - 1
             f == [n \in 1..Cardinality(S) |-> At(n)]
  <2>1. InOrder(S, Chronological) = f
    BY DEF InOrder
  <2>2. ASSUME NEW n \in 1..Cardinality(S)
        PROVE  At(n) = CHOOSE x \in S : Rank(R, S, x) = n - 1
    <3>1. \A x : (x \in S /\ Cardinality({y \in S : Chronological(y, x)}) = n - 1)
                   <=> (x \in S /\ Rank(R, S, x) = n - 1)
      BY <1>2 DEF Rank
    <3> QED
      BY <3>1
  <2> HIDE DEF At
  <2>3. f = Listed(R, S)
    BY <2>2 DEF Listed
  <2> QED
    BY <2>1, <2>3
<1> PICK g : g = InOrder(S, Chronological)
  OBVIOUS
<1>4. /\ g \in Seq(S) /\ Len(g) = Cardinality(S) /\ ToSet(g) = S
      /\ \A i, j \in 1..Cardinality(S) : g[i] = g[j] => i = j
  BY <1>1, <1>3, ListedIs
<1>5. IsListing(g)
  BY <1>4, IsSeqOf DEF IsListing
<1> QED
  BY <1>4, <1>5

(* A pack with other sources.                                                *)
LEMMA SourcesSet ==
    ASSUME NEW p, IsPack(p), NEW w
    PROVE  [p EXCEPT !.sources = w]
             = [order |-> p.order, problem |-> p.problem, query |-> p.query, sources |-> w]
BY DEF IsPack

(* What a join makes of the packs of a set: one for each key.                *)
MergedPacks(S) == {[p EXCEPT !.sources = UNION {q.sources : q \in {r \in S : SamePack(p, r)}}]
                : p \in S}

(* Merging keeps one pack for each key, the one PackFor chooses.             *)
LEMMA MergeIs ==
    ASSUME NEW S, IsPacks(S)
    PROVE  /\ MergedPacks(S) = {PackFor(S, k) : k \in Keys(S)}
           /\ IsKeyed(MergedPacks(S))
           /\ Keys(S) \in SUBSET AllKeys /\ IsFiniteSet(Keys(S))
<1>1. \A p \in S : IsPack(p) /\ KeyOf(p) \in AllKeys
  BY DEF IsPacks, IsPack, KeyOf, AllKeys
<1>2. ASSUME NEW p \in S
      PROVE  [p EXCEPT !.sources = UNION {q.sources : q \in {r \in S : SamePack(p, r)}}]
                = PackFor(S, KeyOf(p))
  <2> PICK w : w = UNION {q.sources : q \in {r \in S : SamePack(p, r)}}
    OBVIOUS
  <2>1. {r \in S : SamePack(p, r)} = {r \in S : KeyOf(r) = KeyOf(p)}
    BY DEF SamePack, KeyOf
  <2>2. [p EXCEPT !.sources = w]
          = [order |-> p.order, problem |-> p.problem, query |-> p.query, sources |-> w]
    BY <1>1, SourcesSet
  <2>3. PackFor(S, KeyOf(p))
          = [order |-> p.order, problem |-> p.problem, query |-> p.query, sources |-> w]
    BY <2>1 DEF PackFor, KeyOf
  <2> QED
    BY <2>2, <2>3
<1>3. MergedPacks(S) = {PackFor(S, k) : k \in Keys(S)}
  <2>1. \A p \in S : KeyOf(p) \in Keys(S)
    BY DEF Keys
  <2>2. \A k \in Keys(S) : \E p \in S : k = KeyOf(p)
    BY DEF Keys
  <2>3. ASSUME NEW x \in MergedPacks(S) PROVE x \in {PackFor(S, k) : k \in Keys(S)}
    <3>1. PICK p \in S : x = [p EXCEPT !.sources =
                                UNION {q.sources : q \in {r \in S : SamePack(p, r)}}]
      BY DEF MergedPacks
    <3> QED
      BY <1>2, <2>1, <3>1
  <2>4. ASSUME NEW k \in Keys(S) PROVE PackFor(S, k) \in MergedPacks(S)
    <3>1. PICK p \in S : k = KeyOf(p)
      BY <2>2
    <3>2. PackFor(S, k) = [p EXCEPT !.sources =
                             UNION {q.sources : q \in {r \in S : SamePack(p, r)}}]
      BY <1>2, <3>1
    <3> QED
      BY <3>2 DEF MergedPacks
  <2> QED
    BY <2>3, <2>4
<1>4. Keys(S) \in SUBSET AllKeys
  BY <1>1 DEF Keys
<1>5. IsFiniteSet(Keys(S))
  <2> DEFINE f == [p \in S |-> KeyOf(p)]
  <2>1. f \in Surjection(S, Keys(S))
    BY DEF Surjection, Keys
  <2> HIDE DEF f
  <2> QED
    BY <2>1, FS_Surjection DEF IsPacks
<1>6. ASSUME NEW k \in Keys(S)
      PROVE  IsPack(PackFor(S, k)) /\ KeyOf(PackFor(S, k)) = k
  <2>1. k = <<k[1], k[2], k[3]>> /\ k[1] \in Int /\ k[2] \in Int /\ k[3] \in Int
    BY <1>4 DEF AllKeys
  <2> QED
    BY <2>1 DEF IsPack, PackFor, KeyOf
<1>7. IsFiniteSet(MergedPacks(S))
  <2> DEFINE f == [k \in Keys(S) |-> PackFor(S, k)]
  <2>1. f \in Surjection(Keys(S), MergedPacks(S))
    BY <1>3 DEF Surjection
  <2> HIDE DEF f
  <2> QED
    BY <1>5, <2>1, FS_Surjection
<1>8. IsKeyed(MergedPacks(S))
  BY <1>3, <1>6, <1>7 DEF IsKeyed, IsPacks
<1> QED
  BY <1>3, <1>4, <1>5, <1>8

(* The newest of the packs of a set.                                         *)
Kept(S) == {PackFor(S, k) : k \in First(NewerKeys, Keys(S))}

(* The newest packs of the merged ones, as a set.                            *)
LEMMA LatestIs ==
    ASSUME NEW S, IsPacks(S)
    PROVE  Latest(MergedPacks(S)) = Kept(S)
<1> DEFINE M == MergedPacks(S)
           K == Keys(S)
<1>1. M = {PackFor(S, k) : k \in K} /\ IsKeyed(M) /\ K \in SUBSET AllKeys /\ IsFiniteSet(K)
  BY MergeIs
<1>2. \A k \in K : /\ k[1] \in Int /\ k[2] \in Int /\ k[3] \in Int /\ k = <<k[1], k[2], k[3]>>
                   /\ PackFor(S, k) \in M
  BY <1>1 DEF AllKeys
<1>3. \A k \in K : KeyOf(PackFor(S, k)) = k
  BY <1>2 DEF KeyOf, PackFor
<1>4. \A j, k \in K : Newer(PackFor(S, j), PackFor(S, k)) <=> <<j, k>> \in NewerKeys
  <2>1. \A j, k \in K : <<j, k>> \in NewerKeys <=> KeyNewer(j, k)
    BY <1>1 DEF NewerKeys
  <2>2. \A k \in K : /\ PackFor(S, k).order = k[1] /\ PackFor(S, k).problem = k[2]
                     /\ PackFor(S, k).query = k[3]
    BY DEF PackFor
  <2>3. ASSUME NEW j \in K, NEW k \in K
        PROVE  Newer(PackFor(S, j), PackFor(S, k)) <=> KeyNewer(j, k)
    BY <2>2 DEF Newer, KeyNewer
  <2> QED
    BY <2>1, <2>3
<1>5. ASSUME NEW k \in K
      PROVE  Cardinality({q \in M : Newer(q, PackFor(S, k))}) = Rank(NewerKeys, K, k)
  <2> DEFINE A == {j \in K : <<j, k>> \in NewerKeys}
             B == {q \in M : Newer(q, PackFor(S, k))}
             f == [j \in A |-> PackFor(S, j)]
  <2>1. f \in Injection(A, B)
    <3>1. \A j \in A : PackFor(S, j) \in B
      BY <1>2, <1>4
    <3>2. \A i, j \in A : PackFor(S, i) = PackFor(S, j) => i = j
      BY <1>3
    <3> QED
      BY <3>1, <3>2 DEF Injection, IsInjective
  <2>2. f \in Surjection(A, B)
    <3>1. \A q \in B : \E j \in A : q = PackFor(S, j)
      BY <1>1, <1>4
    <3> QED
      BY <2>1, <3>1 DEF Surjection, Injection
  <2>3. IsFiniteSet(A)
    <3>1. A \in SUBSET K
      OBVIOUS
    <3> QED
      BY <1>1, <3>1, FS_Subset
  <2> HIDE DEF A, B, f
  <2>4. Cardinality(A) = Cardinality(B)
    BY <2>1, <2>2, <2>3, FS_Surjection
  <2> QED
    BY <2>4 DEF A, B, Rank, Below
<1>6. \A k \in K : PackFor(S, k) \in Latest(M) <=> k \in First(NewerKeys, K)
  BY <1>2, <1>5 DEF Latest, First
<1>7. Latest(M) \subseteq M /\ First(NewerKeys, K) \subseteq K
  BY DEF Latest, First
<1> QED
  BY <1>1, <1>6, <1>7 DEF Kept

(* A bounded join keeps the newest packs of both.                            *)
LEMMA JoinKeeps ==
    ASSUME NEW a, NEW b, IsPacks(ToSet(a) \cup ToSet(b))
    PROVE  /\ ToSet(Bounded(JoinEvidence(a, b))) = Kept(ToSet(a) \cup ToSet(b))
           /\ IsListing(Bounded(JoinEvidence(a, b)))
           /\ Len(Bounded(JoinEvidence(a, b))) <= MaxPacks
<1> DEFINE S == ToSet(a) \cup ToSet(b)
           M == MergedPacks(S)
           e == InOrder(M, Precedes)
<1>1. JoinEvidence(a, b) = e
  BY DEF JoinEvidence, MergedPacks
<1>2. IsKeyed(M) /\ IsFiniteSet(M)
  BY MergeIs DEF IsKeyed, IsPacks
<1>3. Len(e) = Cardinality(M) /\ ToSet(e) = M /\ IsListing(e)
  <2> HIDE DEF M
  <2> QED
    BY <1>2, SortedByName
<1>4. Latest(M) = Kept(S)
  BY LatestIs
<1>5. Cardinality(M) \in Nat /\ MaxPacks \in Nat
  BY <1>2, FS_CardinalityType, MaxPacksAssumption
<1> HIDE DEF M, e, S
<1>6. CASE Len(e) <= MaxPacks
  <2>1. ASSUME NEW p \in M PROVE Cardinality({q \in M : Newer(q, p)}) < MaxPacks
    <3>1. IsOrder(NewerIn(M), M)
      BY <1>2, PacksOrdered
    <3>2. {q \in M : Newer(q, p)} = Below(NewerIn(M), M, p)
      BY DEF NewerIn, Below
    <3>3. Rank(NewerIn(M), M, p) \in Nat /\ Rank(NewerIn(M), M, p) < Cardinality(M)
      BY <1>2, <3>1, RankGrows
    <3>4. Rank(NewerIn(M), M, p) = Cardinality({q \in M : Newer(q, p)})
      BY <3>2 DEF Rank
    <3>5. Cardinality(M) <= MaxPacks
      BY <1>3, <1>6
    <3> QED
      BY <1>5, <3>3, <3>4, <3>5
  <2>2. Latest(M) = M
    BY <2>1 DEF Latest
  <2> QED
    BY <1>1, <1>3, <1>4, <1>5, <1>6, <2>2 DEF Bounded, S
<1>7. CASE ~(Len(e) <= MaxPacks)
  <2>1. Latest(M) \in SUBSET M
    BY DEF Latest
  <2>2. IsKeyed(Latest(M))
    BY <1>2, <2>1, FS_Subset DEF IsKeyed, IsPacks
  <2>3. /\ ToSet(InOrder(Latest(M), Chronological)) = Latest(M)
        /\ IsListing(InOrder(Latest(M), Chronological))
        /\ Len(InOrder(Latest(M), Chronological)) = Cardinality(Latest(M))
    BY <2>2, SortedByTime
  <2>4. Latest(M) = First(NewerIn(M), M)
    <3>1. \A p \in M : {q \in M : Newer(q, p)} = Below(NewerIn(M), M, p)
      BY DEF NewerIn, Below
    <3> QED
      BY <3>1 DEF Latest, First, Rank
  <2>5. Cardinality(Latest(M)) <= MaxPacks
    BY <1>2, <2>4, PacksOrdered, FewFirst
  <2>6. Bounded(e) = InOrder(Latest(M), Chronological)
    BY <1>3, <1>7 DEF Bounded
  <2> QED
    BY <1>1, <1>4, <2>3, <2>5, <2>6 DEF S
<1> QED
  BY <1>6, <1>7

(* The packs that are kept are packs, with the keys that come first.         *)
LEMMA KeptPacks ==
    ASSUME NEW S, IsPacks(S)
    PROVE  /\ IsPacks(Kept(S)) /\ IsKeyed(Kept(S))
           /\ Keys(Kept(S)) = First(NewerKeys, Keys(S))
           /\ \A k \in First(NewerKeys, Keys(S)) : PackFor(Kept(S), k) = PackFor(S, k)
<1>1. /\ MergedPacks(S) = {PackFor(S, k) : k \in Keys(S)} /\ IsKeyed(MergedPacks(S))
      /\ Keys(S) \in SUBSET AllKeys
  BY MergeIs
<1>2. First(NewerKeys, Keys(S)) \in SUBSET Keys(S)
  BY DEF First
<1>3. Kept(S) \in SUBSET MergedPacks(S)
  BY <1>1, <1>2 DEF Kept
<1>4. IsKeyed(Kept(S))
  BY <1>1, <1>3, FS_Subset DEF IsKeyed, IsPacks
<1>5. \A k \in Keys(S) : KeyOf(PackFor(S, k)) = k
  <2>1. \A k \in Keys(S) : k = <<k[1], k[2], k[3]>>
    BY <1>1 DEF AllKeys
  <2> QED
    BY <2>1 DEF PackFor, KeyOf
<1>6. Keys(Kept(S)) = First(NewerKeys, Keys(S))
  <2>1. Keys(Kept(S)) = {KeyOf(p) : p \in Kept(S)}
    BY DEF Keys
  <2>2. ASSUME NEW k \in First(NewerKeys, Keys(S)) PROVE k \in Keys(Kept(S))
    <3>1. PackFor(S, k) \in Kept(S) /\ KeyOf(PackFor(S, k)) = k
      BY <1>2, <1>5 DEF Kept
    <3> QED
      BY <2>1, <3>1
  <2>3. ASSUME NEW k \in Keys(Kept(S)) PROVE k \in First(NewerKeys, Keys(S))
    <3>1. PICK p \in Kept(S) : k = KeyOf(p)
      BY <2>1
    <3>2. PICK j \in First(NewerKeys, Keys(S)) : p = PackFor(S, j)
      BY DEF Kept
    <3> QED
      BY <1>2, <1>5, <3>1, <3>2
  <2> QED
    BY <2>2, <2>3
<1>7. ASSUME NEW k \in First(NewerKeys, Keys(S)) PROVE PackFor(Kept(S), k) = PackFor(S, k)
  <2>1. k \in Keys(S) /\ PackFor(S, k) \in Kept(S)
    BY <1>2 DEF Kept
  <2>2. {q \in Kept(S) : KeyOf(q) = k} = {PackFor(S, k)}
    BY <1>2, <1>5, <2>1 DEF Kept
  <2>3. UNION {p.sources : p \in {q \in Kept(S) : KeyOf(q) = k}} = PackFor(S, k).sources
    BY <2>2
  <2> QED
    BY <2>3 DEF PackFor
<1> QED
  BY <1>4, <1>6, <1>7 DEF IsKeyed

(* Keeping the newest packs of some, and then of those and others, keeps the *)
(* newest of all: what is given up early would be given up in the end.       *)
LEMMA KeptOfKept ==
    ASSUME NEW S, NEW T, IsPacks(S), IsPacks(T)
    PROVE  Kept(Kept(S) \cup T) = Kept(S \cup T)
<1> DEFINE A == S \cup T
           B == Kept(S) \cup T
           F == First(NewerKeys, Keys(A))
<1>1. IsPacks(A) /\ IsPacks(B)
  BY KeptPacks, FS_Union DEF IsPacks
<1>2. Keys(A) = Keys(S) \cup Keys(T) /\ Keys(B) = First(NewerKeys, Keys(S)) \cup Keys(T)
  <2>1. Keys(B) = Keys(Kept(S)) \cup Keys(T)
    BY DEF Keys
  <2> QED
    BY <2>1, KeptPacks DEF Keys
<1>3. /\ Keys(S) \in SUBSET AllKeys /\ Keys(T) \in SUBSET AllKeys
      /\ IsFiniteSet(Keys(S)) /\ IsFiniteSet(Keys(T))
  BY MergeIs
<1>4. First(NewerKeys, Keys(B)) = F
  <2>1. First(NewerKeys, First(NewerKeys, Keys(S)) \cup Keys(T))
          = First(NewerKeys, Keys(S) \cup Keys(T))
    BY <1>3, NewerOrders, FirstOfFirst
  <2> HIDE DEF A, B
  <2> QED
    BY <1>2, <2>1
<1>5. ASSUME NEW k \in F PROVE PackFor(B, k) = PackFor(A, k)
  <2>1. k \in Keys(S) => k \in First(NewerKeys, Keys(S))
    <3>1. SUFFICES ASSUME k \in Keys(S) PROVE Rank(NewerKeys, Keys(S), k) < MaxPacks
      BY DEF First
    <3>2. Rank(NewerKeys, Keys(A), k) < MaxPacks
      BY DEF First
    <3>3. IsFiniteSet(Keys(A)) /\ Keys(A) \in SUBSET AllKeys /\ Keys(S) \in SUBSET Keys(A)
      BY <1>1, <1>2, MergeIs
    <3>4. IsOrder(NewerKeys, Keys(A))
      BY <3>3, NewerOrders, OrderOfPart
    <3>5. /\ Rank(NewerKeys, Keys(S), k) \in Nat /\ Rank(NewerKeys, Keys(A), k) \in Nat
          /\ Rank(NewerKeys, Keys(S), k) <= Rank(NewerKeys, Keys(A), k)
      <4> HIDE DEF A, F
      <4> QED
        BY <3>1, <3>3, <3>4, RankInPart
    <3> QED
      BY <3>2, <3>5, MaxPacksAssumption
  <2> DEFINE HeldUnder(P) == UNION {p.sources : p \in {q \in P : KeyOf(q) = k}}
  <2>2. /\ HeldUnder(A) = HeldUnder(S) \cup HeldUnder(T)
        /\ HeldUnder(B) = HeldUnder(Kept(S)) \cup HeldUnder(T)
    OBVIOUS
  <2>3. HeldUnder(Kept(S)) = HeldUnder(S)
    <3>1. CASE k \in Keys(S)
      <4>1. PackFor(Kept(S), k) = PackFor(S, k)
        BY <2>1, <3>1, KeptPacks
      <4>2. PackFor(Kept(S), k).sources = PackFor(S, k).sources
        BY <4>1
      <4> QED
        BY <4>2 DEF PackFor
    <3>2. CASE k \notin Keys(S)
      <4>1. k \notin Keys(Kept(S))
        BY <3>2, KeptPacks DEF First
      <4>2. {q \in S : KeyOf(q) = k} = {} /\ {q \in Kept(S) : KeyOf(q) = k} = {}
        BY <3>2, <4>1 DEF Keys
      <4> QED
        BY <4>2
    <3> QED
      BY <3>1, <3>2
  <2> QED
    BY <2>2, <2>3 DEF PackFor
<1> QED
  BY <1>4, <1>5 DEF Kept

-----------------------------------------------------------------------------
(* Findings, and when some are part of others.                               *)
IsFindings(f) ==
    f = [p \in DOMAIN f |-> [text |-> f[p].text, observations |-> f[p].observations]]

PartOf(f, g) ==
    \A p \in DOMAIN f : /\ p \in DOMAIN g /\ g[p].text = f[p].text
                        /\ f[p].observations \subseteq g[p].observations

(* What a join does to a proposition.                                        *)
LEMMA JoinFindingsIs ==
    ASSUME NEW f, NEW g
    PROVE  /\ DOMAIN JoinFindings(f, g) = DOMAIN f \cup DOMAIN g
           /\ IsFindings(JoinFindings(f, g))
           /\ PartOf(f, JoinFindings(f, g))
           /\ References(JoinFindings(f, g)) \subseteq References(f) \cup References(g)
<1> DEFINE j == JoinFindings(f, g)
           Text1(p) == IF p \in DOMAIN f THEN f[p].text ELSE g[p].text
           Seen1(p) == Observations(f, p) \cup Observations(g, p)
<1>1. j = [p \in DOMAIN f \cup DOMAIN g |-> [text |-> Text1(p), observations |-> Seen1(p)]]
  BY DEF JoinFindings
<1>2. DOMAIN j = DOMAIN f \cup DOMAIN g
  BY <1>1
<1>3. \A p \in DOMAIN j : j[p].text = Text1(p) /\ j[p].observations = Seen1(p)
                          /\ j[p] = [text |-> Text1(p), observations |-> Seen1(p)]
  <2> HIDE DEF Text1, Seen1, j
  <2> QED
    BY <1>1
<1>4. IsFindings(j)
  <2> HIDE DEF Text1, Seen1, j
  <2> QED
    BY <1>1, <1>2, <1>3 DEF IsFindings
<1>5. PartOf(f, j)
  <2> SUFFICES ASSUME NEW p \in DOMAIN f
               PROVE  /\ p \in DOMAIN j /\ j[p].text = f[p].text
                      /\ f[p].observations \subseteq j[p].observations
    BY DEF PartOf
  <2>1. p \in DOMAIN j
    BY <1>2
  <2>2. Text1(p) = f[p].text /\ f[p].observations \subseteq Seen1(p)
    BY DEF Observations
  <2> HIDE DEF Text1, Seen1, j
  <2> QED
    BY <1>3, <2>1, <2>2
<1>6. ASSUME NEW r \in References(j) PROVE r \in References(f) \cup References(g)
  <2>1. PICK p \in DOMAIN j : \E o \in j[p].observations : r \in o
    <3> HIDE DEF j
    <3> QED
      BY DEF References
  <2>2. PICK o \in Seen1(p) : r \in o
    <3> HIDE DEF Seen1, j
    <3> QED
      BY <1>3, <2>1
  <2>3. (p \in DOMAIN f /\ o \in f[p].observations) \/ (p \in DOMAIN g /\ o \in g[p].observations)
    BY <2>2 DEF Observations
  <2> QED
    BY <2>2, <2>3 DEF References
<1> QED
  BY <1>2, <1>4, <1>5, <1>6

(* Joining findings to others they are part of gives those.                  *)
LEMMA JoinPart ==
    ASSUME NEW f, NEW g, IsFindings(g), PartOf(f, g)
    PROVE  JoinFindings(f, g) = g
<1>1. DOMAIN f \cup DOMAIN g = DOMAIN g
  BY DEF PartOf
<1>2. ASSUME NEW p \in DOMAIN g
      PROVE  /\ (IF p \in DOMAIN f THEN f[p].text ELSE g[p].text) = g[p].text
             /\ Observations(f, p) \cup Observations(g, p) = g[p].observations
  BY DEF PartOf, Observations
<1>3. JoinFindings(f, g)
        = [p \in DOMAIN g |-> [text |-> g[p].text, observations |-> g[p].observations]]
  BY <1>1, <1>2 DEF JoinFindings
<1> QED
  BY <1>3 DEF IsFindings

(* A part of a part is a part.                                               *)
LEMMA PartOfPart ==
    ASSUME NEW f, NEW g, NEW h, PartOf(f, g), PartOf(g, h)
    PROVE  PartOf(f, h)
BY DEF PartOf

-----------------------------------------------------------------------------
(* Knowledge units: their packs, those that a bounded join returns, and when *)
(* all that one knows is known to another, or would be given up by it.       *)
PacksIn(u) == ToSet(u.evidence)

IsUnit(u) ==
    /\ IsFindings(u.findings) /\ IsPacks(PacksIn(u))
    /\ Kept(PacksIn(u)) = PacksIn(u)

Equals(u, v) == u.findings = v.findings /\ PacksIn(u) = PacksIn(v)

Within(u, v) ==
    PartOf(u.findings, v.findings) /\ Kept(PacksIn(u) \cup PacksIn(v)) = PacksIn(v)

(* A unit whose packs are listed once each, and are no more than may be kept. *)
IsKnowledge(u) == IsUnit(u) /\ IsListing(u.evidence) /\ Len(u.evidence) <= MaxPacks

(* A bounded join is one, with the newest packs of both.                     *)
LEMMA JoinUnit ==
    ASSUME NEW o, NEW a, NEW b, IsPacks(PacksIn(a)), IsPacks(PacksIn(b))
    PROVE  /\ IsKnowledge(JoinBounded(o, a, b))
           /\ PacksIn(JoinBounded(o, a, b)) = Kept(PacksIn(a) \cup PacksIn(b))
           /\ JoinBounded(o, a, b).findings = JoinFindings(a.findings, b.findings)
<1> DEFINE j == JoinBounded(o, a, b)
           S == PacksIn(a) \cup PacksIn(b)
<1>1. IsPacks(S)
  BY FS_Union DEF IsPacks
<1>2. j.findings = JoinFindings(a.findings, b.findings)
      /\ j.evidence = Bounded(JoinEvidence(a.evidence, b.evidence))
  BY DEF JoinBounded, Unit
<1> HIDE DEF j
<1>3. PacksIn(j) = Kept(S) /\ IsListing(j.evidence) /\ Len(j.evidence) <= MaxPacks
  BY <1>1, <1>2, JoinKeeps DEF PacksIn
<1>4. IsFindings(j.findings)
  BY <1>2, JoinFindingsIs
<1>5. IsPacks(Kept(S))
  BY <1>1, KeptPacks
<1>6. Kept(Kept(S)) = Kept(S)
  <2>1. IsPacks({})
    BY FS_EmptySet DEF IsPacks
  <2>2. Kept(Kept(S) \cup {}) = Kept(S \cup {})
    BY <1>1, <2>1, KeptOfKept
  <2>3. Kept(S) \cup {} = Kept(S) /\ S \cup {} = S
    OBVIOUS
  <2> HIDE DEF S
  <2> QED
    BY <2>2, <2>3
<1> QED
  BY <1>2, <1>3, <1>4, <1>5, <1>6 DEF IsKnowledge, IsUnit, j

(* A unit is within itself, and within what joins it to another;             *)
LEMMA JoinHolds ==
    ASSUME NEW o, NEW a, NEW b, IsUnit(a), IsPacks(PacksIn(b))
    PROVE  Within(a, a) /\ Within(a, JoinBounded(o, a, b))
<1> DEFINE j == JoinBounded(o, a, b)
           S == PacksIn(a) \cup PacksIn(b)
<1>1. IsPacks(PacksIn(a))
  BY DEF IsUnit
<1>2. PacksIn(j) = Kept(S) /\ j.findings = JoinFindings(a.findings, b.findings)
  BY <1>1, JoinUnit
<1>3. PartOf(a.findings, a.findings) /\ PartOf(a.findings, j.findings)
  <2>1. PartOf(a.findings, a.findings)
    BY DEF PartOf
  <2> HIDE DEF j
  <2> QED
    BY <1>2, <2>1, JoinFindingsIs
<1>4. Kept(PacksIn(a) \cup PacksIn(a)) = PacksIn(a)
  <2>1. PacksIn(a) \cup PacksIn(a) = PacksIn(a)
    OBVIOUS
  <2> QED
    BY <2>1 DEF IsUnit
<1>5. Kept(PacksIn(a) \cup PacksIn(j)) = PacksIn(j)
  <2>1. IsPacks(S)
    BY <1>1, FS_Union DEF IsPacks
  <2>2. Kept(Kept(S) \cup PacksIn(a)) = Kept(S \cup PacksIn(a))
    BY <1>1, <2>1, KeptOfKept
  <2>3. S \cup PacksIn(a) = S /\ Kept(S) \cup PacksIn(a) = PacksIn(a) \cup Kept(S)
    OBVIOUS
  <2> HIDE DEF S, j
  <2> QED
    BY <1>2, <2>2, <2>3
<1> QED
  BY <1>3, <1>4, <1>5 DEF Within

(* what is within a unit is within what joins that unit to another;          *)
LEMMA WithinJoin ==
    ASSUME NEW o, NEW u, NEW a, NEW b, IsPacks(PacksIn(u)), IsUnit(a), IsPacks(PacksIn(b)),
           Within(u, a)
    PROVE  Within(u, JoinBounded(o, a, b))
<1> DEFINE j == JoinBounded(o, a, b)
<1>1. IsPacks(PacksIn(a))
  BY DEF IsUnit
<1> PICK A : A = PacksIn(a)
  OBVIOUS
<1> PICK B : B = PacksIn(b)
  OBVIOUS
<1> PICK V : V = PacksIn(u)
  OBVIOUS
<1>2. PacksIn(j) = Kept(A \cup B) /\ j.findings = JoinFindings(a.findings, b.findings)
  BY <1>1, JoinUnit
<1> HIDE DEF j
<1>3. PartOf(u.findings, j.findings)
  BY <1>2, JoinFindingsIs, PartOfPart DEF Within
<1>4. IsPacks(A) /\ IsPacks(B) /\ IsPacks(V) /\ IsPacks(A \cup B) /\ IsPacks(V \cup A)
  BY <1>1, FS_Union DEF IsPacks
<1>5. Kept(V \cup A) = A
  BY DEF Within
<1>6. Kept(Kept(A \cup B) \cup V) = Kept((A \cup B) \cup V)
  BY <1>4, KeptOfKept
<1>7. Kept(Kept(V \cup A) \cup B) = Kept((V \cup A) \cup B)
  BY <1>4, KeptOfKept
<1>8. (A \cup B) \cup V = (V \cup A) \cup B
  OBVIOUS
<1>9. Kept(V \cup Kept(A \cup B)) = Kept(A \cup B)
  <2>1. Kept(A \cup B) \cup V = V \cup Kept(A \cup B)
    OBVIOUS
  <2> QED
    BY <1>5, <1>6, <1>7, <1>8, <2>1
<1> QED
  BY <1>2, <1>3, <1>9 DEF Within, j

(* and joining a unit to one that has it already gives that one.             *)
LEMMA JoinWithin ==
    ASSUME NEW o, NEW u, NEW v, IsPacks(PacksIn(u)), IsUnit(v), Within(u, v)
    PROVE  Equals(JoinBounded(o, u, v), v)
<1>1. IsPacks(PacksIn(v)) /\ IsFindings(v.findings)
  BY DEF IsUnit
<1>2. JoinFindings(u.findings, v.findings) = v.findings
  BY <1>1, JoinPart DEF Within
<1> QED
  BY <1>1, <1>2, JoinUnit DEF Within, Equals

-----------------------------------------------------------------------------
(* The sources of packs.                                                     *)
SourcesIn(S) == UNION {p.sources : p \in S}

(* Only what is held is kept.                                                *)
LEMMA KeptSources ==
    ASSUME NEW S
    PROVE  /\ SourcesIn(Kept(S)) \subseteq SourcesIn(S)
           /\ \A p \in Kept(S) : \A s \in p.sources :
                 \E q \in S : s \in q.sources /\ (IsPacks(S) => KeyOf(q) = KeyOf(p))
<1> SUFFICES ASSUME NEW p \in Kept(S), NEW s \in p.sources
             PROVE  \E q \in S : s \in q.sources /\ (IsPacks(S) => KeyOf(q) = KeyOf(p))
  BY DEF SourcesIn
<1>1. PICK k \in First(NewerKeys, Keys(S)) : p = PackFor(S, k)
  BY DEF Kept
<1>2. p.sources = UNION {q.sources : q \in {r \in S : KeyOf(r) = k}}
  BY <1>1 DEF PackFor
<1>3. PICK q \in S : KeyOf(q) = k /\ s \in q.sources
  BY <1>2
<1>4. IsPacks(S) => KeyOf(p) = k
  <2> SUFFICES ASSUME IsPacks(S) PROVE KeyOf(p) = k
    OBVIOUS
  <2>1. k \in AllKeys
    BY MergeIs DEF First
  <2>2. k = <<k[1], k[2], k[3]>>
    BY <2>1 DEF AllKeys
  <2> QED
    BY <1>1, <2>2 DEF PackFor, KeyOf
<1> QED
  BY <1>3, <1>4

-----------------------------------------------------------------------------
(* Recursion.  From a first value and the steps that lead from each value to *)
(* the next, there is a run of values.                                       *)
IsSteps(D, n, d, step) == n \in Nat /\ d \in D /\ step \in [1..n -> [D -> D]]
Run(n, d, step, f) == f[0] = d /\ \A i \in 1..n : f[i] = step[i][f[i - 1]]

(* A recursive function over 0..n has its values whenever each step gives    *)
(* one.                                                                      *)
LEMMA Recursion ==
    ASSUME NEW D, NEW n, NEW d, NEW step, IsSteps(D, n, d, step)
    PROVE  \E f \in [0..n -> D] : Run(n, d, step, f)
<1> DEFINE Some(m) == \E f \in [0..m -> D] : Run(m, d, step, f)
           P == {m \in Nat : m <= n => Some(m)}
<1>0. n \in Nat /\ d \in D /\ \A i \in 1..n : \A x \in D : step[i][x] \in D
  BY DEF IsSteps
<1>1. Some(0)
  <2>1. [i \in 0..0 |-> d] \in [0..0 -> D] /\ Run(0, d, step, [i \in 0..0 |-> d])
    BY <1>0 DEF Run
  <2> QED
    BY <2>1
<1>2. ASSUME NEW m \in Nat, m + 1 <= n, Some(m) PROVE Some(m + 1)
  <2>1. PICK f \in [0..m -> D] : Run(m, d, step, f)
    BY <1>2
  <2> DEFINE x == step[m + 1][f[m]]
             g == [i \in 0..(m + 1) |-> IF i = m + 1 THEN x ELSE f[i]]
  <2>2. x \in D
    BY <1>0, <1>2, <2>1
  <2> HIDE DEF x
  <2>3. g \in [0..(m + 1) -> D]
    BY <2>2
  <2>4. ASSUME NEW i \in 1..(m + 1) PROVE g[i] = step[i][g[i - 1]]
    <3>1. i - 1 \in 0..m /\ g[i - 1] = f[i - 1]
      OBVIOUS
    <3>2. CASE i = m + 1
      <4>1. g[i] = x /\ f[i - 1] = f[m]
        BY <3>2
      <4> QED
        BY <3>1, <3>2, <4>1 DEF x
    <3>3. CASE i # m + 1
      <4>1. i \in 1..m /\ g[i] = f[i]
        BY <3>3
      <4>2. f[i] = step[i][f[i - 1]]
        BY <2>1, <4>1 DEF Run
      <4> QED
        BY <3>1, <4>1, <4>2
    <3> QED
      BY <3>2, <3>3
  <2>5. g[0] = d
    BY <2>1 DEF Run
  <2> HIDE DEF g
  <2> QED
    BY <2>3, <2>4, <2>5 DEF Run
<1> HIDE DEF Some
<1>3. 0 \in P
  BY <1>1
<1>4. ASSUME NEW m \in Nat, m \in P PROVE m + 1 \in P
  <2>1. m + 1 \in Nat /\ (m + 1 <= n => m <= n)
    BY <1>0
  <2>2. m + 1 <= n => Some(m + 1)
    BY <1>2, <1>4, <2>1
  <2> QED
    BY <2>1, <2>2
<1> HIDE DEF P
<1>5. n \in P
  BY <1>0, <1>3, <1>4, Induction
<1>6. Some(n)
  BY <1>0, <1>5 DEF P
<1> QED
  BY <1>6 DEF Some

(* Sequences in a row.  There is a sequence of their concatenations, the     *)
(* empty one first.                                                          *)
LEMMA Concatenations ==
    ASSUME NEW T, NEW seqs \in Seq(Seq(T))
    PROVE  \E g \in [0..Len(seqs) -> Seq(T)] :
              g[0] = <<>> /\ \A i \in 1..Len(seqs) : g[i] = g[i - 1] \o seqs[i]
<1> PICK n \in Nat : n = Len(seqs)
  OBVIOUS
<1> DEFINE step == [i \in 1..n |-> [x \in Seq(T) |-> x \o seqs[i]]]
<1>1. \A i \in 1..n : \A x \in Seq(T) : x \o seqs[i] \in Seq(T)
  BY ConcatProperties
<1>2. IsSteps(Seq(T), n, <<>>, step)
  BY <1>1 DEF IsSteps
<1>3. \A i \in 1..n : \A x \in Seq(T) : step[i][x] = x \o seqs[i]
  OBVIOUS
<1> HIDE DEF step
<1>4. PICK g \in [0..n -> Seq(T)] : Run(n, <<>>, step, g)
  BY <1>2, Recursion
<1>5. ASSUME NEW i \in 1..n PROVE g[i - 1] \in Seq(T)
  <2>1. i - 1 \in 0..n
    OBVIOUS
  <2> QED
    BY <2>1
<1>6. g[0] = <<>> /\ \A i \in 1..n : g[i] = step[i][g[i - 1]]
  BY <1>4 DEF Run
<1>7. \A i \in 1..n : g[i] = g[i - 1] \o seqs[i]
  BY <1>3, <1>5, <1>6
<1> QED
  BY <1>6, <1>7

(* The pieces of a flattened sequence, put together one by one.              *)
Flat(seqs) ==
    CHOOSE f : f = [i \in 1..Len(seqs) |-> IF i = 1 THEN seqs[i] ELSE f[i - 1] \o seqs[i]]

(* FlattenSeq is the last value of the recursive function it is defined by.  *)
LEMMA FlattenIs ==
    ASSUME NEW s
    PROVE  /\ Len(s) = 0 => FlattenSeq(s) = s
           /\ Len(s) # 0 => FlattenSeq(s) = Flat(s)[Len(s)]
<1>1. ASSUME Len(s) = 0 PROVE FlattenSeq(s) = s
  BY <1>1 DEF FlattenSeq
<1>2. ASSUME Len(s) # 0 PROVE FlattenSeq(s) = Flat(s)[Len(s)]
  BY <1>2 DEF FlattenSeq, Flat
<1> QED
  BY <1>1, <1>2

(* That function, place by place: each value adds one more sequence to the   *)
(* one before.                                                               *)
LEMMA FlatIs ==
    ASSUME NEW T, NEW seqs \in Seq(Seq(T))
    PROVE  /\ Flat(seqs) \in [1..Len(seqs) -> Seq(T)]
           /\ \A i \in 1..Len(seqs) :
                 Flat(seqs)[i] = IF i = 1 THEN seqs[i] ELSE Flat(seqs)[i - 1] \o seqs[i]
           /\ FlattenSeq(seqs) = IF Len(seqs) = 0 THEN <<>> ELSE Flat(seqs)[Len(seqs)]
<1> PICK n : n = Len(seqs)
  OBVIOUS
<1>0. n \in Nat /\ \A i \in 1..n : seqs[i] \in Seq(T)
  OBVIOUS
<1>1. PICK g \in [0..n -> Seq(T)] : g[0] = <<>> /\ \A i \in 1..n : g[i] = g[i - 1] \o seqs[i]
  BY Concatenations
<1>3. ASSUME NEW i \in 1..n PROVE g[i] = g[i - 1] \o seqs[i]
  BY <1>1
<1> DEFINE h == [i \in 1..n |-> g[i]]
<1>4. ASSUME NEW i \in 1..n
      PROVE  h[i] = IF i = 1 THEN seqs[i] ELSE h[i - 1] \o seqs[i]
  <2>1. CASE i = 1
    <3>1. g[1] = <<>> \o seqs[1]
      <4>1. g[1] = g[1 - 1] \o seqs[1] /\ 1 - 1 = 0
        <5>1. 1 \in 1..n /\ 1 - 1 = 0
          BY <2>1
        <5> QED
          BY <1>3, <5>1
      <4> QED
        BY <1>1, <4>1
    <3>2. <<>> \o seqs[1] = seqs[1]
      BY <1>0, <2>1, ConcatEmptySeq
    <3> QED
      BY <2>1, <3>1, <3>2
  <2>2. CASE i # 1
    <3>1. i - 1 \in 1..n
      BY <1>0, <2>2
    <3> QED
      BY <1>3, <2>2, <3>1
  <2> QED
    BY <2>1, <2>2
<1>5. h = [i \in 1..Len(seqs) |-> IF i = 1 THEN seqs[i] ELSE h[i - 1] \o seqs[i]]
  <2>1. h = [i \in 1..n |-> h[i]]
    OBVIOUS
  <2> HIDE DEF h
  <2> QED
    BY <1>4, <2>1
<1> HIDE DEF h
<1>6. Flat(seqs) = [i \in 1..Len(seqs) |->
                      IF i = 1 THEN seqs[i] ELSE Flat(seqs)[i - 1] \o seqs[i]]
  BY <1>5 DEF Flat
<1>7. \A i \in 1..n : Flat(seqs)[i] = IF i = 1 THEN seqs[i] ELSE Flat(seqs)[i - 1] \o seqs[i]
  BY <1>6
<1>8. FlattenSeq(seqs) = IF n = 0 THEN <<>> ELSE Flat(seqs)[n]
  <2>1. CASE n = 0
    <3>1. seqs = <<>>
      BY <2>1, EmptySeq
    <3>2. FlattenSeq(seqs) = seqs
      BY <2>1, FlattenIs
    <3> QED
      BY <2>1, <3>1, <3>2
  <2>2. CASE n # 0
    BY <2>2, FlattenIs
  <2> QED
    BY <2>1, <2>2
<1>9. Flat(seqs) \in [1..n -> Seq(T)]
  <2> DEFINE P == {i \in Nat : i \in 1..n => Flat(seqs)[i] \in Seq(T)}
  <2>1. 0 \in P
    OBVIOUS
  <2>2. ASSUME NEW i \in Nat, i \in P PROVE i + 1 \in P
    <3> SUFFICES ASSUME i + 1 \in 1..n PROVE Flat(seqs)[i + 1] \in Seq(T)
      OBVIOUS
    <3>1. seqs[i + 1] \in Seq(T)
      BY <1>0
    <3>2. CASE i = 0
      BY <1>7, <3>1, <3>2
    <3>3. CASE i # 0
      <4>1. Flat(seqs)[i] \in Seq(T)
        BY <1>0, <2>2, <3>3
      <4>2. Flat(seqs)[i + 1] = Flat(seqs)[i] \o seqs[i + 1]
        <5>1. i + 1 \in 1..n /\ i + 1 # 1 /\ (i + 1) - 1 = i
          BY <3>3
        <5> HIDE DEF P
        <5> QED
          BY <1>7, <5>1
      <4> QED
        BY <3>1, <4>1, <4>2, ConcatProperties
    <3> QED
      BY <3>2, <3>3
  <2> HIDE DEF P
  <2>3. \A i \in Nat : i \in P
    BY <2>1, <2>2, Induction
  <2>4. \A i \in 1..n : Flat(seqs)[i] \in Seq(T)
    BY <2>3 DEF P
  <2> QED
    BY <1>6, <2>4
<1> QED
  BY <1>7, <1>8, <1>9

(* A sequence of sequences flattened is a sequence.                          *)
LEMMA FlatType ==
    ASSUME NEW T, NEW seqs \in Seq(Seq(T))
    PROVE  FlattenSeq(seqs) \in Seq(T)
<1> PICK n \in Nat : n = Len(seqs)
  OBVIOUS
<1> PICK flat : flat = Flat(seqs)
  OBVIOUS
<1>1. flat \in [1..n -> Seq(T)] /\ FlattenSeq(seqs) = IF n = 0 THEN <<>> ELSE flat[n]
  BY FlatIs
<1>2. <<>> \in Seq(T)
  OBVIOUS
<1>3. ASSUME n # 0 PROVE flat[n] \in Seq(T)
  <2>1. n \in 1..n
    BY <1>3
  <2> QED
    BY ONLY <1>1, <2>1
<1> QED
  BY <1>1, <1>2, <1>3

(* The sum of numbers is the run of their sums.                              *)
LEMMA SumIs ==
    ASSUME NEW seq, NEW n \in Nat, Len(seq) = n, \A i \in 1..n : seq[i] \in Nat
    PROVE  \E g \in [0..n -> Nat] :
              /\ g[0] = 0 /\ \A i \in 1..n : g[i] = g[i - 1] + seq[i]
              /\ Sum(seq) = g[n]
<1> DEFINE step == [i \in 1..n |-> [x \in Nat |-> x + seq[i]]]
<1>1. IsSteps(Nat, n, 0, step)
  BY DEF IsSteps
<1>2. \A i \in 1..n : \A x \in Nat : step[i][x] = x + seq[i]
  OBVIOUS
<1> HIDE DEF step
<1>3. PICK f \in [0..n -> Nat] : Run(n, 0, step, f)
  BY <1>1, Recursion
<1>4. f[0] = 0 /\ \A i \in 1..n : f[i] = f[i - 1] + seq[i]
  <2>1. \A i \in 1..n : f[i - 1] \in Nat
    OBVIOUS
  <2>2. f[0] = 0 /\ \A i \in 1..n : f[i] = step[i][f[i - 1]]
    BY <1>3 DEF Run
  <2> QED
    BY <1>2, <2>1, <2>2
<1> DEFINE IsUpTo(g) == g = [k \in 0..n |-> IF k = 0 THEN 0 ELSE g[k - 1] + seq[k]]
           upTo == CHOOSE g : IsUpTo(g)
<1>5. IsUpTo(f)
  <2>1. f = [k \in 0..n |-> f[k]]
    OBVIOUS
  <2>2. \A k \in 0..n : f[k] = IF k = 0 THEN 0 ELSE f[k - 1] + seq[k]
    BY <1>4
  <2> QED
    BY <2>1, <2>2
<1>6. IsUpTo(upTo)
  BY <1>5
<1>7. Sum(seq) = upTo[n]
  BY DEF Sum
<1> HIDE DEF upTo
<1>8. \A k \in 0..n : upTo[k] = f[k]
  <2> DEFINE P == {k \in Nat : k \in 0..n => upTo[k] = f[k]}
  <2>1. 0 \in P
    BY <1>4, <1>6
  <2>2. ASSUME NEW k \in Nat, k \in P PROVE k + 1 \in P
    <3>1. ASSUME k + 1 \in 0..n PROVE upTo[k + 1] = f[k + 1]
      <4>1. k \in 0..n /\ k + 1 \in 1..n /\ (k + 1) - 1 = k /\ k + 1 # 0
        BY <3>1
      <4>2. upTo[k + 1] = upTo[k] + seq[k + 1]
        BY <1>6, <4>1
      <4>3. f[k + 1] = f[k] + seq[k + 1]
        BY <1>4, <4>1
      <4> QED
        BY <2>2, <4>1, <4>2, <4>3
    <3> QED
      BY <3>1
  <2> HIDE DEF P
  <2>3. \A k \in Nat : k \in P
    BY <2>1, <2>2, Induction
  <2> QED
    BY <2>3 DEF P
<1>9. n \in 0..n
  OBVIOUS
<1>10. Sum(seq) = f[n]
  BY <1>7, <1>8, <1>9
<1> QED
  BY <1>4, <1>10

(* A sum of natural numbers is one.                                          *)
LEMMA SumType ==
    ASSUME NEW seq, NEW n \in Nat, Len(seq) = n, \A i \in 1..n : seq[i] \in Nat
    PROVE  Sum(seq) \in Nat
BY SumIs

(* A set of numbers that has one has a least.                                *)
LEMMA HasLeast ==
    ASSUME NEW P \in SUBSET Nat, P # {}
    PROVE  \E m \in P : \A k \in P : m <= k
<1> DEFINE R == OpToRel(<, Nat)
<1>1. IsWellFoundedOn(R, Nat)
  BY NatLessThanWellFounded
<1>2. PICK m \in P : \A y \in P : ~(<<y, m>> \in R)
  <2> HIDE DEF R
  <2> QED BY <1>1, WFMin
<1>3. \A y \in P : ~(y < m)
  BY <1>2 DEF OpToRel
<1> QED
  BY <1>3

(* The elements of a sequence over a finite set of places are finitely many. *)
LEMMA ElementsFinite ==
    ASSUME NEW T, NEW s \in Seq(T)
    PROVE  IsFiniteSet(ToSet(s))
<1> PICK n \in Nat : n = Len(s)
  OBVIOUS
<1> DEFINE f == [i \in 1..n |-> s[i]]
<1>1. f \in Surjection(1..n, ToSet(s))
  BY DEF Surjection, ToSet
<1>2. IsFiniteSet(1..n)
  BY UpTo
<1> HIDE DEF f
<1> QED
  BY <1>1, <1>2, FS_Surjection

-----------------------------------------------------------------------------
(* What a thread contributes (thread-context.ts).  Of the turns, the newest. *)
LEMMA RecentIs ==
    ASSUME NEW turns \in Seq(StoredTurns)
    PROVE  Recent(turns) \in Seq(StoredTurns)
<1> DEFINE n == Len(turns)
           Fits(k) == n - k < MaxTurns /\ Requests(SubSeq(turns, k, n)) <= MaxChars
           IsFirst(k) == /\ k = n + 1 \/ Fits(k)
                         /\ \A j \in 1..(k - 1) : ~Fits(j)
           P == {k \in 1..(n + 1) : k = n + 1 \/ Fits(k)}
           first == CHOOSE k \in 1..(n + 1) : IsFirst(k)
<1>1. n \in Nat
  OBVIOUS
<1>2. \E k \in 1..(n + 1) : IsFirst(k)
  <2> HIDE DEF Fits
  <2>1. n + 1 \in P
    BY <1>1
  <2>2. P \in SUBSET Nat /\ P # {}
    BY <1>1, <2>1
  <2>3. PICK m \in P : \A k \in P : m <= k
    <3> HIDE DEF P
    <3> QED BY <2>2, HasLeast
  <2>4. m \in 1..(n + 1) /\ (m = n + 1 \/ Fits(m))
    OBVIOUS
  <2>5. \A j \in 1..(m - 1) : ~Fits(j)
    <3> SUFFICES ASSUME NEW j \in 1..(m - 1), Fits(j) PROVE FALSE
      OBVIOUS
    <3>1. j \in 1..(n + 1) /\ ~(m <= j)
      BY <1>1, <2>4
    <3> QED
      BY <2>3, <3>1
  <2> QED
    BY <2>4, <2>5
<1>3. first \in 1..(n + 1)
  <2> HIDE DEF IsFirst
  <2> QED
    BY <1>2
<1>4. Recent(turns) = SubSeq(turns, first, n)
  BY DEF Recent
<1> HIDE DEF first
<1>5. \A i \in first..n : turns[i] \in StoredTurns
  BY <1>3
<1> QED
  BY <1>1, <1>3, <1>4, <1>5, SubSeqProperties

(* Pages of the thread, with the turn that has them.                         *)
PlacedPages == [place : Int, order : Nat, problem : Nat, query : Nat, page : PageRecord]

(* The pages of a stored pack, sorted by source.                             *)
PagesIn(p) == InOrder(p.sources, ById)
ByIdIn(S) == {cd \in S \X S : ById(cd[1], cd[2])}

(* Sorting the pages of different sources loses none and repeats none.       *)
LEMMA PagesSorted ==
    ASSUME NEW S \in SUBSET PageRecord, IsFiniteSet(S),
           \A c, d \in S : c.source = d.source => c = d
    PROVE  /\ InOrder(S, ById) \in Seq(PageRecord)
           /\ Len(InOrder(S, ById)) = Cardinality(S)
           /\ ToSet(InOrder(S, ById)) = S
<1> PICK R : R = ByIdIn(S)
  OBVIOUS
<1>1. IsFiniteSet(S) /\ \A c, d \in S : c.source = d.source => c = d
  OBVIOUS
<1>2. \A c \in S : c.source \in Int /\ c.at \in Int
  BY <1>1 DEF PageRecord
<1>3. IsOrder(R, S)
  <2>1. \A c, d \in S : <<c, d>> \in R <=> ById(c, d)
    BY DEF ByIdIn
  <2>2. \A c \in S : ~ById(c, c)
    BY <1>2 DEF ById
  <2>3. \A c, d, e \in S : ById(c, d) /\ ById(d, e) => ById(c, e)
    BY <1>2 DEF ById
  <2>4. \A c, d \in S : c # d => ById(c, d) \/ ById(d, c)
    BY <1>1, <1>2 DEF ById
  <2> QED
    BY ONLY <2>1, <2>2, <2>3, <2>4 DEF IsOrder
<1>4. \A x \in S : {y \in S : ById(y, x)} = Below(R, S, x)
  BY DEF ByIdIn, Below
<1>5. InOrder(S, ById) = Listed(R, S)
  <2> DEFINE At(n) == CHOOSE x \in S : Cardinality({y \in S : ById(y, x)}) = n - 1
             f == [n \in 1..Cardinality(S) |-> At(n)]
             Placed(T) == [n \in 1..Cardinality(T) |->
                CHOOSE x \in T : Cardinality({y \in T : ById(y, x)}) = n - 1]
  <2>1. InOrder(S, ById) = f
    <3>1. InOrder(S, ById) = CHOOSE h \in {Placed(T) : T \in {S}} : TRUE
      BY DEF InOrder
    <3>2. Placed(S) = f
      OBVIOUS
    <3> HIDE DEF Placed, f
    <3>3. {Placed(T) : T \in {S}} = {Placed(S)}
      OBVIOUS
    <3> QED
      BY ONLY <3>1, <3>2, <3>3
  <2>2. ASSUME NEW n \in 1..Cardinality(S)
        PROVE  At(n) = CHOOSE x \in S : Rank(R, S, x) = n - 1
    <3>1. ASSUME NEW x \in S PROVE Cardinality({y \in S : ById(y, x)}) = Rank(R, S, x)
      <4>1. {y \in S : ById(y, x)} = Below(R, S, x)
        BY <1>4
      <4> QED
        BY ONLY <4>1 DEF Rank
    <3>2. \A x : (x \in S /\ Cardinality({y \in S : ById(y, x)}) = n - 1)
                   <=> (x \in S /\ Rank(R, S, x) = n - 1)
      BY ONLY <3>1
    <3> QED
      BY ONLY <3>2
  <2> HIDE DEF At
  <2>3. f = Listed(R, S)
    BY <2>2 DEF Listed
  <2> QED
    BY <2>1, <2>3
<1> PICK g : g = InOrder(S, ById)
  OBVIOUS
<1>6. g \in Seq(S) /\ Len(g) = Cardinality(S) /\ ToSet(g) = S
  BY <1>1, <1>3, <1>5, ListedIs
<1>7. g \in Seq(PageRecord)
  BY <1>1, <1>6
<1> QED
  BY <1>6, <1>7

(* The pages of a stored pack, in the order of their ids.                    *)
LEMMA PagesInIs ==
    ASSUME NEW p \in StoredPacks
    PROVE  /\ PagesIn(p) \in Seq(PageRecord) /\ Len(PagesIn(p)) = Cardinality(p.sources)
           /\ ToSet(PagesIn(p)) = p.sources
<1>1. /\ IsFiniteSet(p.sources) /\ p.sources \in SUBSET PageRecord
      /\ \A c, d \in p.sources : c.source = d.source => c = d
  BY DEF StoredPacks
<1> QED
  BY <1>1, PagesSorted DEF PagesIn

(* The order in which the packs of a turn are read: by name, as they stand   *)
(* among those of one name.                                                  *)
PackOrder(packs) ==
    LET Before(i, j) == \/ InPack(packs[i], packs[j])
                        \/ ~InPack(packs[j], packs[i]) /\ i < j
    IN InOrder(DOMAIN packs, Before)

(* The order of the packs of a turn names each of them once.                 *)
LEMMA PackOrderIs ==
    ASSUME NEW D, IsFiniteSet(D), D \in SUBSET Int, NEW packs, D = DOMAIN packs,
           \A i \in D : packs[i].order \in Int /\ packs[i].problem \in Int
    PROVE  /\ PackOrder(packs) \in Seq(D) /\ Len(PackOrder(packs)) = Cardinality(D)
           /\ ToSet(PackOrder(packs)) = D
<1> DEFINE Before(i, j) == \/ InPack(packs[i], packs[j])
                           \/ ~InPack(packs[j], packs[i]) /\ i < j
           R == {ij \in D \X D : Before(ij[1], ij[2])}
<1>1. \A i, j \in D : <<i, j>> \in R <=> Before(i, j)
  OBVIOUS
<1>2. IsOrder(R, D)
  <2>1. \A i \in D : ~Before(i, i)
    BY DEF InPack
  <2>2. \A i, j, k \in D : Before(i, j) /\ Before(j, k) => Before(i, k)
    BY DEF InPack
  <2>3. \A i, j \in D : i # j => Before(i, j) \/ Before(j, i)
    BY DEF InPack
  <2> HIDE DEF Before, R
  <2> QED
    BY <1>1, <2>1, <2>2, <2>3 DEF IsOrder
<1>3. \A x \in D : {y \in D : Before(y, x)} = Below(R, D, x)
  BY DEF Below
<1> HIDE DEF R
<1>4. PackOrder(packs) = Listed(R, D)
  <2> DEFINE At(n) == CHOOSE x \in D : Cardinality({y \in D : Before(y, x)}) = n - 1
             f == [n \in 1..Cardinality(D) |-> At(n)]
  <2>1. PackOrder(packs) = f
    BY DEF PackOrder, InOrder
  <2>2. ASSUME NEW n \in 1..Cardinality(D)
        PROVE  At(n) = CHOOSE x \in D : Rank(R, D, x) = n - 1
    <3>1. \A x : (x \in D /\ Cardinality({y \in D : Before(y, x)}) = n - 1)
                   <=> (x \in D /\ Rank(R, D, x) = n - 1)
      BY <1>3 DEF Rank
    <3> QED
      BY <3>1
  <2> HIDE DEF At
  <2>3. f = Listed(R, D)
    BY <2>2 DEF Listed
  <2> QED
    BY <2>1, <2>3
<1> HIDE DEF Before
<1> QED
  BY <1>2, <1>4, ListedIs

(* The pages of a pack of the turn in some place.                            *)
PlacedPagesOf(p, place) ==
    [i \in DOMAIN PagesIn(p) |->
        [place |-> place, order |-> p.order, problem |-> p.problem,
         query |-> p.query, page |-> PagesIn(p)[i]]]

(* The pages of a pack, each with the place and the order of the pack it     *)
(* comes from.                                                               *)
LEMMA LeavesAre ==
    ASSUME NEW p \in StoredPacks, NEW place \in Int
    PROVE  /\ PlacedPagesOf(p, place) \in Seq(PlacedPages)
           /\ \A c \in ToSet(PlacedPagesOf(p, place)) :
                 /\ c.place = place /\ c.order = p.order /\ c.problem = p.problem
                 /\ c.query = p.query /\ c.page \in p.sources
<1> PICK g : g = PagesIn(p)
  OBVIOUS
<1> PICK n : n = Len(g)
  OBVIOUS
<1>1. g \in Seq(PageRecord) /\ ToSet(g) = p.sources /\ n \in Nat /\ DOMAIN g = 1..n
  BY PagesInIs
<1>2. p.order \in Nat /\ p.problem \in Nat /\ p.query \in Nat
  BY DEF StoredPacks
<1> PICK f : f = PlacedPagesOf(p, place)
  OBVIOUS
<1>3. f = [i \in 1..n |-> [place |-> place, order |-> p.order, problem |-> p.problem,
                           query |-> p.query, page |-> g[i]]]
  BY <1>1 DEF PlacedPagesOf
<1>4. \A i \in 1..n : g[i] \in PageRecord /\ g[i] \in p.sources
  BY <1>1 DEF ToSet
<1>5. \A i \in 1..n : f[i] \in PlacedPages
  BY <1>2, <1>3, <1>4 DEF PlacedPages
<1>6. f \in Seq(PlacedPages)
  BY <1>1, <1>3, <1>5
<1>7. ASSUME NEW c \in ToSet(f)
      PROVE  /\ c.place = place /\ c.order = p.order /\ c.problem = p.problem
             /\ c.query = p.query /\ c.page \in p.sources
  <2>1. PICK i \in 1..n : c = f[i]
    BY <1>3 DEF ToSet
  <2> QED
    BY <1>3, <1>4, <2>1
<1> QED
  BY <1>6, <1>7

(* The pages of a turn.                                                      *)
LEMMA PagesOfFlat ==
    ASSUME NEW t, NEW place
    PROVE  PagesOf(t, place) =
              FlattenSeq([i \in DOMAIN t.packs |->
                            PlacedPagesOf(t.packs[PackOrder(t.packs)[i]], place)])
  BY DEF PagesOf, PlacedPagesOf, PackOrder, PagesIn

(* The pages of a stored turn are placed pages.                              *)
LEMMA PagesOfIs ==
    ASSUME NEW t \in StoredTurns, NEW place \in Int
    PROVE  PagesOf(t, place) \in Seq(PlacedPages)
<1> PICK packs : packs = t.packs
  OBVIOUS
<1> PICK n : n = Len(packs)
  OBVIOUS
<1>1. packs \in Seq(StoredPacks) /\ n \in Nat /\ DOMAIN packs = 1..n
  BY DEF StoredTurns
<1>2. \A i \in 1..n : packs[i] \in StoredPacks
  BY <1>1
<1>3. \A i \in 1..n : packs[i].order \in Int /\ packs[i].problem \in Int
  BY <1>2 DEF StoredPacks
<1>4. IsFiniteSet(1..n) /\ Cardinality(1..n) = n /\ 1..n \in SUBSET Int
  BY <1>1, UpTo
<1> PICK ord : ord = PackOrder(packs)
  OBVIOUS
<1>5. ord \in Seq(1..n) /\ Len(ord) = n
  BY <1>1, <1>3, <1>4, PackOrderIs
<1> PICK seqs : seqs = [i \in 1..n |-> PlacedPagesOf(packs[ord[i]], place)]
  OBVIOUS
<1>6. \A i \in 1..n : ord[i] \in 1..n
  BY <1>5
<1>7. \A i \in 1..n : PlacedPagesOf(packs[ord[i]], place) \in Seq(PlacedPages)
  BY <1>2, <1>6, LeavesAre
<1>8. seqs \in Seq(Seq(PlacedPages))
  BY <1>1, <1>7
<1>9. PagesOf(t, place) = FlattenSeq(seqs)
  <2>1. PagesOf(t, place) = FlattenSeq([i \in DOMAIN packs |-> PlacedPagesOf(packs[ord[i]], place)])
    BY PagesOfFlat
  <2> QED
    BY <1>1, <2>1
<1> QED
  BY <1>8, <1>9, FlatType

(* All pages of some turns, the newest turn's first.                         *)
LEMMA CandidatesOf ==
    ASSUME NEW turns \in Seq(StoredTurns)
    PROVE  Candidates(turns) \in Seq(PlacedPages)
<1> PICK n : n = Len(turns)
  OBVIOUS
<1>1. n \in Nat /\ \A i \in 1..n : turns[i] \in StoredTurns
  OBVIOUS
<1> PICK seqs : seqs = [i \in 1..n |-> PagesOf(turns[n + 1 - i], n + 1 - i)]
  OBVIOUS
<1>2. ASSUME NEW i \in 1..n PROVE PagesOf(turns[n + 1 - i], n + 1 - i) \in Seq(PlacedPages)
  <2>1. n + 1 - i \in 1..n /\ n + 1 - i \in Int
    BY <1>1
  <2> PICK k : k = n + 1 - i
    OBVIOUS
  <2>2. turns[k] \in StoredTurns /\ k \in Int
    BY <1>1, <2>1
  <2> QED
    BY <2>2, PagesOfIs
<1>3. seqs \in Seq(Seq(PlacedPages))
  BY <1>1, <1>2
<1>4. Candidates(turns) = FlattenSeq(seqs)
  BY DEF Candidates
<1> QED
  BY <1>3, <1>4, FlatType

(* What a page may cost, and what the pages before another have cost.        *)
LEMMA CostIs ==
    ASSUME NEW c \in PlacedPages
    PROVE  Cost(c) \in Nat /\ Cost(c) <= MaxPerSource
BY ContextAssumption DEF PlacedPages, PageRecord, Cost, Shorter

(* What the pages before a place cost is a natural number.                   *)
LEMMA SpentIs ==
    ASSUME NEW all \in Seq(PlacedPages), NEW i \in 1..(Len(all) + 1)
    PROVE  Spent(all, i) \in Nat
<1> PICK n \in Nat : n = i - 1
  OBVIOUS
<1> PICK seq : seq = [j \in 1..n |-> IF Seen(all, j) THEN 0 ELSE Cost(all[j])]
  OBVIOUS
<1>1. \A j \in 1..n : all[j] \in PlacedPages
  OBVIOUS
<1>2. \A j \in 1..n : Cost(all[j]) \in Nat
  BY <1>1, CostIs
<1>3. Len(seq) = n /\ \A j \in 1..n : seq[j] \in Nat
  BY <1>2
<1>4. Sum(seq) \in Nat
  BY <1>3, SumType
<1> QED
  BY <1>4 DEF Spent

(* The reading stops at the first page that does not fit, or at the end.     *)
Fitting(all, i) == Seen(all, i) \/ Spent(all, i) + Cost(all[i]) <= MaxTotal
Stops(all, i) ==
    /\ i \in 1..(Len(all) + 1)
    /\ i = Len(all) + 1 \/ ~Fitting(all, i)
    /\ \A j \in 1..(i - 1) : Fitting(all, j)

(* The pages are taken up to the first that does not fit: Stop is such a     *)
(* place.                                                                    *)
LEMMA StopIs ==
    ASSUME NEW all \in Seq(PlacedPages)
    PROVE  Stops(all, Stop(all))
<1> PICK n \in Nat : n = Len(all)
  OBVIOUS
<1> DEFINE Full(i) == ~Seen(all, i) /\ Spent(all, i) + Cost(all[i]) > MaxTotal
           Fits(j) == Seen(all, j) \/ Spent(all, j) + Cost(all[j]) <= MaxTotal
           IsStop(i) == (i = n + 1 \/ Full(i)) /\ \A j \in 1..(i - 1) : Fits(j)
           P == {i \in 1..(n + 1) : i = n + 1 \/ Full(i)}
<1>1. ASSUME NEW i \in 1..n PROVE Full(i) <=> ~Fits(i)
  <2>1. Spent(all, i) \in Nat
    BY SpentIs
  <2>2. Cost(all[i]) \in Nat
    <3>1. all[i] \in PlacedPages
      OBVIOUS
    <3> QED
      BY <3>1, CostIs
  <2> QED
    BY <2>1, <2>2, ContextAssumption
<1>2. Stop(all) = CHOOSE i \in 1..(n + 1) : IsStop(i)
  BY DEF Stop
<1>3. \A i \in 1..(n + 1) : Fits(i) <=> Fitting(all, i)
  BY DEF Fitting
<1> HIDE DEF Full, Fits
<1>4. \E i \in 1..(n + 1) : IsStop(i)
  <2>1. n + 1 \in P /\ P \in SUBSET Nat
    OBVIOUS
  <2>2. PICK m \in P : \A k \in P : m <= k
    <3> HIDE DEF P
    <3> QED BY <2>1, HasLeast
  <2>3. m \in 1..(n + 1) /\ (m = n + 1 \/ Full(m))
    OBVIOUS
  <2>4. ASSUME NEW j \in 1..(m - 1) PROVE Fits(j)
    <3>1. j \in 1..n /\ ~(m <= j) /\ j \in 1..(n + 1)
      BY <2>3
    <3>2. j \notin P
      BY <2>2, <3>1
    <3>3. ~Full(j)
      BY <3>1, <3>2
    <3> QED
      BY <1>1, <3>1, <3>3
  <2> QED
    BY <2>3, <2>4
<1>5. Stop(all) \in 1..(n + 1) /\ IsStop(Stop(all))
  <2> HIDE DEF IsStop
  <2> QED
    BY <1>2, <1>4
<1> PICK m : m = Stop(all)
  OBVIOUS
<1>6. m \in 1..(n + 1) /\ (m = n + 1 \/ Full(m)) /\ \A j \in 1..(m - 1) : Fits(j)
  BY <1>5
<1>7. m # n + 1 => ~Fits(m)
  BY <1>1, <1>6
<1>8. \A j \in 1..(m - 1) : j \in 1..(n + 1)
  BY <1>6
<1>9. Stops(all, m)
  BY <1>3, <1>6, <1>7, <1>8 DEF Stops
<1> QED
  BY <1>9

(* A page that was cut is a page.                                            *)
LEMMA CutIs ==
    ASSUME NEW c \in PlacedPages, NEW room \in Nat
    PROVE  /\ Cut(c, room) \in PlacedPages
           /\ Cut(c, room).place = c.place /\ Cut(c, room).order = c.order
           /\ Cut(c, room).problem = c.problem /\ Cut(c, room).query = c.query
           /\ Cut(c, room).page.source = c.page.source /\ Cut(c, room).page.at = c.page.at
           /\ Cut(c, room).page.cost = Shorter(Cost(c), room)
           /\ Shorter(Cost(c), room) \in Nat
<1> PICK cost : cost = Shorter(Cost(c), room)
  OBVIOUS
<1>1. cost \in Nat
  BY CostIs DEF Shorter
<1>2. /\ c = [place |-> c.place, order |-> c.order, problem |-> c.problem, query |-> c.query,
              page |-> c.page]
      /\ c.page = [source |-> c.page.source, at |-> c.page.at, cost |-> c.page.cost]
      /\ c.place \in Int /\ c.order \in Nat /\ c.problem \in Nat /\ c.query \in Nat
      /\ c.page.source \in Nat /\ c.page.at \in Nat
  BY DEF PlacedPages, PageRecord
<1>3. Cut(c, room) = [c EXCEPT !.page = [c.page EXCEPT !.cost = cost]]
  BY <1>2 DEF Cut
<1>4. [c.page EXCEPT !.cost = cost] = [source |-> c.page.source, at |-> c.page.at, cost |-> cost]
  BY <1>2
<1>5. Cut(c, room) = [place |-> c.place, order |-> c.order, problem |-> c.problem,
                      query |-> c.query,
                      page |-> [source |-> c.page.source, at |-> c.page.at, cost |-> cost]]
  BY <1>2, <1>3, <1>4
<1> QED
  BY <1>1, <1>2, <1>5 DEF PlacedPages, PageRecord

(* What is taken of some pages is finitely many pages.                       *)
LEMMA TakenIs ==
    ASSUME NEW all \in Seq(PlacedPages)
    PROVE  TakenOf(all) \in SUBSET PlacedPages /\ IsFiniteSet(TakenOf(all))
<1> PICK n \in Nat : n = Len(all)
  OBVIOUS
<1> PICK m : m = Stop(all)
  OBVIOUS
<1>1. m \in 1..(n + 1)
  BY StopIs DEF Stops
<1> PICK room : room = MaxTotal - Spent(all, m)
  OBVIOUS
<1>2. room \in Int
  BY <1>1, SpentIs, ContextAssumption
<1> DEFINE I == {j \in 1..(m - 1) : ~Seen(all, j)}
           A == {Cut(all[i], MaxTotal) : i \in I}
           B == IF m <= n /\ room >= MinPart THEN {Cut(all[m], room)} ELSE {}
<1>3. TakenOf(all) = A \cup B
  BY DEF TakenOf, ReadUpTo
<1>4. A \in SUBSET PlacedPages
  <2>1. MaxTotal \in Nat
    BY ContextAssumption
  <2>2. \A i \in I : all[i] \in PlacedPages
    BY <1>1
  <2>3. \A i \in I : Cut(all[i], MaxTotal) \in PlacedPages
    BY <2>1, <2>2, CutIs
  <2> QED
    BY <2>3
<1>5. IsFiniteSet(A)
  <2> DEFINE f == [i \in I |-> Cut(all[i], MaxTotal)]
  <2>1. f \in Surjection(I, A)
    BY DEF Surjection
  <2>2. IsFiniteSet(I)
    <3>1. m - 1 \in Nat /\ I \in SUBSET 1..(m - 1)
      BY <1>1
    <3>2. IsFiniteSet(1..(m - 1))
      BY <3>1, UpTo
    <3> HIDE DEF I
    <3> QED
      BY <3>1, <3>2, FS_Subset
  <2> HIDE DEF f, I, A
  <2> QED
    BY <2>1, <2>2, FS_Surjection
<1>6. B \in SUBSET PlacedPages
  <2> SUFFICES ASSUME m <= n, room >= MinPart PROVE Cut(all[m], room) \in PlacedPages
    OBVIOUS
  <2>1. all[m] \in PlacedPages
    BY <1>1
  <2>2. room \in Nat
    BY <1>2, ContextAssumption
  <2> QED
    BY <2>1, <2>2, CutIs
<1>7. IsFiniteSet(B)
  BY FS_EmptySet, FS_Singleton
<1> HIDE DEF A, B
<1>8. IsFiniteSet(A \cup B)
  BY <1>5, <1>7, FS_Union
<1> QED
  BY <1>3, <1>4, <1>6, <1>8

(* Packs of the thread, with the turn that has them.                         *)
IsPlaced(p) ==
    /\ p = [place |-> p.place, order |-> p.order, problem |-> p.problem,
            query |-> p.query, sources |-> p.sources]
    /\ p.place \in Int /\ p.order \in Int /\ p.problem \in Int /\ p.query \in Int

SamePlaced(p, q) ==
    p.place = q.place /\ p.order = q.order /\ p.problem = q.problem /\ p.query = q.query

PlacedPacks(taken) == {PackOf(taken, c) : c \in taken}

(* The packs that the taken pages make up are finite in number, and no two   *)
(* of them have the same place, order and problem.                           *)
LEMMA PlacedPacksAre ==
    ASSUME NEW taken \in SUBSET PlacedPages, IsFiniteSet(taken)
    PROVE  /\ IsFiniteSet(PlacedPacks(taken))
           /\ \A p \in PlacedPacks(taken) : IsPlaced(p)
           /\ \A p, q \in PlacedPacks(taken) : SamePlaced(p, q) => p = q
<1> DEFINE Under(c) == {d.page : d \in {e \in taken : SamePlaced(e, c)}}
           f == [c \in taken |-> PackOf(taken, c)]
<1>1. ASSUME NEW c \in taken
      PROVE  PackOf(taken, c) = [place |-> c.place, order |-> c.order,
                                 problem |-> c.problem, query |-> c.query,
                                 sources |-> Under(c)]
  BY DEF PackOf, SamePlaced
<1>2. \A c, d \in taken : SamePlaced(c, d) => Under(c) = Under(d)
  BY DEF SamePlaced
<1> HIDE DEF Under
<1>3. ASSUME NEW c \in taken
      PROVE  IsPlaced(PackOf(taken, c)) /\ SamePlaced(PackOf(taken, c), c)
  <2>1. c.place \in Int /\ c.order \in Int /\ c.problem \in Int /\ c.query \in Int
    BY DEF PlacedPages
  <2> QED
    BY <1>1, <2>1 DEF IsPlaced, SamePlaced
<1>4. ASSUME NEW c \in taken, NEW d \in taken, SamePlaced(PackOf(taken, c), PackOf(taken, d))
      PROVE  PackOf(taken, c) = PackOf(taken, d)
  <2>1. SamePlaced(c, d)
    BY <1>3, <1>4 DEF SamePlaced
  <2>2. Under(c) = Under(d)
    BY <1>2, <2>1
  <2>3. c.place = d.place /\ c.order = d.order /\ c.problem = d.problem /\ c.query = d.query
    BY <2>1 DEF SamePlaced
  <2> QED
    BY <1>1, <2>2, <2>3
<1>5. f \in Surjection(taken, PlacedPacks(taken))
  BY DEF Surjection, PlacedPacks
<1> HIDE DEF f
<1>6. IsFiniteSet(PlacedPacks(taken))
  BY <1>5, FS_Surjection
<1> QED
  BY <1>3, <1>4, <1>6 DEF PlacedPacks

(* The chronicle lists them.                                                 *)
Sorted(placed) ==
    LET Before(p, q) == p.place < q.place \/ (p.place = q.place /\ Precedes(p, q))
    IN InOrder(placed, Before)

(* Sorting the packs of a context loses none.                                *)
LEMMA SortedIs ==
    ASSUME NEW S, IsFiniteSet(S), \A p \in S : IsPlaced(p),
           \A p, q \in S : SamePlaced(p, q) => p = q
    PROVE  Sorted(S) \in Seq(S) /\ ToSet(Sorted(S)) = S
<1> DEFINE Before(p, q) == p.place < q.place \/ (p.place = q.place /\ Precedes(p, q))
           R == {pq \in S \X S : Before(pq[1], pq[2])}
<1>1. \A p, q \in S : <<p, q>> \in R <=> Before(p, q)
  OBVIOUS
<1>2. \A p \in S : p.place \in Int /\ p.order \in Int /\ p.problem \in Int /\ p.query \in Int
  BY DEF IsPlaced
<1>3. IsOrder(R, S)
  <2>1. \A p \in S : ~Before(p, p)
    BY <1>2 DEF Precedes
  <2>2. \A p, q, r \in S : Before(p, q) /\ Before(q, r) => Before(p, r)
    BY <1>2 DEF Precedes
  <2>3. \A p, q \in S : p # q => Before(p, q) \/ Before(q, p)
    BY <1>2 DEF Precedes, SamePlaced
  <2> HIDE DEF Before, R
  <2> QED
    BY <1>1, <2>1, <2>2, <2>3 DEF IsOrder
<1>4. \A x \in S : {y \in S : Before(y, x)} = Below(R, S, x)
  BY DEF Below
<1> HIDE DEF R
<1>5. Sorted(S) = Listed(R, S)
  <2> DEFINE At(n) == CHOOSE x \in S : Cardinality({y \in S : Before(y, x)}) = n - 1
             f == [n \in 1..Cardinality(S) |-> At(n)]
  <2>1. Sorted(S) = f
    BY DEF Sorted, InOrder
  <2>2. ASSUME NEW n \in 1..Cardinality(S)
        PROVE  At(n) = CHOOSE x \in S : Rank(R, S, x) = n - 1
    <3>1. \A x : (x \in S /\ Cardinality({y \in S : Before(y, x)}) = n - 1)
                   <=> (x \in S /\ Rank(R, S, x) = n - 1)
      BY <1>4 DEF Rank
    <3> QED
      BY <3>1
  <2> HIDE DEF At
  <2>3. f = Listed(R, S)
    BY <2>2 DEF Listed
  <2> QED
    BY <2>1, <2>3
<1> HIDE DEF Before
<1> QED
  BY <1>3, <1>5, ListedIs

(* A pack without its place.                                                 *)
Unplaced(p) ==
    [order |-> p.order, problem |-> p.problem, query |-> p.query, sources |-> p.sources]

(* The evidence of a context is the sorted packs without their places.       *)
LEMMA ChronicleOf ==
    ASSUME NEW placed
    PROVE  Chronicle(placed)
             = [i \in DOMAIN Sorted(placed) |-> Unplaced(Sorted(placed)[i])]
  BY DEF Chronicle, Sorted, Unplaced

(* The evidence of a context lists the packs it was made from.               *)
LEMMA ChronicleIs ==
    ASSUME NEW S, IsFiniteSet(S), \A p \in S : IsPlaced(p),
           \A p, q \in S : SamePlaced(p, q) => p = q
    PROVE  \E n \in Nat : \E g \in [1..n -> S] :
              ToSet(g) = S /\ Chronicle(S) = [i \in 1..n |-> Unplaced(g[i])]
<1> PICK g : g = Sorted(S)
  OBVIOUS
<1>1. g \in Seq(S) /\ ToSet(g) = S
  BY SortedIs
<1> PICK n : n = Len(g)
  OBVIOUS
<1>2. n \in Nat /\ g \in [1..n -> S] /\ DOMAIN g = 1..n
  BY <1>1
<1>3. Chronicle(S) = [i \in 1..n |-> Unplaced(g[i])]
  BY <1>2, ChronicleOf
<1> QED
  BY <1>1, <1>2, <1>3

(* The evidence of a context is packs, few or many.                          *)
LEMMA EvidenceOf ==
    ASSUME NEW turns \in Seq(StoredTurns)
    PROVE  \E n \in Nat : \E g \in [1..n -> PlacedPacks(Taken(turns))] :
              /\ ToSet(g) = PlacedPacks(Taken(turns))
              /\ Evidence(turns) = [i \in 1..n |-> Unplaced(g[i])]
<1> PICK taken : taken = Taken(turns)
  OBVIOUS
<1>1. taken \in SUBSET PlacedPages /\ IsFiniteSet(taken)
  BY CandidatesOf, TakenIs DEF Taken
<1> PICK S : S = PlacedPacks(taken)
  OBVIOUS
<1>2. /\ IsFiniteSet(S) /\ \A p \in S : IsPlaced(p)
      /\ \A p, q \in S : SamePlaced(p, q) => p = q
  BY <1>1, PlacedPacksAre
<1>3. Evidence(turns) = Chronicle(S)
  BY DEF Evidence, PacksOf, PlacedPacks
<1> QED
  BY <1>2, <1>3, ChronicleIs

(* A pack that has only the names of its pages.                              *)
IdsIn(p) == [p EXCEPT !.sources = {page.source : page \in p.sources}]

(* What a thread contributes are packs of evidence, of turns before this     *)
(* one.                                                                      *)
LEMMA ContextPacks ==
    ASSUME NEW th \in Seq(StoredTurns)
    PROVE  /\ IsPacks(ToSet(ContextOf(BuildThreadContext(th)).evidence))
           /\ \A x \in ContextOf(BuildThreadContext(th)).turns : ~(x > 0)
<1> PICK turns : turns = Recent(th)
  OBVIOUS
<1>1. turns \in Seq(StoredTurns)
  BY RecentIs
<1> PICK S : S = PlacedPacks(Taken(turns))
  OBVIOUS
<1>2. \A p \in S : IsPlaced(p)
  BY <1>1, CandidatesOf, TakenIs, PlacedPacksAre DEF Taken
<1>a. PICK n \in Nat : \E g \in [1..n -> S] :
               Evidence(turns) = [i \in 1..n |-> Unplaced(g[i])]
  BY <1>1, EvidenceOf
<1>3. PICK g \in [1..n -> S] : Evidence(turns) = [i \in 1..n |-> Unplaced(g[i])]
  BY <1>a
<1> PICK e : e = ContextOf(BuildThreadContext(th)).evidence
  OBVIOUS
<1>4. e = IdsOnly(Evidence(turns))
  BY DEF ContextOf, BuildThreadContext, ContextFrom, ContextWith
<1>5. e = [i \in 1..n |-> IdsIn(Unplaced(g[i]))]
  <2> PICK packs : packs = [i \in 1..n |-> Unplaced(g[i])]
    OBVIOUS
  <2>1. IdsOnly(packs) = [i \in DOMAIN packs |-> IdsIn(packs[i])]
    BY DEF IdsOnly, IdsIn
  <2>2. DOMAIN packs = 1..n /\ \A i \in 1..n : packs[i] = Unplaced(g[i])
    OBVIOUS
  <2> QED
    BY <1>3, <1>4, <2>1, <2>2
<1>6. ASSUME NEW p, IsPlaced(p) PROVE IsPack(IdsIn(Unplaced(p)))
  <2>1. IsPack(Unplaced(p))
    BY <1>6 DEF IsPack, IsPlaced, Unplaced
  <2> PICK q : q = Unplaced(p)
    OBVIOUS
  <2> PICK w : w = {page.source : page \in q.sources}
    OBVIOUS
  <2>2. IdsIn(q) = [q EXCEPT !.sources = w]
    BY DEF IdsIn
  <2>3. IdsIn(q) = [order |-> q.order, problem |-> q.problem, query |-> q.query, sources |-> w]
    BY <2>1, <2>2, SourcesSet
  <2>4. IsPack(IdsIn(q))
    BY <2>1, <2>3 DEF IsPack
  <2> QED
    BY <2>4
<1>7. ASSUME NEW i \in 1..n PROVE IsPack(e[i])
  <2>1. IsPlaced(g[i])
    BY <1>2
  <2>2. IsPack(IdsIn(Unplaced(g[i])))
    BY <1>6, <2>1
  <2>3. e[i] = IdsIn(Unplaced(g[i]))
    BY ONLY <1>5, i \in 1..n
  <2> QED
    BY ONLY <2>2, <2>3
<1>8. e \in Seq(ToSet(e))
  <2>1. e = [i \in 1..n |-> e[i]] /\ \A i \in 1..n : e[i] \in ToSet(e)
    BY <1>5 DEF ToSet
  <2> QED
    BY <2>1
<1>9. IsFiniteSet(ToSet(e))
  BY <1>8, ElementsFinite
<1>10. \A p \in ToSet(e) : IsPack(p)
  BY <1>5, <1>7 DEF ToSet
<1>11. IsPacks(ToSet(e))
  BY <1>9, <1>10 DEF IsPacks
<1>12. ContextOf(BuildThreadContext(th)).turns = {-i : i \in 1..Len(turns)}
  BY DEF ContextOf, BuildThreadContext, ContextFrom, ContextWith
<1>13. \A x \in {-i : i \in 1..Len(turns)} : ~(x > 0)
  BY <1>1
<1> QED
  BY <1>11, <1>12, <1>13

-----------------------------------------------------------------------------
(* What an acquisition was asked for, and that it selects only sources that  *)
(* no retained pack has (evidence-acquirer.ts).                              *)
Kin(a, b) ==
    /\ b.problem = a.problem /\ b.query = a.query /\ b.order = a.order
    /\ b.available = a.available

IsNamed(a) == a.problem \in Int /\ a.query \in Int /\ a.order \in Int

IsFresh(a) ==
    /\ DOMAIN a.candidates \in SUBSET Int
    /\ \A i \in 1..Len(a.selected) : a.selected[i] \notin a.available

(* Setting another field of it changes nothing of that.                      *)
LEMMA KinSet ==
    ASSUME NEW a, IsRequest(a), NEW x, NEW b,
           \/ b = [a EXCEPT !.pc = x] \/ b = [a EXCEPT !.candidates = x]
           \/ b = [a EXCEPT !.selected = x] \/ b = [a EXCEPT !.started = x]
           \/ b = [a EXCEPT !.outcome = x] \/ b = [a EXCEPT !.failure = x]
    PROVE  Kin(a, b) /\ IsRequest(b)
<1>1. IsRequest(b)
  BY PcSet, CandidatesSet, SelectedSet, StartedSet, OutcomeSet, FailureSet
<1>2. a = [pc |-> a.pc, problem |-> a.problem, query |-> a.query, order |-> a.order,
           available |-> a.available, capacity |-> a.capacity,
           candidates |-> a.candidates, selected |-> a.selected,
           started |-> a.started, outcome |-> a.outcome, failure |-> a.failure]
  BY DEF IsRequest
<1>3. Kin(a, b)
  BY <1>2 DEF Kin
<1> QED
  BY <1>1, <1>3

(* An acquisition keeps its kin from step to step.                           *)
LEMMA KinOfKin ==
    ASSUME NEW a, NEW b, NEW c, Kin(a, b), Kin(b, c)
    PROVE  Kin(a, c)
BY DEF Kin

(* Numbers in ascending order.                                               *)
Ascending(S) == InOrder(S, <)

(* Sorting a finite set of numbers loses none and repeats none.              *)
LEMMA AscendingIs ==
    ASSUME NEW S \in SUBSET Int, IsFiniteSet(S)
    PROVE  /\ Ascending(S) \in Seq(S) /\ Len(Ascending(S)) = Cardinality(S)
           /\ ToSet(Ascending(S)) = S
<1> DEFINE R == {ij \in S \X S : ij[1] < ij[2]}
<1>1. \A i, j \in S : <<i, j>> \in R <=> i < j
  OBVIOUS
<1>2. IsOrder(R, S)
  <2>1. \A i \in S : ~(i < i)
    OBVIOUS
  <2>2. \A i, j, k \in S : i < j /\ j < k => i < k
    OBVIOUS
  <2>3. \A i, j \in S : i # j => i < j \/ j < i
    OBVIOUS
  <2> HIDE DEF R
  <2> QED
    BY <1>1, <2>1, <2>2, <2>3 DEF IsOrder
<1>3. \A x \in S : {y \in S : y < x} = Below(R, S, x)
  BY DEF Below
<1> HIDE DEF R
<1>4. Ascending(S) = Listed(R, S)
  <2> DEFINE At(n) == CHOOSE x \in S : Cardinality({y \in S : y < x}) = n - 1
             f == [n \in 1..Cardinality(S) |-> At(n)]
  <2>1. Ascending(S) = f
    BY DEF Ascending, InOrder
  <2>2. ASSUME NEW n \in 1..Cardinality(S)
        PROVE  At(n) = CHOOSE x \in S : Rank(R, S, x) = n - 1
    <3>1. \A x : (x \in S /\ Cardinality({y \in S : y < x}) = n - 1)
                   <=> (x \in S /\ Rank(R, S, x) = n - 1)
      BY <1>3 DEF Rank
    <3> QED
      BY <3>1
  <2> HIDE DEF At
  <2>3. f = Listed(R, S)
    BY <2>2 DEF Listed
  <2> QED
    BY <2>1, <2>3
<1> QED
  BY <1>2, <1>4, ListedIs

(* What may be extracted is available from no retained pack.                 *)
New(a) == {i \in DOMAIN a.candidates : a.candidates[i] \notin a.available}

(* The candidates still to be extracted, in their order.                     *)
LEMMA UnextractedOf ==
    ASSUME NEW a
    PROVE  Unextracted(a)
             = [n \in 1..Cardinality(New(a)) |-> a.candidates[Ascending(New(a))[n]]]
  BY DEF Unextracted, Ascending, New

(* A candidate is still to be extracted only when its page is not yet        *)
(* available.                                                                *)
LEMMA UnextractedFresh ==
    ASSUME NEW a, IsFiniteSet(DOMAIN a.candidates), DOMAIN a.candidates \in SUBSET Int
    PROVE  \A n \in 1..Len(Unextracted(a)) : Unextracted(a)[n] \notin a.available
<1> PICK S : S = New(a)
  OBVIOUS
<1>1. S \in SUBSET DOMAIN a.candidates /\ \A i \in S : a.candidates[i] \notin a.available
  BY DEF New
<1>2. IsFiniteSet(S) /\ S \in SUBSET Int
  BY <1>1, FS_Subset
<1> PICK m : m = Cardinality(S)
  OBVIOUS
<1> PICK place : place = Ascending(S)
  OBVIOUS
<1>3. m \in Nat /\ place \in Seq(S) /\ Len(place) = m
  BY <1>2, AscendingIs, FS_CardinalityType
<1> PICK u : u = Unextracted(a)
  OBVIOUS
<1>4. u = [n \in 1..m |-> a.candidates[place[n]]]
  BY UnextractedOf
<1>5. \A n \in 1..m : place[n] \in S
  BY <1>3
<1>6. Len(u) = m
  BY <1>3, <1>4
<1>7. \A n \in 1..m : u[n] \notin a.available
  BY <1>1, <1>4, <1>5
<1> QED
  BY <1>6, <1>7

(* So what is selected is not,                                               *)
LEMMA FreshKept ==
    ASSUME NEW a, NEW b, IsFresh(a), Kin(a, b), b.selected = a.selected,
           b.candidates = a.candidates
    PROVE  IsFresh(b)
BY DEF IsFresh, Kin

(* Starting extractors leaves the request, its selection and its candidates  *)
(* as they were.                                                             *)
LEMMA MannedKin ==
    ASSUME NEW a, IsRequest(a)
    PROVE  /\ Kin(a, Manned(a)) /\ IsRequest(Manned(a))
           /\ Manned(a).selected = a.selected /\ Manned(a).candidates = a.candidates
<1> PICK n : n = Least(Len(a.selected), Cardinality(DOMAIN a.outcome) + Workers)
  OBVIOUS
<1> PICK b : b = Manned(a)
  OBVIOUS
<1>1. b = [a EXCEPT !.started = n]
  BY DEF Manned
<1> QED
  BY ONLY IsRequest(a), <1>1, b = Manned(a), KinSet, StartedSet

(* Noting a selection leaves the request and its candidates as they were.    *)
LEMMA TakingKin ==
    ASSUME NEW a, IsRequest(a), NEW x
    PROVE  /\ Kin(a, Taking(a, x)) /\ IsRequest(Taking(a, x))
           /\ Taking(a, x).selected = x /\ Taking(a, x).candidates = a.candidates
<1> PICK b : b = Taking(a, x)
  OBVIOUS
<1>1. b = [a EXCEPT !.selected = x]
  BY DEF Taking
<1> QED
  BY ONLY IsRequest(a), <1>1, b = Taking(a, x), KinSet, SelectedSet

(* The first n of a sequence.                                                *)
LEMMA FirstOf ==
    ASSUME NEW s, IsSeq(s), NEW n \in Nat, n <= Len(s)
    PROVE  Len(SubSeq(s, 1, n)) = n /\ \A i \in 1..n : SubSeq(s, 1, n)[i] = s[i]
<1>1. PICK S : s \in Seq(S)
  BY DEF IsSeq
<1>2. Len(s) \in Nat
  BY Lengths
<1>3. \A i \in 1..n : s[i] \in S
  BY <1>1, <1>2
<1> PICK s1 : s1 = SubSeq(s, 1, n)
  OBVIOUS
<1>4. /\ Len(s1) = (IF 1 <= n THEN n - 1 + 1 ELSE 0)
      /\ \A i \in 1..(n - 1 + 1) : s1[i] = s[1 + i - 1]
  BY <1>3, SubSeqProperties
<1>5. (IF 1 <= n THEN n - 1 + 1 ELSE 0) = n /\ n - 1 + 1 = n /\ \A i \in 1..n : 1 + i - 1 = i
  OBVIOUS
<1> QED
  BY <1>4, <1>5

(* at first                                                                  *)
LEMMA SelectedFresh ==
    ASSUME NEW a, IsRequest(a), a.capacity \in Nat,
           IsFiniteSet(DOMAIN a.candidates), DOMAIN a.candidates \in SUBSET Int
    PROVE  Kin(a, Selected(a)) /\ IsFresh(Selected(a))
<1> PICK u : u = Unextracted(a)
  OBVIOUS
<1>1. IsSeq(u) /\ Len(u) \in Nat /\ \A n \in 1..Len(u) : u[n] \notin a.available
  BY UnextractedIs, UnextractedFresh
<1> PICK n : n = Least(Least(Initial, a.capacity), Len(u))
  OBVIOUS
<1>2. n \in Nat /\ n <= Len(u)
  <2>1. Initial \in Nat
    BY AcquirerAssumption
  <2> QED
    BY <1>1, <2>1 DEF Least
<1> PICK x : x = SubSeq(u, 1, n)
  OBVIOUS
<1>3. Len(x) = n /\ \A i \in 1..n : x[i] = u[i]
  BY <1>1, <1>2, FirstOf
<1>4. \A i \in 1..Len(x) : x[i] \notin a.available
  BY <1>1, <1>2, <1>3
<1> PICK pc : pc = IF n = 0 THEN "done" ELSE "extract"
  OBVIOUS
<1>5. PICK b : b = [a EXCEPT !.pc = pc]
  OBVIOUS
<1>6. IsRequest(b) /\ Kin(a, b) /\ b.candidates = a.candidates
  BY ONLY IsRequest(a), <1>5, KinSet, PcSet
<1> PICK c : c = Taking(b, x)
  OBVIOUS
<1>7. IsRequest(c) /\ Kin(b, c) /\ c.selected = x /\ c.candidates = b.candidates
  BY ONLY <1>6, c = Taking(b, x), TakingKin
<1> PICK d : d = Manned(c)
  OBVIOUS
<1>8. IsRequest(d) /\ Kin(c, d) /\ d.selected = c.selected /\ d.candidates = c.candidates
  BY <1>7, MannedKin
<1>9. d = Selected(a)
  BY <1>5 DEF Selected, Taking
<1>10. Kin(a, d)
  BY <1>6, <1>7, <1>8, KinOfKin
<1>11. d.candidates = a.candidates /\ d.selected = x
  BY <1>6, <1>7, <1>8
<1>12. d.available = a.available
  BY <1>10 DEF Kin
<1>13. IsFresh(d)
  BY <1>4, <1>11, <1>12 DEF IsFresh
<1> QED
  BY <1>13, <1>9, <1>10, <1>11

(* and when one is replaced.                                                 *)
LEMMA SettledFresh ==
    ASSUME NEW a, IsRequest(a), IsFresh(a), IsSeq(a.selected), a.capacity \in Nat,
           IsFiniteSet(DOMAIN a.candidates)
    PROVE  Kin(a, Settled(a)) /\ IsFresh(Settled(a))
<1>1. CASE Settled(a) = Manned(a)
  BY <1>1, MannedKin, FreshKept
<1>2. CASE Settled(a) = [a EXCEPT !.pc = "done"]
  <2>1. PICK b : b = [a EXCEPT !.pc = "done"]
    OBVIOUS
  <2>2. Kin(a, b) /\ b.selected = a.selected /\ b.candidates = a.candidates
    BY ONLY IsRequest(a), <2>1, KinSet, PcSet
  <2> QED
    BY <1>2, <2>1, <2>2, FreshKept
<1>3. CASE /\ Backfills(a)
           /\ Settled(a) = Manned([a EXCEPT !.selected =
                                     Append(@, Unextracted(a)[Len(@) + 1])])
  <2> PICK u : u = Unextracted(a)
    OBVIOUS
  <2> PICK k : k = Len(a.selected)
    OBVIOUS
  <2>1. IsSeq(u) /\ Len(u) \in Nat /\ \A n \in 1..Len(u) : u[n] \notin a.available
    BY UnextractedIs, UnextractedFresh DEF IsFresh
  <2>2. k \in Nat /\ k < Len(u)
    BY <1>3, Lengths DEF Backfills
  <2> PICK x : x = Append(a.selected, u[k + 1])
    OBVIOUS
  <2>3. Calls(a.selected, u[k + 1], x)
    BY TopCalls
  <2>4. ASSUME NEW i \in 1..Len(x) PROVE x[i] \notin a.available
    <3>1. Len(x) = k + 1 /\ x[k + 1] = u[k + 1] /\ \A j \in 1..k : x[j] = a.selected[j]
      BY <2>3 DEF Calls
    <3>2. i \in 1..k \/ i = k + 1
      BY <2>2, <3>1
    <3>3. k + 1 \in 1..Len(u)
      BY <2>1, <2>2
    <3> QED
      BY <2>1, <3>1, <3>2, <3>3 DEF IsFresh
  <2> PICK c : c = Taking(a, x)
    OBVIOUS
  <2>5. IsRequest(c) /\ Kin(a, c) /\ c.selected = x /\ c.candidates = a.candidates
    BY TakingKin
  <2> PICK d : d = Manned(c)
    OBVIOUS
  <2>6. Kin(c, d) /\ d.selected = c.selected /\ d.candidates = c.candidates
    BY <2>5, MannedKin
  <2>7. d = Settled(a)
    BY <1>3 DEF Taking
  <2>8. Kin(a, d)
    BY <2>5, <2>6, KinOfKin
  <2>9. IsFresh(d)
    BY <2>4, <2>5, <2>6, <2>8 DEF IsFresh, Kin
  <2> QED
    BY <2>7, <2>8, <2>9
<1> QED
  BY <1>1, <1>2, <1>3 DEF Settled

(* Whatever a search answers and the extractions bring.                      *)
LEMMA AcquireFresh ==
    ASSUME Inv, Acquire, IsFresh(acq)
    PROVE  acq # Idle /\ Kin(acq, acq') /\ IsFresh(acq')
<1>1. Running
  BY DEF Acquire
<1>2. acq.pc \in {"search", "extract"}
  BY DEF Acquire, SearchAnswers, SearchFails, ExtractionSettles
<1>3. acq # Idle
  BY <1>2 DEF Idle
<1>4. Top.pc = "search" /\ IsAcquisition(acq, budget.sources)
  BY <1>3 DEF Inv, Waits
<1>5. budget.sources \in Nat
  BY <1>1, <1>4, SearchIs
<1> PICK a : a = acq
  OBVIOUS
<1>6. /\ IsRequest(a) /\ a.capacity \in Nat /\ IsSeq(a.selected) /\ IsFresh(a)
      /\ IsFiniteSet(DOMAIN a.candidates)
  BY <1>4, <1>5 DEF IsAcquisition
<1>7. CASE SearchAnswers
  <2>1. PICK raw \in SearchResults : acq' = Selected([a EXCEPT !.candidates = Canonical(raw)])
    BY <1>7 DEF SearchAnswers
  <2> PICK x : x = Canonical(raw)
    OBVIOUS
  <2>2. IsFiniteSet(DOMAIN x) /\ DOMAIN x \in SUBSET Nat
    BY CandidatesFinite
  <2>3. PICK b : b = [a EXCEPT !.candidates = x]
    OBVIOUS
  <2>4. IsRequest(b) /\ Kin(a, b) /\ b.candidates = x /\ b.capacity = a.capacity
    BY ONLY <1>6, <2>3, KinSet, CandidatesSet
  <2>5. acq' = Selected(b)
    BY <2>1, <2>3
  <2>6. DOMAIN b.candidates \in SUBSET Int
    BY <2>2, <2>4
  <2>7. Kin(b, Selected(b)) /\ IsFresh(Selected(b))
    BY <1>6, <2>2, <2>4, <2>6, SelectedFresh
  <2>8. Kin(a, Selected(b))
    BY <2>4, <2>7, KinOfKin
  <2> QED
    BY <1>3, <2>5, <2>7, <2>8
<1>8. CASE SearchFails
  <2>1. PICK code : acq' = [a EXCEPT !.pc = "done", !.failure = code]
    BY <1>8 DEF SearchFails
  <2>2. PICK b : b = [a EXCEPT !.pc = "done"]
    OBVIOUS
  <2>3. PICK c : c = [b EXCEPT !.failure = code]
    OBVIOUS
  <2>4. IsRequest(b) /\ Kin(a, b) /\ b.selected = a.selected /\ b.candidates = a.candidates
    BY ONLY <1>6, <2>2, KinSet, PcSet
  <2>5. Kin(b, c) /\ c.selected = b.selected /\ c.candidates = b.candidates
    BY ONLY <2>3, <2>4, KinSet, FailureSet
  <2>6. acq' = c
    BY <2>1, <2>2, <2>3
  <2>7. Kin(a, c)
    BY <2>4, <2>5, KinOfKin
  <2>8. IsFresh(c)
    BY <1>6, <2>4, <2>5, <2>7, FreshKept
  <2> QED
    BY <1>3, <2>6, <2>7, <2>8
<1>9. CASE ExtractionSettles
  <2>1. PICK i, result : acq' = Settled([a EXCEPT !.outcome = With(@, i, result)])
    BY <1>9 DEF ExtractionSettles
  <2> PICK x : x = With(a.outcome, i, result)
    OBVIOUS
  <2>2. PICK b : b = [a EXCEPT !.outcome = x]
    OBVIOUS
  <2>3. /\ IsRequest(b) /\ Kin(a, b) /\ b.selected = a.selected
        /\ b.candidates = a.candidates /\ b.capacity = a.capacity
    BY ONLY <1>6, <2>2, KinSet, OutcomeSet
  <2>4. acq' = Settled(b)
    BY <2>1, <2>2
  <2>5. IsFresh(b)
    BY <1>6, <2>3, FreshKept
  <2>6. Kin(b, Settled(b)) /\ IsFresh(Settled(b))
    BY <1>6, <2>3, <2>5, SettledFresh
  <2>7. Kin(a, Settled(b))
    BY <2>3, <2>6, KinOfKin
  <2> QED
    BY <1>3, <2>4, <2>6, <2>7
<1> QED
  BY <1>7, <1>8, <1>9 DEF Acquire

-----------------------------------------------------------------------------
(* What the calls know.  Whatever is within the one unit is within the other. *)
Passes(g, g2) == \A u : IsPacks(PacksIn(u)) /\ Within(u, g) => Within(u, g2)

(* It depends on findings and packs alone.                                   *)
LEMMA EqualWithin ==
    ASSUME NEW u, NEW v, IsUnit(u), Equals(u, v)
    PROVE  Within(u, v) /\ Within(v, u)
<1>1. Within(u, u)
  BY JoinHolds DEF IsUnit
<1> QED
  BY <1>1 DEF Within, Equals

(* A value equal to a resolver's value in every field is one too.            *)
LEMMA EqualUnit ==
    ASSUME NEW u, NEW v, IsUnit(u), Equals(u, v)
    PROVE  IsUnit(v)
BY DEF IsUnit, Equals

(* What is gathered passes on when nothing of it changes.                    *)
LEMMA EqualPasses ==
    ASSUME NEW g, NEW g2, Equals(g, g2)
    PROVE  Passes(g, g2)
BY DEF Passes, Within, Equals

(* What passes on from one state to the next, and to the one after, passes   *)
(* on.                                                                       *)
LEMMA PassesTwice ==
    ASSUME NEW g, NEW g2, NEW g3, Passes(g, g2), Passes(g2, g3)
    PROVE  Passes(g, g3)
BY DEF Passes

(* A unit to which another has been added.                                   *)
Adds(g, x, g2) ==
    /\ PacksIn(g2) = Kept(PacksIn(g) \cup PacksIn(x))
    /\ g2.findings = JoinFindings(g.findings, x.findings)

(* What the innermost call learns, all of the research has learned.          *)
LEMMA LearnIs ==
    ASSUME NEW o, NEW r, NEW t, NEW g, NEW x, NEW after, NEW learned,
           IsUnit(t), IsUnit(g), Equals(t, g), IsPacks(PacksIn(x)),
           after = JoinBounded(o, t, x), learned = JoinBounded(r, g, after)
    PROVE  /\ IsKnowledge(after) /\ IsKnowledge(learned)
           /\ Equals(after, learned) /\ Passes(g, learned) /\ Adds(g, x, learned)
<1>1. IsKnowledge(after) /\ Within(t, after)
  BY JoinUnit, JoinHolds DEF IsUnit
<1>2. IsUnit(after) /\ IsPacks(PacksIn(after)) /\ IsPacks(PacksIn(g))
  BY <1>1 DEF IsKnowledge, IsUnit
<1>3. Within(g, after)
  BY <1>1 DEF Within, Equals
<1>4. Equals(learned, after)
  BY <1>2, <1>3, JoinWithin
<1>5. IsKnowledge(learned)
  BY <1>2, JoinUnit
<1>6. Passes(g, learned)
  BY <1>2, WithinJoin DEF Passes
<1>7. Adds(g, x, learned)
  <2>1. Adds(t, x, after)
    BY JoinUnit DEF IsUnit, Adds
  <2> QED
    BY <1>4, <2>1 DEF Adds, Equals
<1> QED
  BY <1>1, <1>4, <1>5, <1>6, <1>7 DEF Equals

(* A caller that joins what its child knew knows the same.                   *)
LEMMA CallerLearns ==
    ASSUME NEW o, NEW r, NEW p, NEW know, NEW learned, NEW combined, NEW g,
           IsUnit(p), IsUnit(know), IsUnit(learned), Equals(know, learned),
           Within(p, learned), combined = JoinBounded(o, p, know),
           g = JoinBounded(r, learned, combined)
    PROVE  /\ IsKnowledge(combined) /\ IsKnowledge(g)
           /\ Equals(combined, g) /\ Passes(learned, g) /\ Equals(learned, g)
<1>1. IsPacks(PacksIn(p)) /\ IsPacks(PacksIn(know)) /\ IsPacks(PacksIn(learned))
  BY DEF IsUnit
<1>2. Within(p, know)
  BY DEF Within, Equals
<1>3. Equals(combined, know)
  BY <1>1, <1>2, JoinWithin
<1>4. IsKnowledge(combined)
  BY <1>1, JoinUnit
<1>5. IsUnit(combined) /\ IsPacks(PacksIn(combined))
  BY <1>4 DEF IsKnowledge, IsUnit
<1>6. Equals(learned, combined)
  BY <1>3 DEF Equals
<1>7. Within(learned, combined)
  BY <1>6, EqualWithin
<1>8. Equals(g, combined)
  BY <1>1, <1>5, <1>7, JoinWithin
<1>9. IsKnowledge(g)
  BY <1>1, <1>5, JoinUnit
<1>10. Equals(learned, g)
  BY <1>6, <1>8 DEF Equals
<1> QED
  BY <1>4, <1>8, <1>9, <1>10, EqualPasses DEF Equals

(* A call that follows questions, and whose knowledge the research has.      *)
OnPath(f) ==
    /\ f.path \in Seq(Questions) /\ f.path # <<>> /\ f.todo \in Seq(Questions)
    /\ f.query \in Nat
Aware(f, g) == OnPath(f) /\ IsUnit(f.know) /\ Within(f.know, g)

(* The innermost call knows all that the research has learned.               *)
Informed(s, g) ==
    /\ \A i \in 1..Len(s) : Aware(s[i], g)
    /\ s # <<>> => Equals(s[Len(s)].know, g)
IsTop(f, g) == OnPath(f) /\ IsUnit(f.know) /\ Equals(f.know, g)

(* A frame that knew only gathered evidence knows only gathered evidence     *)
(* later.                                                                    *)
LEMMA AwarePasses ==
    ASSUME NEW f, NEW g, NEW g2, Aware(f, g), Passes(g, g2)
    PROVE  Aware(f, g2)
BY DEF Aware, Passes, IsUnit

(* The top frame knows only what is gathered.                                *)
LEMMA TopAware ==
    ASSUME NEW f, NEW g, IsTop(f, g)
    PROVE  Aware(f, g)
BY EqualWithin DEF Aware, IsTop

(* So it stays when that call goes on, calls a child or returns.             *)
LEMMA InformedGo ==
    ASSUME NEW s, IsSeq(s), s # <<>>, NEW g, Informed(s, g), NEW g2, Passes(g, g2),
           NEW f, IsTop(f, g2), NEW s2, Goes(s, f, s2)
    PROVE  Informed(s2, g2)
<1>1. Len(s2) = Len(s) /\ s2[Len(s)] = f /\ \A i \in 1..Len(s) : i # Len(s) => s2[i] = s[i]
  BY DEF Goes
<1>2. Aware(f, g2)
  BY TopAware
<1>3. \A i \in 1..Len(s) : Aware(s[i], g2)
  BY AwarePasses DEF Informed
<1>4. \A i \in 1..Len(s2) : Aware(s2[i], g2)
  BY <1>1, <1>2, <1>3
<1> QED
  BY <1>1, <1>4 DEF Informed, IsTop

(* A call puts on the stack a frame that knows what its caller knows.        *)
LEMMA InformedCall ==
    ASSUME NEW s, IsSeq(s), NEW g, Informed(s, g), NEW f, IsTop(f, g),
           NEW s2, Calls(s, f, s2)
    PROVE  Informed(s2, g)
<1> PICK n : n = Len(s)
  OBVIOUS
<1>1. n \in Nat
  BY Lengths
<1>2. Len(s2) = n + 1 /\ s2[n + 1] = f /\ \A i \in 1..n : s2[i] = s[i]
  BY DEF Calls
<1>3. Aware(f, g)
  BY TopAware
<1>4. \A i \in 1..n : Aware(s[i], g)
  BY DEF Informed
<1>5. \A i \in 1..(n + 1) : i \in 1..n \/ i = n + 1
  BY <1>1
<1>6. \A i \in 1..Len(s2) : Aware(s2[i], g)
  BY <1>2, <1>3, <1>4, <1>5
<1> QED
  BY <1>2, <1>6 DEF Informed, IsTop

(* A return hands the caller what the returning frame knew.                  *)
LEMMA InformedReturn ==
    ASSUME NEW s, IsSeq(s), s # <<>>, Len(s) # 1, NEW g, Informed(s, g),
           NEW g2, Passes(g, g2), NEW h, IsTop(h, g2), NEW s2, Comes(s, h, s2)
    PROVE  Informed(s2, g2)
<1> PICK n : n = Len(s)
  OBVIOUS
<1>1. n \in Nat /\ n > 1
  BY Lengths
<1>2. Len(s2) = n - 1 /\ s2[n - 1] = h /\ \A i \in 1..(n - 1) : i # n - 1 => s2[i] = s[i]
  BY DEF Comes
<1>3. Aware(h, g2)
  BY TopAware
<1>4. \A i \in 1..n : Aware(s[i], g2)
  BY AwarePasses DEF Informed
<1>5. \A i \in 1..(n - 1) : i \in 1..n
  BY <1>1
<1>6. \A i \in 1..Len(s2) : Aware(s2[i], g2)
  BY <1>2, <1>3, <1>4, <1>5
<1> QED
  BY <1>2, <1>6 DEF Informed, IsTop

(* What setting a field of a frame leaves of what it knows and pursues.      *)
SamePath(f, f2) == f2.path = f.path /\ f2.todo = f.todo /\ f2.query = f.query

(* its knowledge,                                                            *)
LEMMA KnowSet ==
    ASSUME NEW f, IsFrame(f), NEW x, NEW f2, f2 = [f EXCEPT !.know = x]
    PROVE  SamePath(f, f2) /\ f2.know = x
<1>1. CASE f2 = [f EXCEPT !.know = x]
  <2>1. f2 = [path |-> f.path, know |-> x, pc |-> f.pc, query |-> f.query,
              todo |-> f.todo, operator |-> f.operator, attempt |-> f.attempt]
    BY <1>1 DEF IsFrame
  <2> QED
    BY ONLY <2>1 DEF SamePath
<1> QED
  BY <1>1

(* its state, its operator or its attempt,                                   *)
LEMMA OtherSet ==
    ASSUME NEW f, IsFrame(f), NEW x, NEW f2, 
           \/ f2 = [f EXCEPT !.pc = x]
           \/ f2 = [f EXCEPT !.operator = x]
           \/ f2 = [f EXCEPT !.attempt = x]
    PROVE  SamePath(f, f2) /\ f2.know = f.know
<1>1. CASE f2 = [f EXCEPT !.pc = x]
  <2>1. f2 = [path |-> f.path, know |-> f.know, pc |-> x, query |-> f.query,
              todo |-> f.todo, operator |-> f.operator, attempt |-> f.attempt]
    BY <1>1 DEF IsFrame
  <2> QED
    BY ONLY <2>1 DEF SamePath
<1>2. CASE f2 = [f EXCEPT !.operator = x]
  <2>1. f2 = [path |-> f.path, know |-> f.know, pc |-> f.pc, query |-> f.query,
              todo |-> f.todo, operator |-> x, attempt |-> f.attempt]
    BY <1>2 DEF IsFrame
  <2> QED
    BY ONLY <2>1 DEF SamePath
<1>3. CASE f2 = [f EXCEPT !.attempt = x]
  <2>1. f2 = [path |-> f.path, know |-> f.know, pc |-> f.pc, query |-> f.query,
              todo |-> f.todo, operator |-> f.operator, attempt |-> x]
    BY <1>3 DEF IsFrame
  <2> QED
    BY ONLY <2>1 DEF SamePath
<1> QED
  BY <1>1, <1>2, <1>3

(* its query,                                                                *)
LEMMA QuerySet ==
    ASSUME NEW f, IsFrame(f), NEW x, NEW f2, f2 = [f EXCEPT !.query = x]
    PROVE  /\ f2.path = f.path /\ f2.todo = f.todo /\ f2.query = x
           /\ f2.know = f.know
<1>1. CASE f2 = [f EXCEPT !.query = x]
  <2>1. f2 = [path |-> f.path, know |-> f.know, pc |-> f.pc, query |-> x,
              todo |-> f.todo, operator |-> f.operator, attempt |-> f.attempt]
    BY <1>1 DEF IsFrame
  <2> QED
    BY ONLY <2>1
<1> QED
  BY <1>1

(* or the children it has yet to call.                                       *)
LEMMA TodoSet ==
    ASSUME NEW f, IsFrame(f), NEW x, NEW f2, f2 = [f EXCEPT !.todo = x]
    PROVE  /\ f2.path = f.path /\ f2.todo = x /\ f2.query = f.query
           /\ f2.know = f.know
<1>1. CASE f2 = [f EXCEPT !.todo = x]
  <2>1. f2 = [path |-> f.path, know |-> f.know, pc |-> f.pc, query |-> f.query,
              todo |-> x, operator |-> f.operator, attempt |-> f.attempt]
    BY <1>1 DEF IsFrame
  <2> QED
    BY ONLY <2>1
<1> QED
  BY <1>1


(* An acquisition extracts only what no pack holds.                          *)
IsSearch(a, g) == IsNamed(a) /\ IsFresh(a) /\ a.available = SourcesOf(g.evidence)

(* What holds of the knowledge of a research, besides Inv.                   *)
Learning ==
    /\ IsKnowledge(gathered)
    /\ Informed(stack, gathered)
    /\ Resolved => Equals(outcome.knowledge, gathered)
    /\ acq # Idle => IsSearch(acq, gathered)
    /\ IsFiniteSet(DOMAIN gaps)
    /\ thread \in Seq(StoredTurns)

(* Of the innermost call.                                                    *)
LEMMA TopLearns ==
    ASSUME Inv, Learning, Running
    PROVE  /\ IsTop(Top, gathered) /\ IsUnit(gathered) /\ IsPacks(PacksIn(gathered))
           /\ \A i \in 1..Len(stack) : Aware(stack[i], gathered)
<1>1. Len(stack) \in 1..Len(stack) /\ stack # <<>>
  BY AtTop
<1>2. Aware(Top, gathered) /\ Equals(Top.know, gathered)
  BY <1>1 DEF Learning, Informed, Top
<1>3. IsUnit(gathered) /\ IsPacks(PacksIn(gathered))
  BY DEF Learning, IsKnowledge, IsUnit
<1> QED
  BY <1>2, <1>3 DEF IsTop, Aware, Learning, Informed

(* It goes on,                                                               *)
LEMMA GoLearns ==
    ASSUME Inv, Learning, Running, NEW f, stack' = WithTop(f), outcome' = outcome,
           IsTop(f, gathered'), IsKnowledge(gathered'), Passes(gathered, gathered'),
           IsFiniteSet(DOMAIN gaps'), acq' # Idle => IsSearch(acq', gathered'), thread' = thread
    PROVE  Learning'
<1>1. stack # <<>> /\ IsSeq(stack) /\ outcome = Pending
  BY AtTop
<1>2. Goes(stack, f, stack')
  BY <1>1, TopGoes DEF WithTop
<1> PICK s2, g2 : s2 = stack' /\ g2 = gathered'
  OBVIOUS
<1>3. Informed(s2, g2)
  <2>1. Informed(stack, gathered)
    BY DEF Learning
  <2> QED
    BY <1>1, <1>2, <2>1, InformedGo
<1>4. ~Resolved'
  BY <1>1 DEF Resolved
<1> QED
  BY <1>3, <1>4 DEF Learning

(* it returns,                                                               *)
LEMMA ReturnLearns ==
    ASSUME Inv, Learning, Running, NEW know, NEW stop, NEW ledger, NEW learned, NEW busy,
           Return(know, stop, ledger, learned, busy),
           IsUnit(know), IsKnowledge(learned), Equals(know, learned),
           Passes(gathered, learned), IsFiniteSet(DOMAIN ledger), acq' = Idle,
           thread' = thread
    PROVE  Learning' /\ Equals(learned, gathered')
<1>1. stack # <<>> /\ IsSeq(stack) /\ outcome = Pending /\ IsStack(stack)
      /\ Len(stack) \in Nat /\ Len(stack) > 0
  BY AtTop, Lengths
<1>2. gaps' = ledger /\ thread' \in Seq(StoredTurns)
  BY DEF Return, Learning
<1>3. CASE Len(stack) = 1
  <2>1. stack' = <<>> /\ outcome' = Answer(know, stop, ledger) /\ gathered' = learned
    BY <1>3 DEF Return
  <2>2. outcome'.knowledge = know
    BY <2>1, AnswerIs
  <2>3. Informed(stack', gathered')
    <3>1. Len(<<>>) = 0
      OBVIOUS
    <3> QED
      BY <2>1, <3>1 DEF Informed
  <2> QED
    BY <1>2, <2>1, <2>2, <2>3 DEF Learning, Equals
<1>4. CASE Len(stack) # 1
  <2> PICK parent : parent = stack[Len(stack) - 1]
    OBVIOUS
  <2> PICK combined : combined = JoinBounded(parent.path, parent.know, know)
    OBVIOUS
  <2>1. PICK todo :
          /\ stack' = Append(SubSeq(stack, 1, Len(stack) - 2),
                             [parent EXCEPT !.know = combined, !.todo = todo])
          /\ todo \in {<<>>, parent.todo}
          /\ outcome' = outcome
          /\ gathered' = JoinBounded(<<Root>>, learned, combined)
    BY <1>4 DEF Return, Combined
  <2> PICK h : h = [parent EXCEPT !.know = combined, !.todo = todo]
    OBVIOUS
  <2>2. IsFrame(parent) /\ Aware(parent, gathered)
    <3>1. Len(stack) - 1 \in 1..Len(stack)
      <4> PICK n : n = Len(stack)
        OBVIOUS
      <4>1. n \in Nat /\ n > 1
        BY <1>1, <1>4
      <4>2. n - 1 \in 1..n
        BY <4>1
      <4> QED
        BY <4>2
    <3> QED
      BY <1>1, <3>1 DEF IsStack, Learning, Informed
  <2>3. OnPath(parent) /\ IsUnit(parent.know) /\ Within(parent.know, learned)
    <3>1. Aware(parent, learned)
      BY <2>2, AwarePasses
    <3> QED
      BY <3>1 DEF Aware
  <2> PICK g2 : g2 = gathered'
    OBVIOUS
  <2>4. /\ IsKnowledge(combined) /\ IsKnowledge(g2)
        /\ Equals(combined, g2) /\ Passes(learned, g2) /\ Equals(learned, g2)
    BY <2>1, <2>3, CallerLearns DEF IsKnowledge
  <2>5. OnPath(h) /\ h.know = combined
    <3>1. PICK h1 : h1 = [parent EXCEPT !.know = combined]
      OBVIOUS
    <3>2. IsFrame(h1) /\ SamePath(parent, h1) /\ h1.know = combined
      BY ONLY <2>2, <3>1, FrameSet, KnowSet
    <3>3. h = [h1 EXCEPT !.todo = todo]
      BY <3>1
    <3>4. h.path = h1.path /\ h.todo = todo /\ h.query = h1.query /\ h.know = h1.know
      BY ONLY <3>2, <3>3, TodoSet
    <3>5. <<>> \in Seq(Questions)
      OBVIOUS
    <3> QED
      BY <2>1, <2>3, <3>2, <3>4, <3>5 DEF OnPath, SamePath
  <2>6. IsTop(h, g2)
    BY <2>4, <2>5 DEF IsTop, IsKnowledge
  <2>7. Passes(gathered, g2)
    BY <2>4, PassesTwice
  <2>8. Comes(stack, h, stack')
    BY <1>1, <1>4, <2>1, TopComes
  <2> PICK s2 : s2 = stack'
    OBVIOUS
  <2>9. Informed(s2, g2)
    <3>1. Informed(stack, gathered)
      BY DEF Learning
    <3> QED
      BY <1>1, <1>4, <2>6, <2>7, <2>8, <3>1, InformedReturn
  <2>10. ~Resolved'
    BY <1>1, <2>1 DEF Resolved
  <2>11. Equals(learned, gathered')
    BY <2>4
  <2> QED
    BY <1>2, <2>4, <2>9, <2>10, <2>11 DEF Learning
<1> QED
  BY <1>3, <1>4

(* or it gives up with the others.                                           *)
LEMMA ThrowsLearns ==
    ASSUME Learning, NEW interrupted, Throws(interrupted), acq' = Idle, thread' = thread
    PROVE  Learning' /\ Equals(gathered, gathered')
<1>1. stack' = <<>> /\ gaps' = gaps /\ gathered' = gathered
  BY DEF Throws
<1>2. ~Resolved'
  BY DEF Throws, Resolved
<1>3. Informed(stack', gathered')
  <2>1. Len(<<>>) = 0
    OBVIOUS
  <2> QED
    BY <1>1, <2>1 DEF Informed
<1> QED
  BY <1>1, <1>2, <1>3 DEF Learning, Equals

(* A call that returns for want of something has learned nothing.            *)
LEMMA BlockedLearns ==
    ASSUME Inv, Learning, Running, Top.path \in DOMAIN gaps, IsLedger(gaps), NEW stop,
           Blocked(Top.know, stop), acq' = Idle, thread' = thread
    PROVE  Learning' /\ Equals(gathered, gathered')
<1> PICK know, ledger, busy :
        know = Top.know /\ ledger = Mark(Top.path, "blocked") /\ busy = Freed(Top.path)
  OBVIOUS
<1> PICK learned : learned = gathered
  OBVIOUS
<1>1. Return(know, stop, ledger, learned, busy)
  BY DEF Blocked
<1>2. IsUnit(know) /\ Equals(know, learned) /\ IsKnowledge(learned)
  BY TopLearns DEF IsTop, Learning
<1>3. Passes(gathered, learned)
  BY DEF Passes
<1>4. IsFiniteSet(DOMAIN ledger)
  BY DEF Mark, Learning
<1> QED
  BY <1>1, <1>2, <1>3, <1>4, ReturnLearns

-----------------------------------------------------------------------------
(* What the steps make of the knowledge.  The place of a problem is a number. *)
LEMMA RankType ==
    ASSUME NEW path \in Seq(Questions)
    PROVE  IdRank(path) \in Nat
<1> PICK n : n = Len(path)
  OBVIOUS
<1>1. n \in Nat /\ \A i \in 1..n : path[i] \in Nat
  <2>1. n \in Nat /\ \A i \in 1..n : path[i] \in Questions
    OBVIOUS
  <2>2. Questions \subseteq Nat
    BY ResolverAssumption
  <2> QED
    BY <2>1, <2>2
<1> PICK c : c = 1 + Cardinality(Questions)
  OBVIOUS
<1>2. c \in Nat
  BY ResolverAssumption, FS_CardinalityType
<1> DEFINE step == [i \in 1..n |-> [x \in Nat |-> x * c + path[i] + 1]]
<1>3. IsSteps(Nat, n, 0, step)
  <2>1. \A i \in 1..n : \A x \in Nat : x * c + path[i] + 1 \in Nat
    <3> SUFFICES ASSUME NEW i \in 1..n, NEW x \in Nat PROVE x * c + path[i] + 1 \in Nat
      OBVIOUS
    <3>1. x * c \in Nat
      BY <1>2
    <3> QED
      BY <1>1, <3>1
  <2> QED
    BY <1>1, <2>1 DEF IsSteps
<1>4. \A i \in 1..n : \A x \in Nat : step[i][x] = x * c + path[i] + 1
  OBVIOUS
<1> HIDE DEF step
<1>5. PICK f \in [0..n -> Nat] : Run(n, 0, step, f)
  BY <1>3, Recursion
<1>6. f[0] = 0 /\ \A i \in 1..n : f[i] = f[i - 1] * c + path[i] + 1
  <2>1. \A i \in 1..n : f[i - 1] \in Nat
    <3>1. \A i \in 1..n : i - 1 \in 0..n
      BY <1>1
    <3> QED
      BY <3>1
  <2>2. f[0] = 0 /\ \A i \in 1..n : f[i] = step[i][f[i - 1]]
    BY <1>5 DEF Run
  <2> QED
    BY <1>4, <2>1, <2>2
<1> DEFINE IsRank(g) == g = [k \in 0..n |-> IF k = 0 THEN 0 ELSE g[k - 1] * c + path[k] + 1]
           rank == CHOOSE g : IsRank(g)
<1>7. IsRank(f)
  <2>1. f = [k \in 0..n |-> f[k]]
    OBVIOUS
  <2>2. \A k \in 0..n : f[k] = IF k = 0 THEN 0 ELSE f[k - 1] * c + path[k] + 1
    <3> SUFFICES ASSUME NEW k \in 0..n, k # 0
                 PROVE  f[k] = f[k - 1] * c + path[k] + 1
      BY <1>6
    <3>1. k \in 1..n
      BY <1>1
    <3> QED
      BY <1>6, <3>1
  <2> QED
    BY <2>1, <2>2
<1>8. IsRank(rank)
  BY <1>7
<1>9. IdRank(path) = rank[n]
  BY DEF IdRank
<1> HIDE DEF rank
<1>10. \A k \in Nat : k \in {m \in Nat : m \in 0..n => rank[m] \in Nat}
  <2> DEFINE P == {m \in Nat : m \in 0..n => rank[m] \in Nat}
  <2>1. 0 \in P
    BY <1>1, <1>8
  <2>2. ASSUME NEW k \in Nat, k \in P PROVE k + 1 \in P
    <3>1. ASSUME k + 1 \in 0..n PROVE rank[k + 1] \in Nat
      <4>1. k \in 0..n /\ k + 1 \in 1..n /\ (k + 1) - 1 = k /\ k + 1 # 0
        BY <1>1, <3>1
      <4>2. rank[k + 1] = rank[k] * c + path[k + 1] + 1
        BY <1>8, <4>1
      <4>3. rank[k] \in Nat /\ path[k + 1] \in Nat
        BY <1>1, <2>2, <4>1
      <4>4. rank[k] * c \in Nat
        BY <1>2, <4>3
      <4> QED
        BY <4>2, <4>3, <4>4
    <3> QED
      BY <3>1
  <2> HIDE DEF P
  <2>3. \A k \in Nat : k \in P
    BY <2>1, <2>2, Induction
  <2> QED
    BY <2>3 DEF P
<1>11. n \in 0..n
  BY <1>1
<1> QED
  BY <1>9, <1>10, <1>11

(* A pack of what an acquisition extracted.                                  *)
LEMMA NewPacksAre ==
    ASSUME NEW a, IsNamed(a)
    PROVE  IsPacks(ToSet(NewPacks(a)))
<1> PICK p : p = [order |-> a.order, problem |-> a.problem, query |-> a.query,
                  sources |-> Viable(a)]
  OBVIOUS
<1>1. IsPack(p)
  BY DEF IsPack, IsNamed
<1>2. ToSet(NewPacks(a)) \in SUBSET {p}
  <2>1. ToSet(<<>>) = {} /\ ToSet(<<p>>) = {p}
    BY DEF ToSet
  <2> QED
    BY <2>1 DEF NewPacks
<1>3. IsFiniteSet({p})
  BY FS_Singleton
<1> QED
  BY <1>1, <1>2, <1>3, FS_Subset DEF IsPacks

(* A call that enters: it returns what it knew, or goes on.                  *)
LEMMA EnterLearns ==
    ASSUME Inv, Learning, Enter, thread' = thread
    PROVE  Learning' /\ Equals(gathered, gathered')
<1> PICK f : f = Top
  OBVIOUS
<1> PICK mark : mark = Fingerprint(f.path)
  OBVIOUS
<1> PICK ledger : ledger = IF f.path \in DOMAIN gaps THEN gaps ELSE With(gaps, f.path, OpenGap)
  OBVIOUS
<1> PICK block : block = [ledger EXCEPT ![f.path].status = "blocked"]
  OBVIOUS
<1>1. Running /\ f.pc = "enter" /\ acq' = acq
  BY DEF Enter
<1>2. acq = Idle /\ acq' = Idle /\ IsFrame(f)
  BY <1>1, AtTop
<1>3. IsTop(f, gathered) /\ IsKnowledge(gathered)
  BY <1>1, TopLearns DEF Learning
<1>4. DOMAIN ledger = DOMAIN gaps \cup {f.path} /\ DOMAIN block = DOMAIN ledger
  BY DEF With
<1>5. IsFiniteSet(DOMAIN ledger) /\ IsFiniteSet(DOMAIN block)
  <2>1. IsFiniteSet(DOMAIN gaps) /\ IsFiniteSet({f.path})
    BY FS_Singleton DEF Learning
  <2>2. IsFiniteSet(DOMAIN gaps \cup {f.path})
    BY ONLY <2>1, FS_Union
  <2> QED
    BY <1>4, <2>2
<1>6. Passes(gathered, gathered)
  BY DEF Passes
<1>7. ASSUME NEW stop, Return(f.know, stop, block, gathered, active)
      PROVE  Learning' /\ Equals(gathered, gathered')
  <2> PICK know, learned, busy : know = f.know /\ learned = gathered /\ busy = active
    OBVIOUS
  <2>1. Return(know, stop, block, learned, busy)
    BY <1>7
  <2>2. IsUnit(know) /\ Equals(know, learned) /\ IsKnowledge(learned)
        /\ Passes(gathered, learned)
    BY <1>3, <1>6 DEF IsTop
  <2> QED
    BY <1>1, <1>2, <1>5, <2>1, <2>2, ReturnLearns
<1>8. CASE Throws(FALSE)
  BY <1>2, <1>8, ThrowsLearns
<1>9. CASE /\ gaps' = ledger
           /\ stack' = WithTop(IF RootSearch(f)
                               THEN [f EXCEPT !.pc = "search", !.query = mark]
                               ELSE [f EXCEPT !.pc = "assess", !.attempt = 1])
           /\ UNCHANGED <<gathered, outcome>>
  <2>1. PICK g : g = IF RootSearch(f) THEN [f EXCEPT !.pc = "search", !.query = mark]
                     ELSE [f EXCEPT !.pc = "assess", !.attempt = 1]
    OBVIOUS
  <2>2. OnPath(g) /\ g.know = f.know
    <3>1. CASE RootSearch(f)
      <4>1. PICK f1 : f1 = [f EXCEPT !.pc = "search"]
        OBVIOUS
      <4>2. IsFrame(f1) /\ SamePath(f, f1) /\ f1.know = f.know
        <5>1. IsFrame(f1)
          BY ONLY <1>2, <4>1, FramePc
        <5>2. SamePath(f, f1) /\ f1.know = f.know
          BY ONLY <1>2, <4>1, OtherSet
        <5> QED
          BY <5>1, <5>2
      <4>3. g = [f1 EXCEPT !.query = mark]
        BY <2>1, <3>1, <4>1
      <4>4. g.path = f1.path /\ g.todo = f1.todo /\ g.query = mark /\ g.know = f1.know
        BY ONLY <4>2, <4>3, QuerySet
      <4>5. mark \in Nat
        <5>1. f.path \in Seq(Questions) /\ f.path # <<>>
          BY <1>3 DEF IsTop, OnPath
        <5>2. mark \in Questions
          BY <5>1 DEF Fingerprint
        <5> QED
          BY <5>2, ResolverAssumption
      <4> QED
        BY <1>3, <4>2, <4>4, <4>5 DEF IsTop, OnPath, SamePath
    <3>2. CASE ~RootSearch(f)
      <4>1. PICK f1 : f1 = [f EXCEPT !.pc = "assess"]
        OBVIOUS
      <4>2. IsFrame(f1) /\ SamePath(f, f1) /\ f1.know = f.know
        <5>1. IsFrame(f1)
          BY ONLY <1>2, <4>1, FramePc
        <5>2. SamePath(f, f1) /\ f1.know = f.know
          BY ONLY <1>2, <4>1, OtherSet
        <5> QED
          BY <5>1, <5>2
      <4>3. PICK x : x = 1 /\ g = [f1 EXCEPT !.attempt = x]
        BY <2>1, <3>2, <4>1
      <4>4. SamePath(f1, g) /\ g.know = f1.know
        BY ONLY <4>2, <4>3, OtherSet
      <4> QED
        BY <1>3, <4>2, <4>4 DEF IsTop, OnPath, SamePath
    <3> QED
      BY <3>1, <3>2
  <2>3. IsTop(g, gathered')
    BY <1>3, <1>9, <2>2 DEF IsTop
  <2>4. stack' = WithTop(g) /\ outcome' = outcome /\ gathered' = gathered
    BY <1>9, <2>1
  <2>5. IsFiniteSet(DOMAIN gaps')
    BY <1>5, <1>9
  <2>6. IsKnowledge(gathered') /\ Passes(gathered, gathered')
    BY <1>3, <1>6, <2>4
  <2> QED
    BY <1>1, <1>2, <2>3, <2>4, <2>5, <2>6, GoLearns DEF Equals
<1> QED
  BY <1>7, <1>8, <1>9 DEF Enter

(* An assessment that resolves the problem adds findings.                    *)
Asserting(g, claim, refs, g2) ==
    /\ g2.findings = JoinFindings(g.findings, Asserted(claim, refs))
    /\ PacksIn(g2) = PacksIn(g)

(* An assessment that resolves its problem keeps the invariant, and asserts  *)
(* only what the references the frame may use support.                       *)
LEMMA ResolvedLearns ==
    ASSUME Inv, Learning, AssessesResolved, thread' = thread
    PROVE  /\ Learning'
           /\ \/ Equals(gathered, gathered')
              \/ \E claim \in Claims :
                    Asserting(gathered, claim, AllowedRefs(Top.know), gathered')
<1>1. /\ Running /\ acq = Idle /\ Top.path \in DOMAIN gaps /\ IsLedger(gaps)
  BY AssessingIs DEF AssessesResolved
<1>2. acq' = Idle
  BY <1>1 DEF AssessesResolved
<1>3. PICK claim \in Claims : \E refs \in {AllowedRefs(Top.know)} :
      \E merged \in {Merged(Top, Asserted(claim, refs))} :
      \E learned \in {JoinBounded(<<Root>>, gathered, merged)} :
         IF Conflict(Top.know.findings, Asserted(claim, refs))
                \/ Conflict(gathered.findings, Asserted(claim, refs))
         THEN Throws(FALSE) /\ UNCHANGED <<used, budget>>
         ELSE /\ Charge
              /\ IF merged = Top.know
                 THEN Return(merged, "no_new_knowledge", Mark(Top.path, "blocked"),
                             learned, Freed(Top.path))
                 ELSE Return(merged, "sufficient",
                             [gaps EXCEPT ![Top.path] =
                                 [status |-> "resolved",
                                  support |-> References(merged.findings)]],
                             learned, Freed(Top.path))
  BY DEF AssessesResolved
<1>4. PICK refs, merged, learned :
         /\ refs = AllowedRefs(Top.know)
         /\ merged = Merged(Top, Asserted(claim, refs))
         /\ learned = JoinBounded(<<Root>>, gathered, merged)
         /\ \/ Throws(FALSE)
            \/ Return(merged, "no_new_knowledge", Mark(Top.path, "blocked"),
                      learned, Freed(Top.path))
            \/ Return(merged, "sufficient",
                      [gaps EXCEPT ![Top.path] =
                          [status |-> "resolved",
                           support |-> References(merged.findings)]],
                      learned, Freed(Top.path))
  BY <1>3
<1> PICK top : top = Top
  OBVIOUS
<1> PICK x : x = Unit(top.path, Asserted(claim, refs), top.know.evidence)
  OBVIOUS
<1>5. IsUnit(top.know) /\ Equals(top.know, gathered) /\ IsUnit(gathered)
  BY <1>1, TopLearns DEF IsTop
<1>6. x.evidence = top.know.evidence /\ x.findings = Asserted(claim, refs)
  BY DEF Unit
<1>7. IsPacks(PacksIn(x))
  BY <1>5, <1>6 DEF IsUnit, PacksIn
<1>8. merged = JoinBounded(top.path, top.know, x)
  BY <1>4 DEF Merged
<1>9. /\ IsKnowledge(merged) /\ IsKnowledge(learned)
      /\ Equals(merged, learned) /\ Passes(gathered, learned) /\ Adds(gathered, x, learned)
  BY <1>4, <1>5, <1>7, <1>8, LearnIs
<1>a. Asserting(gathered, claim, refs, learned)
  <2>1. PacksIn(x) = PacksIn(gathered) /\ Kept(PacksIn(gathered)) = PacksIn(gathered)
    BY <1>5, <1>6 DEF PacksIn, Equals, IsUnit
  <2>2. PacksIn(gathered) \cup PacksIn(gathered) = PacksIn(gathered)
    OBVIOUS
  <2> QED
    BY <1>6, <1>9, <2>1, <2>2 DEF Adds, Asserting
<1>10. ASSUME NEW stop, NEW ledger, NEW busy, Return(merged, stop, ledger, learned, busy),
              DOMAIN ledger = DOMAIN gaps
       PROVE  Learning' /\ Asserting(gathered, claim, refs, gathered')
  <2>1. IsUnit(merged) /\ IsFiniteSet(DOMAIN ledger)
    BY <1>9, <1>10 DEF IsKnowledge, Learning
  <2>2. Learning' /\ Equals(learned, gathered')
    BY <1>1, <1>2, <1>9, <1>10, <2>1, ReturnLearns
  <2> QED
    BY <1>a, <2>2 DEF Asserting, Equals
<1>11. CASE Throws(FALSE)
  BY <1>2, <1>11, ThrowsLearns
<1>12. CASE Return(merged, "no_new_knowledge", Mark(Top.path, "blocked"),
                   learned, Freed(Top.path))
  <2>1. DOMAIN Mark(Top.path, "blocked") = DOMAIN gaps
    BY DEF Mark
  <2> QED
    BY <1>4, <1>10, <1>12, <2>1
<1>13. CASE Return(merged, "sufficient",
                   [gaps EXCEPT ![Top.path] =
                       [status |-> "resolved",
                        support |-> References(merged.findings)]],
                   learned, Freed(Top.path))
  <2> PICK ledger : ledger = [gaps EXCEPT ![Top.path] =
                                [status |-> "resolved",
                                 support |-> References(merged.findings)]]
    OBVIOUS
  <2>1. DOMAIN ledger = DOMAIN gaps
    OBVIOUS
  <2> QED
    BY <1>4, <1>10, <1>13, <2>1
<1> QED
  BY <1>4, <1>11, <1>12, <1>13

(* One that asks for a search or for children only goes on.                  *)
LEMMA AssessSearchLearns ==
    ASSUME Inv, Learning, AssessesSearch, thread' = thread
    PROVE  Learning' /\ Equals(gathered, gathered')
<1>1. Running /\ acq = Idle /\ IsFrame(Top)
  BY AssessingIs DEF AssessesSearch
<1>2. PICK q \in Queries : stack' = WithTop([Top EXCEPT !.pc = "search", !.query = q])
  BY DEF AssessesSearch
<1>3. gaps' = gaps /\ gathered' = gathered /\ outcome' = outcome /\ acq' = Idle
  BY <1>1 DEF AssessesSearch
<1>4. PICK top : top = Top
  OBVIOUS
<1>5. PICK f : f = [top EXCEPT !.pc = "search", !.query = q]
  OBVIOUS
<1>6. IsTop(top, gathered) /\ IsFrame(top)
  BY <1>1, <1>4, TopLearns
<1>7. OnPath(f) /\ f.know = top.know
  <2>1. PICK f1 : f1 = [top EXCEPT !.pc = "search"]
    OBVIOUS
  <2>2. IsFrame(f1) /\ SamePath(top, f1) /\ f1.know = top.know
    <3>1. IsFrame(f1)
      BY ONLY <1>6, <2>1, FramePc
    <3>2. SamePath(top, f1) /\ f1.know = top.know
      BY ONLY <1>6, <2>1, OtherSet
    <3> QED
      BY <3>1, <3>2
  <2>3. f = [f1 EXCEPT !.query = q]
    BY <1>5, <2>1
  <2>4. f.path = f1.path /\ f.todo = f1.todo /\ f.query = q /\ f.know = f1.know
    BY ONLY <2>2, <2>3, QuerySet
  <2>5. q \in Nat
    BY ResolverAssumption
  <2> QED
    BY <1>6, <2>2, <2>4, <2>5 DEF IsTop, OnPath, SamePath
<1>8. IsTop(f, gathered') /\ IsKnowledge(gathered') /\ Passes(gathered, gathered')
  BY <1>3, <1>6, <1>7 DEF IsTop, Learning, Passes
<1>9. stack' = WithTop(f) /\ IsFiniteSet(DOMAIN gaps')
  BY <1>2, <1>3, <1>4, <1>5 DEF Learning
<1> QED
  BY <1>1, <1>3, <1>8, <1>9, GoLearns DEF Equals

(* Decomposing a problem keeps the invariant and gathers nothing.            *)
LEMMA DecomposeLearns ==
    ASSUME Inv, Learning, AssessesDecompose, thread' = thread
    PROVE  Learning' /\ Equals(gathered, gathered')
<1>1. Running /\ acq = Idle /\ IsFrame(Top)
  BY AssessingIs DEF AssessesDecompose
<1>2. PICK children \in Decompositions : \E operator :
          stack' = WithTop([Top EXCEPT !.pc = "children", !.operator = operator,
                                       !.todo = children])
  BY DEF AssessesDecompose
<1>3. PICK operator :
          stack' = WithTop([Top EXCEPT !.pc = "children", !.operator = operator,
                                       !.todo = children])
  BY <1>2
<1>4. gaps' = Mark(Top.path, "decomposed") /\ gathered' = gathered
      /\ outcome' = outcome /\ acq' = Idle
  BY <1>1 DEF AssessesDecompose
<1>5. PICK top : top = Top
  OBVIOUS
<1>6. PICK f : f = [top EXCEPT !.pc = "children", !.operator = operator, !.todo = children]
  OBVIOUS
<1>7. IsTop(top, gathered) /\ IsFrame(top)
  BY <1>1, <1>5, TopLearns
<1>8. OnPath(f) /\ f.know = top.know
  <2>1. PICK f1 : f1 = [top EXCEPT !.pc = "children"]
    OBVIOUS
  <2>2. IsFrame(f1) /\ SamePath(top, f1) /\ f1.know = top.know
    <3>1. IsFrame(f1)
      BY ONLY <1>7, <2>1, FramePc
    <3>2. SamePath(top, f1) /\ f1.know = top.know
      BY ONLY <1>7, <2>1, OtherSet
    <3> QED
      BY <3>1, <3>2
  <2>3. PICK f2 : f2 = [f1 EXCEPT !.operator = operator]
    OBVIOUS
  <2>4. IsFrame(f2) /\ SamePath(f1, f2) /\ f2.know = f1.know
    BY ONLY <2>2, <2>3, FrameSet, OtherSet
  <2>5. f = [f2 EXCEPT !.todo = children]
    BY <1>6, <2>1, <2>3
  <2>6. f.path = f2.path /\ f.todo = children /\ f.query = f2.query /\ f.know = f2.know
    BY ONLY <2>4, <2>5, TodoSet
  <2>7. children \in Seq(Questions)
    BY ResolverAssumption
  <2> QED
    BY <1>7, <2>2, <2>4, <2>6, <2>7 DEF IsTop, OnPath, SamePath
<1>9. IsTop(f, gathered') /\ IsKnowledge(gathered') /\ Passes(gathered, gathered')
  BY <1>4, <1>7, <1>8 DEF IsTop, Learning, Passes
<1>10. stack' = WithTop(f) /\ IsFiniteSet(DOMAIN gaps')
  BY <1>3, <1>4, <1>5, <1>6 DEF Learning, Mark
<1> QED
  BY <1>1, <1>4, <1>9, <1>10, GoLearns DEF Equals

(* An attempt that fails is repeated or the problem given up.                *)
LEMMA AttemptLearns ==
    ASSUME Inv, Learning, AttemptFails, thread' = thread
    PROVE  Learning' /\ Equals(gathered, gathered')
<1>1. Running /\ acq = Idle /\ IsFrame(Top) /\ Top.path \in DOMAIN gaps /\ IsLedger(gaps)
  BY AssessingIs DEF AttemptFails
<1>2. acq' = Idle
  BY <1>1 DEF AttemptFails
<1>3. CASE Blocked(Top.know, "provider_unavailable")
  BY <1>1, <1>2, <1>3, BlockedLearns
<1>4. CASE /\ stack' = WithTop([Top EXCEPT !.attempt = 2])
           /\ UNCHANGED <<gaps, gathered, active, outcome>>
  <2>1. PICK top, x : top = Top /\ x = 2
    OBVIOUS
  <2>2. PICK f : f = [top EXCEPT !.attempt = x]
    OBVIOUS
  <2>3. IsTop(top, gathered) /\ IsFrame(top)
    BY <1>1, <2>1, TopLearns
  <2>4. SamePath(top, f) /\ f.know = top.know
    BY ONLY <2>2, <2>3, OtherSet
  <2>5. IsTop(f, gathered') /\ IsKnowledge(gathered') /\ Passes(gathered, gathered')
    BY <1>4, <2>3, <2>4 DEF IsTop, OnPath, SamePath, Learning, Passes
  <2>6. stack' = WithTop(f) /\ IsFiniteSet(DOMAIN gaps')
    BY <1>4, <2>1, <2>2 DEF Learning
  <2> QED
    BY <1>1, <1>2, <1>4, <2>5, <2>6, GoLearns DEF Equals
<1> QED
  BY <1>3, <1>4 DEF AttemptFails

(* A search is refused, or begins under the names of its problem and query.  *)
LEMMA BeginSearchLearns ==
    ASSUME Inv, Learning, BeginSearch, thread' = thread
    PROVE  Learning' /\ Equals(gathered, gathered')
<1>1. Running /\ Top.pc = "search" /\ acq = Idle
  BY DEF BeginSearch
<1>2. Top.path \in DOMAIN gaps /\ IsLedger(gaps)
  BY <1>1, SearchIs
<1>3. ASSUME NEW stop, Blocked(Top.know, stop), acq' = acq
      PROVE  Learning' /\ Equals(gathered, gathered')
  BY <1>1, <1>2, <1>3, BlockedLearns
<1>4. CASE /\ acq' = Requested(IdRank(Top.path), Top.query, Cardinality(DOMAIN gaps),
                               SourcesOf(gathered.evidence), budget.sources)
           /\ UNCHANGED <<stack, gaps, gathered, active, outcome>>
  <2> PICK problem, query, order, available, sources :
         /\ problem = IdRank(Top.path) /\ query = Top.query
         /\ order = Cardinality(DOMAIN gaps)
         /\ available = SourcesOf(gathered.evidence) /\ sources = budget.sources
    OBVIOUS
  <2>1. problem \in Nat /\ query \in Nat /\ order \in Nat
    <3>1. Top.path \in Seq(Questions) /\ Top.query \in Nat
      BY <1>1, TopLearns DEF IsTop, OnPath
    <3>2. IsFiniteSet(DOMAIN gaps)
      BY DEF Learning
    <3> QED
      BY <3>1, <3>2, RankType, FS_CardinalityType
  <2>2. acq' = Requested(problem, query, order, available, sources)
    BY <1>4
  <2>3. /\ acq'.problem = problem /\ acq'.query = query /\ acq'.order = order
        /\ acq'.available = available /\ acq'.candidates = <<>> /\ acq'.selected = <<>>
    BY <2>2 DEF Requested
  <2>a. DOMAIN <<>> \in SUBSET Int /\ Len(<<>>) = 0
    OBVIOUS
  <2>b. IsFresh(acq')
    BY <2>3, <2>a DEF IsFresh
  <2>4. IsSearch(acq', gathered')
    BY <1>4, <2>1, <2>3, <2>b DEF IsNamed, IsSearch
  <2>5. Resolved' <=> Resolved
    BY <1>4 DEF Resolved
  <2> QED
    BY <1>4, <2>4, <2>5 DEF Learning, Equals
<1> QED
  BY <1>3, <1>4 DEF BeginSearch

(* When it ends, the problem knows the pages it brought.                     *)
LEMMA EndSearchLearns ==
    ASSUME Inv, Learning, EndSearch, thread' = thread
    PROVE  /\ Learning'
           /\ \E x : /\ x.evidence = NewPacks(acq) /\ x.findings = Nothing
                     /\ IsPacks(PacksIn(x)) /\ Adds(gathered, x, gathered')
<1>1. Running /\ acq.pc = "done" /\ acq' = Idle
  BY DEF EndSearch
<1>2. acq # Idle
  BY <1>1 DEF Idle
<1>3. Top.pc = "search"
  BY <1>2 DEF Inv, Waits
<1>4. Top.path \in DOMAIN gaps /\ IsLedger(gaps) /\ IsFrame(Top)
  BY <1>1, <1>3, SearchIs
<1> PICK top : top = Top
  OBVIOUS
<1> PICK x : x = Unit(top.path, Nothing, NewPacks(acq))
  OBVIOUS
<1>5. PICK after, learned, stop :
         /\ after = JoinBounded(top.path, top.know, x)
         /\ learned = JoinBounded(<<Root>>, gathered, after)
         /\ \/ /\ gaps' = Mark(top.path, "open")
               /\ stack' = WithTop([top EXCEPT !.know = after, !.pc = "enter"])
               /\ outcome' = outcome /\ gathered' = learned
            \/ Return(after, stop, Mark(top.path, "blocked"), learned, Freed(top.path))
  BY DEF EndSearch
<1>6. OnPath(top) /\ IsUnit(top.know) /\ Equals(top.know, gathered) /\ IsUnit(gathered)
  BY <1>1, TopLearns DEF IsTop
<1>7. x.evidence = NewPacks(acq) /\ x.findings = Nothing /\ IsPacks(PacksIn(x))
  <2>1. x.evidence = NewPacks(acq) /\ x.findings = Nothing
    BY DEF Unit
  <2>2. IsNamed(acq)
    BY <1>2 DEF Learning, IsSearch
  <2> QED
    BY <2>1, <2>2, NewPacksAre DEF PacksIn
<1>8. /\ IsKnowledge(after) /\ IsKnowledge(learned)
      /\ Equals(after, learned) /\ Passes(gathered, learned) /\ Adds(gathered, x, learned)
  BY <1>5, <1>6, <1>7, LearnIs
<1>9. \A status : IsFiniteSet(DOMAIN Mark(top.path, status))
  BY DEF Mark, Learning
<1>10. CASE /\ gaps' = Mark(top.path, "open")
            /\ stack' = WithTop([top EXCEPT !.know = after, !.pc = "enter"])
            /\ outcome' = outcome /\ gathered' = learned
  <2>1. PICK f : f = [top EXCEPT !.know = after, !.pc = "enter"]
    OBVIOUS
  <2>2. SamePath(top, f) /\ f.know = after
    <3>1. PICK f1 : f1 = [top EXCEPT !.know = after]
      OBVIOUS
    <3>2. IsFrame(f1) /\ SamePath(top, f1) /\ f1.know = after
      BY ONLY <1>4, <3>1, top = Top, FrameSet, KnowSet
    <3>3. PICK pc : pc = "enter"
      OBVIOUS
    <3>4. f = [f1 EXCEPT !.pc = pc]
      BY <2>1, <3>1, <3>3
    <3>5. SamePath(f1, f) /\ f.know = f1.know
      BY ONLY <3>2, <3>4, OtherSet
    <3> QED
      BY <3>2, <3>5 DEF SamePath
  <2>3. IsTop(f, gathered')
    BY <1>6, <1>8, <1>10, <2>2 DEF IsTop, OnPath, SamePath, IsKnowledge
  <2>4. stack' = WithTop(f) /\ IsFiniteSet(DOMAIN gaps')
    BY <1>9, <1>10, <2>1
  <2> QED
    BY <1>1, <1>7, <1>8, <1>10, <2>3, <2>4, GoLearns
<1>11. CASE Return(after, stop, Mark(top.path, "blocked"), learned, Freed(top.path))
  <2> PICK ledger, busy : ledger = Mark(top.path, "blocked") /\ busy = Freed(top.path)
    OBVIOUS
  <2>1. Return(after, stop, ledger, learned, busy)
    BY <1>11
  <2>2. IsUnit(after) /\ IsFiniteSet(DOMAIN ledger)
    BY <1>8, <1>9 DEF IsKnowledge
  <2>3. Learning' /\ Equals(learned, gathered')
    BY <1>1, <1>8, <2>1, <2>2, ReturnLearns
  <2>4. Adds(gathered, x, gathered')
    BY <1>8, <2>3 DEF Adds, Equals
  <2> QED
    BY <1>7, <2>3, <2>4
<1> QED
  BY <1>5, <1>10, <1>11

(* A child is called with what its caller knows.                             *)
LEMMA NextChildLearns ==
    ASSUME Inv, Learning, NextChild, thread' = thread
    PROVE  Learning' /\ Equals(gathered, gathered')
<1>1. Running /\ Top.pc = "children" /\ acq' = acq
  BY DEF NextChild
<1>2. /\ IsLedger(gaps) /\ IsFrame(Top) /\ stack # <<>> /\ outcome = Pending
      /\ IsSeq(stack) /\ Top.path \in DOMAIN gaps /\ acq' = Idle
  BY <1>1, AtTop
<1> PICK top : top = Top
  OBVIOUS
<1>3. IsTop(top, gathered) /\ IsFrame(top) /\ OnPath(top)
  BY <1>1, <1>2, TopLearns DEF IsTop
<1>4. CASE Blocked(Top.know, "depth_limit_reached")
  BY <1>1, <1>2, <1>4, BlockedLearns
<1>5. CASE /\ Top.todo # <<>>
           /\ stack' = Append(WithTop([Top EXCEPT !.todo = Tail(@)]),
                              Frame(Append(Top.path, Head(Top.todo)), Top.know))
           /\ UNCHANGED <<gaps, gathered, active, outcome>>
  <2>1. PICK f : f = [top EXCEPT !.todo = Tail(@)]
    OBVIOUS
  <2>2. PICK rest : rest = Tail(top.todo) /\ f = [top EXCEPT !.todo = rest]
    BY <2>1
  <2>3. Head(top.todo) \in Questions /\ rest \in Seq(Questions)
    BY <1>3, <1>5, <2>2 DEF OnPath
  <2>4. f.path = top.path /\ f.todo = rest /\ f.query = top.query /\ f.know = top.know
    BY ONLY <1>3, <2>2, TodoSet
  <2>5. IsTop(f, gathered)
    BY <1>3, <2>3, <2>4 DEF IsTop, OnPath
  <2> PICK path, know : path = Append(top.path, Head(top.todo)) /\ know = top.know
    OBVIOUS
  <2> PICK child : child = Frame(path, know)
    OBVIOUS
  <2>6. child.path = path /\ child.know = know /\ child.todo = <<>> /\ child.query = Root
    BY DEF Frame
  <2>7. path \in Seq(Questions) /\ path # <<>>
    BY <1>3, <2>3 DEF OnPath
  <2>8. Root \in Nat /\ <<>> \in Seq(Questions)
    BY ResolverAssumption
  <2>9. IsTop(child, gathered)
    BY <1>3, <2>6, <2>7, <2>8 DEF IsTop, OnPath
  <2> PICK s : s = WithTop(f)
    OBVIOUS
  <2>10. Goes(stack, f, s)
    BY <1>2, TopGoes DEF WithTop
  <2>11. Informed(s, gathered)
    <3>1. Informed(stack, gathered) /\ Passes(gathered, gathered)
      BY DEF Learning, Passes
    <3> QED
      BY <1>2, <2>5, <2>10, <3>1, InformedGo
  <2>12. stack' = Append(s, child)
    BY <1>5, <2>1
  <2>13. IsSeq(s)
    BY <2>10 DEF Goes
  <2>14. Calls(s, child, stack')
    BY <2>12, <2>13, TopCalls
  <2> PICK s2 : s2 = stack'
    OBVIOUS
  <2>15. Informed(s2, gathered)
    BY <2>9, <2>11, <2>13, <2>14, InformedCall
  <2>16. ~Resolved'
    BY <1>2, <1>5 DEF Resolved
  <2> QED
    BY <1>2, <1>5, <2>15, <2>16 DEF Learning, Equals
<1>6. CASE /\ stack' = WithTop([Top EXCEPT !.pc = "enter"])
           /\ UNCHANGED <<gaps, gathered, outcome>>
  <2>1. PICK pc : pc = "enter"
    OBVIOUS
  <2>2. PICK f : f = [top EXCEPT !.pc = pc]
    OBVIOUS
  <2>3. SamePath(top, f) /\ f.know = top.know
    BY ONLY <1>3, <2>2, OtherSet
  <2>4. IsTop(f, gathered') /\ IsKnowledge(gathered') /\ Passes(gathered, gathered')
    BY <1>3, <1>6, <2>3 DEF IsTop, OnPath, SamePath, Learning, Passes
  <2>5. stack' = WithTop(f) /\ IsFiniteSet(DOMAIN gaps')
    BY <1>6, <2>1, <2>2 DEF Learning
  <2> QED
    BY <1>1, <1>2, <1>6, <2>4, <2>5, GoLearns DEF Equals
<1> QED
  BY <1>4, <1>5, <1>6 DEF NextChild

(* A research begins with the packs of its context.                          *)
LEMMA EmptyUnit == IsKnowledge(Unit(<<Root>>, Nothing, <<>>))
<1> DEFINE u == Unit(<<Root>>, Nothing, <<>>)
<1>1. u.findings = <<>> /\ u.evidence = <<>>
  BY DEF Unit, Nothing
<1>2. ToSet(<<>>) = {}
  BY DEF ToSet
<1>3. PacksIn(u) = {}
  BY <1>1, <1>2 DEF PacksIn
<1>4. IsPacks({})
  BY FS_EmptySet DEF IsPacks
<1>5. Kept({}) = {}
  BY DEF Kept, First, Keys
<1>6. IsFindings(<<>>)
  <2>1. DOMAIN <<>> = {}
    OBVIOUS
  <2> QED
    BY <2>1 DEF IsFindings
<1>7. <<>> \in Seq({}) /\ Len(<<>>) = 0
  OBVIOUS
<1>8. IsListing(<<>>)
  <2> PICK e : e = <<>>
    OBVIOUS
  <2>1. IsSeq(e) /\ Len(e) = 0
    BY <1>7, IsSeqOf
  <2>2. IsListing(e)
    BY <2>1 DEF IsListing
  <2> QED
    BY <2>2
<1>9. 0 <= MaxPacks
  BY MaxPacksAssumption
<1> HIDE DEF u
<1>10. IsKnowledge(u)
  BY <1>1, <1>3, <1>4, <1>5, <1>6, <1>7, <1>8, <1>9 DEF IsKnowledge, IsUnit
<1> QED
  BY <1>10 DEF u

(* A run that begins knows the evidence of its context and nothing else.     *)
LEMMA BeginsLearns ==
    ASSUME Learning, NEW ctx, IsPacks(ToSet(ctx.evidence)), Begins(ctx), thread' = thread
    PROVE  Learning'
<1> PICK u : u = Unit(<<Root>>, Nothing, <<>>)
  OBVIOUS
<1> PICK x : x = Unit(<<Root>>, Nothing, ctx.evidence)
  OBVIOUS
<1> PICK g : g = gathered'
  OBVIOUS
<1>1. g = JoinBounded(<<Root>>, u, x) /\ stack' = <<Frame(<<Root>>, g)>>
      /\ gaps' = [path \in {<<Root>>} |-> OpenGap] /\ outcome' = Pending /\ acq' = Idle
  BY DEF Begins
<1>2. IsPacks(PacksIn(u)) /\ IsPacks(PacksIn(x))
  <2>1. x.evidence = ctx.evidence
    BY DEF Unit
  <2>2. IsUnit(u)
    BY EmptyUnit DEF IsKnowledge
  <2> QED
    BY <2>1, <2>2 DEF PacksIn, IsUnit
<1>3. IsKnowledge(g)
  BY <1>1, <1>2, JoinUnit
<1> PICK f : f = Frame(<<Root>>, g)
  OBVIOUS
<1>4. f.path = <<Root>> /\ f.know = g /\ f.todo = <<>> /\ f.query = Root
  BY DEF Frame
<1>5. /\ <<Root>> \in Seq(Questions) /\ <<Root>> # <<>> /\ <<>> \in Seq(Questions)
      /\ Root \in Nat
  BY ResolverAssumption
<1>6. IsTop(f, g)
  BY <1>3, <1>4, <1>5 DEF IsTop, OnPath, Equals, IsKnowledge
<1> PICK s : s = stack'
  OBVIOUS
<1>7. s = <<f>> /\ Len(s) = 1 /\ s[1] = f
  BY <1>1
<1>8. \A i \in 1..Len(s) : i = 1
  BY <1>7
<1>9. Informed(s, g)
  BY <1>6, <1>7, <1>8, TopAware DEF Informed, IsTop
<1>10. IsFiniteSet(DOMAIN gaps')
  <2>1. IsFiniteSet({<<Root>>})
    BY FS_Singleton
  <2> QED
    BY <1>1, <2>1
<1>11. ~Resolved'
  BY <1>1 DEF Resolved
<1> QED
  BY <1>1, <1>3, <1>9, <1>10, <1>11 DEF Learning

(* Nothing is learned while there is no research.                            *)
LEMMA EmptyLearns ==
    ASSUME stack' = <<>>, gaps' = <<>>, outcome' = Pending, acq' = Idle,
           gathered' = Unit(<<Root>>, Nothing, <<>>), thread' \in Seq(StoredTurns)
    PROVE  Learning'
<1>1. Len(<<>>) = 0 /\ DOMAIN <<>> = {} /\ IsFiniteSet({})
  BY FS_EmptySet
<1>2. Informed(stack', gathered')
  BY <1>1 DEF Informed
<1>3. ~Resolved'
  BY DEF Resolved
<1> QED
  BY <1>1, <1>2, <1>3, EmptyUnit DEF Learning

(* What leaves the resolver alone leaves the knowledge alone.                *)
LEMMA QuietLearns ==
    ASSUME Learning, UNCHANGED <<stack, gaps, outcome, gathered>>,
           acq' # Idle => IsSearch(acq', gathered'), thread' \in Seq(StoredTurns)
    PROVE  Learning'
<1>1. Resolved' <=> Resolved
  BY DEF Resolved
<1> QED
  BY <1>1 DEF Learning

(* Entering an acquisition keeps the invariant and gathers nothing.          *)
LEMMA AcquireLearns ==
    ASSUME Inv, Learning, Acquire, thread' = thread
    PROVE  Learning' /\ Equals(gathered, gathered')
<1>1. acq.pc \in {"search", "extract"}
  BY DEF Acquire, SearchAnswers, SearchFails, ExtractionSettles
<1>2. acq # Idle
  BY <1>1 DEF Idle
<1>3. IsSearch(acq, gathered)
  BY <1>2 DEF Learning
<1>4. Kin(acq, acq') /\ IsFresh(acq')
  BY <1>3, AcquireFresh DEF IsSearch
<1>5. UNCHANGED <<stack, gaps, outcome, gathered>>
  BY DEF Acquire, resolverVars
<1>6. IsSearch(acq', gathered')
  BY <1>3, <1>4, <1>5 DEF IsSearch, IsNamed, Kin
<1>7. thread' \in Seq(StoredTurns)
  BY DEF Learning
<1> QED
  BY <1>5, <1>6, <1>7, QuietLearns DEF Equals

(* What a research learns, its calls know, in every state                    *)
(* (research-resolver.ts:170-443).                                           *)
THEOREM KnowledgeInvariance ==
    Spec => [](Inv /\ Learning)
<1>1. Init => Learning
  <2> SUFFICES ASSUME Init
               PROVE  Learning
    OBVIOUS
  <2>1. IsKnowledge(gathered)
    BY EmptyUnit DEF Init
  <2>2. Len(<<>>) = 0 /\ DOMAIN <<>> = {} /\ IsFiniteSet({}) /\ <<>> \in Seq(StoredTurns)
    BY FS_EmptySet
  <2>3. Informed(stack, gathered)
    BY <2>2 DEF Init, Informed
  <2>4. ~Resolved
    BY DEF Init, Resolved
  <2> QED
    BY <2>1, <2>2, <2>3, <2>4 DEF Init, Learning
<1>2. Inv /\ Learning /\ [Next]_vars => Learning'
  <2> SUFFICES ASSUME Inv, Learning, [Next]_vars
               PROVE  Learning'
    OBVIOUS
  <2>1. ASSUME UNCHANGED <<stack, gaps, outcome, gathered, acq>>,
               thread' \in Seq(StoredTurns)
        PROVE  Learning'
    <3>1. acq' # Idle => IsSearch(acq', gathered')
      BY <2>1 DEF Learning
    <3> QED
      BY <2>1, <3>1, QuietLearns
  <2>2. thread \in Seq(StoredTurns)
    BY DEF Learning
  <2>3. CASE UNCHANGED vars
    BY <2>1, <2>2, <2>3 DEF vars, resolverVars
  <2>4. CASE Grow
    <3>1. thread' \in Seq(StoredTurns)
      BY <2>2, <2>4 DEF Grow
    <3> QED
      BY <2>1, <2>4, <3>1 DEF Grow, resolverVars
  <2>5. CASE Ask
    <3>1. PICK ctx : ctx = ContextOf(BuildThreadContext(thread))
      OBVIOUS
    <3>2. Begins(ctx) /\ thread' = thread
      BY <2>5, <3>1 DEF Ask
    <3>3. IsPacks(ToSet(ctx.evidence))
      BY <2>2, <3>1, ContextPacks
    <3> QED
      BY <3>2, <3>3, BeginsLearns
  <2>6. CASE Settle
    <3>1. Forgotten /\ thread' \in Seq(StoredTurns)
      BY <2>2, <2>6 DEF Settle
    <3> QED
      BY <3>1, EmptyLearns DEF Forgotten
  <2>7. CASE Works /\ UNCHANGED <<thread, turn, stream>>
    <3> thread' = thread
      BY <2>7
    <3>1. CASE Enter
      BY <3>1, EnterLearns
    <3>2. CASE AssessesResolved
      BY <3>2, ResolvedLearns
    <3>3. CASE AssessesSearch
      BY <3>3, AssessSearchLearns
    <3>4. CASE AssessesDecompose
      BY <3>4, DecomposeLearns
    <3>5. CASE AttemptFails
      BY <3>5, AttemptLearns
    <3>6. CASE ProviderUnavailable
      <4>1. Assessing /\ Blocked(Top.know, "provider_unavailable") /\ acq' = acq
        BY <3>6 DEF ProviderUnavailable
      <4>2. Running /\ acq' = Idle /\ Top.path \in DOMAIN gaps /\ IsLedger(gaps)
        BY <4>1, AssessingIs
      <4> QED
        BY <4>1, <4>2, BlockedLearns
    <3>7. CASE AssessmentThrows
      <4>1. PICK interrupted : Assessing /\ Throws(interrupted) /\ acq' = acq
        BY <3>7 DEF AssessmentThrows
      <4>2. acq' = Idle
        BY <4>1, AssessingIs
      <4> QED
        BY <4>1, <4>2, ThrowsLearns
    <3>8. CASE BeginSearch
      BY <3>8, BeginSearchLearns
    <3>9. CASE EndSearch
      BY <3>9, EndSearchLearns
    <3>10. CASE NextChild
      BY <3>10, NextChildLearns
    <3>11. CASE Acquire
      BY <3>11, AcquireLearns
    <3> QED
      BY <2>7, <3>1, <3>2, <3>3, <3>4, <3>5, <3>6, <3>7, <3>8, <3>9, <3>10, <3>11 DEF Works
  <2>8. CASE Abort /\ UNCHANGED <<thread, turn, stream>>
    BY <2>1, <2>2, <2>8 DEF Abort, resolverVars
  <2>9. CASE Chunk \/ StreamEnds \/ StreamFails \/ StreamInterrupted
    <3>1. Quiet
      BY <2>9 DEF Chunk, StreamEnds, StreamFails, StreamInterrupted
    <3> QED
      BY <2>1, <2>2, <3>1 DEF Quiet, resolverVars
  <2>10. CASE AbortSynthesis
    BY <2>1, <2>2, <2>10 DEF AbortSynthesis, resolverVars
  <2> QED
    BY <2>3, <2>4, <2>5, <2>6, <2>7, <2>8, <2>9, <2>10 DEF Next
<1> QED
  BY <1>1, <1>2, Invariance, PTL DEF Spec

(* Through every call, return, search and assessment the innermost call      *)
(* knows the findings and the packs that a checkpoint would save, though     *)
(* each join gives up what exceeds MAX_KNOWLEDGE_EVIDENCE_PACKS and returns  *)
(* combine what the join has cut (research-resolver.ts:66-84, 348-376).      *)
THEOREM KnowledgeIsKept ==
    Spec => []KnowledgeTravels
<1>1. Inv /\ Learning => KnowledgeTravels
  <2> SUFFICES ASSUME Inv, Learning
               PROVE  KnowledgeTravels
    OBVIOUS
  <2>1. Running => Equals(Top.know, gathered)
    BY TopLearns DEF IsTop
  <2>2. Resolved => Equals(outcome.knowledge, gathered)
    BY DEF Learning
  <2> QED
    BY <2>1, <2>2 DEF KnowledgeTravels, Equals, PacksIn
<1> QED
  BY <1>1, KnowledgeInvariance, PTL

(* The states of a research turn carry what the code reads of them: an       *)
(* outcome is there exactly when the last call has returned, only the        *)
(* innermost call works, and a synthesis goes on only from a resolution that *)
(* has something to say.                                                     *)
THEOREM TypeCorrect ==
    Spec => []TypeOK
<1>1. Init => Typed
  <2> SUFFICES ASSUME Init
               PROVE  Typed
    OBVIOUS
  <2>1. turn.pc = "asking" /\ stream = NoStream
    BY DEF Init
  <2> QED
    BY <2>1, NoStreamFits DEF Typed
<1>2. Inv /\ Typed /\ [Next]_vars => Typed'
  BY StaysTyped
<1>3. Inv /\ Learning /\ Typed => TypeOK
  <2> SUFFICES ASSUME Inv, Learning, Typed
               PROVE  TypeOK
    OBVIOUS
  <2>1. Turning /\ Waits /\ Shape(stack, active, gaps, outcome)
    BY DEF Inv
  <2>2. turn.pc # "resolving" => stack = <<>> /\ acq = Idle /\ outcome = Pending
    BY <2>1 DEF Turning, Waits, Running
  <2>3. turn.pc = "resolving" => (stack = <<>>) = (outcome # Pending)
    BY <2>1 DEF Turning, Shape
  <2>4. ASSUME NEW i \in DOMAIN stack
        PROVE  /\ stack[i].pc \in {"enter", "assess", "search", "children"}
               /\ stack[i].path \in DOMAIN gaps \/ stack[i].pc = "enter"
               /\ i < Len(stack) => stack[i].pc = "children"
    <3>a. IsStack(stack) /\ Booked(gaps, stack)
      BY <2>1 DEF Shape
    <3>b. PICK S : stack \in Seq(S)
      BY <3>a DEF IsStack, IsSeq
    <3>c. i \in 1..Len(stack) /\ Len(stack) \in Nat
      BY <3>b
    <3>1. i \in 1..Len(stack) /\ IsStack(stack) /\ Booked(gaps, stack)
      BY <3>a, <3>c
    <3>2. IsFrame(stack[i])
      BY <3>1 DEF IsStack
    <3>3. stack[i].pc \in {"enter", "assess", "search", "children"}
      BY <3>2 DEF IsFrame
    <3>4. stack[i].path \in DOMAIN gaps \/ stack[i].pc = "enter"
      BY <3>1 DEF Booked, Entered
    <3>5. i < Len(stack) => stack[i].pc = "children"
      <4> PICK n : n = Len(stack)
        OBVIOUS
      <4>1. i \in 1..n /\ (i # n => stack[i].pc = "children")
        BY <3>1 DEF IsStack
      <4>2. i < n => i # n
        BY <3>c
      <4> QED
        BY <4>1, <4>2
    <3> QED
      BY <3>3, <3>4, <3>5
  <2>5. acq # Idle => Running /\ Top.pc = "search"
    BY <2>1 DEF Waits
  <2>6. Len(gathered.evidence) <= MaxPacks
    BY DEF Learning, IsKnowledge
  <2> QED
    BY <2>1, <2>2, <2>3, <2>4, <2>5, <2>6 DEF TypeOK, Typed, Turning
<1> QED
  BY <1>1, <1>2, <1>3, KnowledgeInvariance, PTL DEF Spec

-----------------------------------------------------------------------------
(* References.  What the research cites, and what the gaps it answers cite.  *)
Grounds(g, R) ==
    SourcesOf(g.evidence) \subseteq R /\ OnlySources(References(g.findings)) \subseteq R
Supported(gs, R) == \A p \in DOMAIN gs : OnlySources(gs[p].support) \subseteq R

(* Grounded findings stay grounded when nothing that is gathered changes.    *)
LEMMA EqualGrounds ==
    ASSUME NEW g, NEW g2, Equals(g, g2), NEW R, Grounds(g, R)
    PROVE  Grounds(g2, R)
BY DEF Equals, Grounds, SourcesOf, PacksIn

(* What is added to grounded knowledge is grounded,                          *)
LEMMA AddsGrounds ==
    ASSUME NEW g, NEW x, NEW g2, Adds(g, x, g2), NEW R, Grounds(g, R), Grounds(x, R)
    PROVE  Grounds(g2, R)
<1>1. SourcesOf(g2.evidence) \subseteq R
  <2> PICK S : S = PacksIn(g) \cup PacksIn(x)
    OBVIOUS
  <2>1. PacksIn(g2) = Kept(S)
    BY DEF Adds
  <2>2. SourcesIn(PacksIn(g2)) \subseteq SourcesIn(S)
    BY <2>1, KeptSources
  <2>3. SourcesIn(S) \subseteq R
    BY DEF Grounds, SourcesIn, SourcesOf, PacksIn
  <2> QED
    BY <2>2, <2>3 DEF SourcesIn, SourcesOf, PacksIn
<1>2. References(g2.findings) \subseteq References(g.findings) \cup References(x.findings)
  BY JoinFindingsIs DEF Adds
<1> QED
  BY <1>1, <1>2 DEF Grounds, OnlySources

(* as is what an assessment asserts of what it may cite,                     *)
LEMMA AssertedCites ==
    ASSUME NEW claim, NEW refs
    PROVE  References(Asserted(claim, refs)) \subseteq refs
<1> DEFINE a == Asserted(claim, refs)
<1>1. \A p \in DOMAIN a : a[p].observations = {refs}
  BY DEF Asserted
<1> HIDE DEF a
<1> QED
  BY <1>1 DEF References, a

(* Joining a grounded assertion to grounded findings keeps them grounded.    *)
LEMMA CitedGrounds ==
    ASSUME NEW g, NEW claim, NEW refs, NEW R, Grounds(g, R), OnlySources(refs) \subseteq R
    PROVE  OnlySources(References(JoinFindings(g.findings, Asserted(claim, refs)))) \subseteq R
<1>1. References(JoinFindings(g.findings, Asserted(claim, refs)))
          \subseteq References(g.findings) \cup References(Asserted(claim, refs))
  BY JoinFindingsIs
<1> QED
  BY <1>1, AssertedCites DEF Grounds, OnlySources

(* An assertion of grounded references leaves what is gathered grounded.     *)
LEMMA AssertingGrounds ==
    ASSUME NEW g, NEW claim, NEW refs, NEW g2, Asserting(g, claim, refs, g2),
           NEW R, Grounds(g, R), OnlySources(refs) \subseteq R
    PROVE  Grounds(g2, R)
<1>2. OnlySources(References(JoinFindings(g.findings, Asserted(claim, refs)))) \subseteq R
  BY CitedGrounds
<1>3. g2.findings = JoinFindings(g.findings, Asserted(claim, refs))
  BY DEF Asserting
<1>4. SourcesOf(g2.evidence) \subseteq R
  BY DEF Asserting, Grounds, SourcesOf, PacksIn
<1> QED
  BY <1>2, <1>3, <1>4 DEF Grounds

(* and what the gaps rest on: what they did before, or some of refs.         *)
Supports(gs, gs2, refs) ==
    \A p \in DOMAIN gs2 : \/ p \in DOMAIN gs /\ gs2[p].support = gs[p].support
                          \/ gs2[p].support \subseteq refs

(* Stamping a gap adds to the ledger no reference but those it is stamped    *)
(* with.                                                                     *)
LEMMA StampedSupports ==
    ASSUME NEW gs, IsLedger(gs), NEW p \in DOMAIN gs, NEW status, NEW refs
    PROVE  Supports(gs, Stamped(gs, p, status), refs)
<1> DEFINE gap == [status |-> status, support |-> gs[p].support]
<1>1. [gs EXCEPT ![p].status = status] = [q \in DOMAIN gs |-> IF q = p THEN gap ELSE gs[q]]
  <2>1. gs[p] = [status |-> gs[p].status, support |-> gs[p].support]
    BY DEF IsLedger
  <2> QED
    BY <2>1
<1> QED
  BY <1>1 DEF Supports, Stamped

(* Marking a gap adds no reference to the ledger.                            *)
LEMMA MarkSupports ==
    ASSUME NEW p \in DOMAIN gaps, IsLedger(gaps), NEW status
    PROVE  Supports(gaps, Mark(p, status), {})
<1>1. Supports(gaps, Stamped(gaps, p, status), {})
  BY StampedSupports
<1> QED
  BY <1>1 DEF Mark, Stamped

(* The ledger stays supported by what is gathered when supported references  *)
(* are added.                                                                *)
LEMMA StillSupported ==
    ASSUME NEW gs, NEW gs2, NEW refs, Supports(gs, gs2, refs), NEW R, Supported(gs, R),
           OnlySources(refs) \subseteq R
    PROVE  Supported(gs2, R)
<1> SUFFICES ASSUME NEW p \in DOMAIN gs2
             PROVE  OnlySources(gs2[p].support) \subseteq R
  BY DEF Supported
<1>1. CASE p \in DOMAIN gs /\ gs2[p].support = gs[p].support
  BY <1>1 DEF Supported
<1>2. CASE gs2[p].support \subseteq refs
  BY <1>2 DEF OnlySources
<1> QED
  BY <1>1, <1>2 DEF Supports

-----------------------------------------------------------------------------
(* Packs.  Two of a set hold no page in common, unless both have a key of K. *)
Apart(S, K) ==
    \A p, q \in S : \/ p = q
                    \/ p.sources \cap q.sources = {}
                    \/ KeyOf(p) \in K /\ KeyOf(q) \in K

(* So it stays when a pack of other pages is added.                          *)
LEMMA KeptByKey ==
    ASSUME NEW S, IsPacks(S), NEW p \in Kept(S), NEW q \in Kept(S), KeyOf(p) = KeyOf(q)
    PROVE  p = q
<1>1. PICK k \in First(NewerKeys, Keys(S)) : p = PackFor(S, k)
  BY DEF Kept
<1>2. PICK l \in First(NewerKeys, Keys(S)) : q = PackFor(S, l)
  BY DEF Kept
<1>3. k \in AllKeys /\ l \in AllKeys
  BY MergeIs DEF First
<1>4. k = <<k[1], k[2], k[3]>> /\ l = <<l[1], l[2], l[3]>>
  BY <1>3 DEF AllKeys
<1>5. KeyOf(p) = k /\ KeyOf(q) = l
  BY <1>1, <1>2, <1>4 DEF PackFor, KeyOf
<1> QED
  BY <1>1, <1>2, <1>5

(* Packs that share no source with those kept before, merged with them,      *)
(* still share none.                                                         *)
LEMMA ApartKept ==
    ASSUME NEW S, NEW X, NEW K, IsPacks(S), IsPacks(X), Apart(S, K),
           \A x \in X : x.sources \cap SourcesIn(S) = {},
           \A x, y \in X : x = y
    PROVE  Apart(Kept(S \cup X), K)
<1> PICK U : U = S \cup X
  OBVIOUS
<1>1. IsPacks(U)
  BY FS_Union DEF IsPacks
<1> SUFFICES ASSUME NEW p \in Kept(U), NEW q \in Kept(U), p # q,
                    NEW s \in p.sources \cap q.sources
             PROVE  KeyOf(p) \in K /\ KeyOf(q) \in K
  BY DEF Apart
<1>2. PICK p0 \in U : s \in p0.sources /\ KeyOf(p0) = KeyOf(p)
  BY <1>1, KeptSources
<1>3. PICK q0 \in U : s \in q0.sources /\ KeyOf(q0) = KeyOf(q)
  BY <1>1, KeptSources
<1>4. p0 # q0
  BY <1>1, <1>2, <1>3, KeptByKey
<1>5. p0 \in S /\ q0 \in S
  <2>1. p0 \in S => s \in SourcesIn(S)
    BY <1>2 DEF SourcesIn
  <2>2. q0 \in S => s \in SourcesIn(S)
    BY <1>3 DEF SourcesIn
  <2>3. p0 \in X => s \notin SourcesIn(S)
    BY <1>2
  <2>4. q0 \in X => s \notin SourcesIn(S)
    BY <1>3
  <2>5. ~(p0 \in X /\ q0 \in X)
    BY <1>4
  <2> QED
    BY <2>1, <2>2, <2>3, <2>4, <2>5
<1>6. KeyOf(p0) \in K /\ KeyOf(q0) \in K
  BY <1>2, <1>3, <1>4, <1>5 DEF Apart
<1> QED
  BY <1>2, <1>3, <1>6

(* What is kept has the key of a pack.                                       *)
LEMMA KeptKeys ==
    ASSUME NEW S, IsPacks(S), NEW p \in Kept(S)
    PROVE  KeyOf(p) \in Keys(S)
<1>1. PICK k \in First(NewerKeys, Keys(S)) : p = PackFor(S, k)
  BY DEF Kept
<1>2. k \in AllKeys /\ k \in Keys(S)
  BY MergeIs DEF First
<1>3. k = <<k[1], k[2], k[3]>>
  BY <1>2 DEF AllKeys
<1>4. KeyOf(p) = k
  BY <1>1, <1>3 DEF PackFor, KeyOf
<1> QED
  BY <1>2, <1>4

(* What an acquisition extracts is not available to it.                      *)
LEMMA ViableFresh ==
    ASSUME NEW a, NEW k, IsAcquisition(a, k), IsFresh(a)
    PROVE  Viable(a) \cap a.available = {}
<1> SUFFICES ASSUME NEW i \in DOMAIN a.outcome
             PROVE  a.selected[i] \notin a.available
  BY DEF Viable
<1>1. i \in 1..a.started /\ a.started \in 0..Len(a.selected) /\ IsSeq(a.selected)
  BY DEF IsAcquisition
<1>2. Len(a.selected) \in Nat
  BY <1>1, Lengths
<1>3. i \in 1..Len(a.selected)
  BY <1>1, <1>2
<1> QED
  BY <1>3 DEF IsFresh

-----------------------------------------------------------------------------
(* What holds of the references and the packs of a research, besides Inv and *)
(* Learning.                                                                 *)
Founded == context.cited \cup SourcesOf(context.evidence) \subseteq context.known
SavesAll ==
    \/ outcome = Pending
    \/ outcome.kind \in {"thrown", "resolution"}
    \/ outcome.knowledge = gathered

Sound ==
    /\ \A t \in context.turns : ~(t > 0)
    /\ SavesAll
    /\ Apart(PacksIn(gathered), Keys(ToSet(context.evidence)))
    /\ IsSeq(tasks)
    /\ Founded => /\ Grounds(gathered, Recorded) /\ Supported(gaps, Recorded)
                  /\ \A i \in DOMAIN tasks : tasks[i].evidence \subseteq Recorded

(* A step that adds nothing keeps it.                                        *)
Steady ==
    /\ UNCHANGED <<context, tasks, admitted>>
    /\ Equals(gathered, gathered') /\ Supports(gaps, gaps', {}) /\ SavesAll'

(* A ledger that does not change gains no reference.                         *)
LEMMA NothingSupports ==
    ASSUME NEW gs
    PROVE  Supports(gs, gs, {})
BY DEF Supports

(* A step that leaves the gathered sources alone, and adds to the ledger     *)
(* only what they support, keeps the invariant.                              *)
LEMMA SteadySound ==
    ASSUME Sound, Steady
    PROVE  Sound'
<1>1. UNCHANGED <<context, tasks, admitted>> /\ Equals(gathered, gathered')
      /\ Supports(gaps, gaps', {}) /\ SavesAll'
  BY DEF Steady
<1>2. Founded' <=> Founded
  BY <1>1 DEF Founded
<1>3. Recorded' = Recorded
  BY <1>1 DEF Recorded
<1>4. PacksIn(gathered') = PacksIn(gathered)
  BY <1>1 DEF Equals
<1>5. ASSUME Founded PROVE Grounds(gathered', Recorded) /\ Supported(gaps', Recorded)
  <2> PICK g, g2, gs, gs2, R : g = gathered /\ g2 = gathered' /\ gs = gaps /\ gs2 = gaps'
                               /\ R = Recorded
    OBVIOUS
  <2>1. Grounds(g, R) /\ Supported(gs, R)
    BY <1>5 DEF Sound
  <2>2. Grounds(g2, R)
    BY <1>1, <2>1, EqualGrounds
  <2>3. OnlySources({}) \subseteq R
    BY DEF OnlySources
  <2>4. Supported(gs2, R)
    BY <1>1, <2>1, <2>3, StillSupported
  <2> QED
    BY <2>2, <2>4
<1> QED
  BY <1>1, <1>2, <1>3, <1>4, <1>5 DEF Sound

(* How a call ends, and what becomes of the ledger.                          *)
LEMMA ReturnSaves ==
    ASSUME outcome = Pending, NEW know, NEW stop, NEW ledger, NEW learned, NEW busy,
           Return(know, stop, ledger, learned, busy)
    PROVE  SavesAll' /\ gaps' = ledger
<1>1. gaps' = ledger
  BY DEF Return
<1>2. CASE Len(stack) = 1
  <2>1. outcome' = Answer(know, stop, ledger)
    BY <1>2 DEF Return
  <2>2. outcome'.kind = "resolution"
    BY <2>1, AnswerIs
  <2> QED
    BY <1>1, <2>2 DEF SavesAll
<1>3. CASE Len(stack) # 1
  <2>1. outcome' = outcome
    BY <1>3 DEF Return
  <2> QED
    BY <1>1, <2>1 DEF SavesAll
<1> QED
  BY <1>2, <1>3

(* A step that throws saves what was gathered.                               *)
LEMMA ThrowsSaves ==
    ASSUME NEW interrupted, Throws(interrupted)
    PROVE  SavesAll' /\ gaps' = gaps
BY DEF Throws, SavesAll

(* While the outcome is pending there is nothing to save.                    *)
LEMMA PendingSaves ==
    ASSUME outcome' = Pending
    PROVE  SavesAll'
BY DEF SavesAll

(* A blocked branch saves everything and adds no support.                    *)
LEMMA BlockedSteady ==
    ASSUME Running, Top.path \in DOMAIN gaps, IsLedger(gaps), NEW know, NEW stop,
           Blocked(know, stop)
    PROVE  SavesAll' /\ Supports(gaps, gaps', {})
<1>1. outcome = Pending
  BY DEF Running
<1> PICK ledger, learned, busy : ledger = Mark(Top.path, "blocked")
                                 /\ learned = gathered /\ busy = Freed(Top.path)
  OBVIOUS
<1>2. Return(know, stop, ledger, learned, busy)
  BY DEF Blocked
<1>3. Supports(gaps, ledger, {})
  BY MarkSupports
<1> QED
  BY <1>1, <1>2, <1>3, ReturnSaves

(* A call that enters opens a gap that rests on nothing.                     *)
LEMMA EnterSteady ==
    ASSUME Inv, Learning, Enter, thread' = thread
    PROVE  Steady
<1> PICK f : f = Top
  OBVIOUS
<1> PICK mark : mark = Fingerprint(f.path)
  OBVIOUS
<1> PICK ledger : ledger = IF f.path \in DOMAIN gaps THEN gaps ELSE With(gaps, f.path, OpenGap)
  OBVIOUS
<1> PICK block : block = [ledger EXCEPT ![f.path].status = "blocked"]
  OBVIOUS
<1>1. Running /\ UNCHANGED <<context, tasks, admitted>>
  BY DEF Enter
<1>2. IsLedger(gaps) /\ outcome = Pending
  BY <1>1, AtTop
<1>3. Equals(gathered, gathered')
  BY EnterLearns
<1>4. Changes(gaps, f.path, ledger)
  BY <1>2, NothingChanges, OpenChanges
<1>5. IsLedger(ledger) /\ f.path \in DOMAIN ledger
  BY <1>4 DEF Changes
<1>6. Supports(gaps, ledger, {})
  <2>1. CASE f.path \in DOMAIN gaps
    BY <2>1, NothingSupports
  <2>2. CASE f.path \notin DOMAIN gaps
    <3>1. ledger = [z \in DOMAIN gaps \cup {f.path} |-> IF z = f.path THEN OpenGap ELSE gaps[z]]
      BY <2>2 DEF With
    <3>2. OpenGap.support = {}
      BY DEF OpenGap
    <3> QED
      BY <3>1, <3>2 DEF Supports
  <2> QED
    BY <2>1, <2>2
<1>7. Supports(ledger, block, {})
  <2>1. Supports(ledger, Stamped(ledger, f.path, "blocked"), {})
    BY <1>5, StampedSupports
  <2> QED
    BY <2>1 DEF Stamped
<1>8. Supports(gaps, block, {})
  BY <1>6, <1>7 DEF Supports
<1>9. ASSUME NEW know, NEW stop, NEW learned, NEW busy, Return(know, stop, block, learned, busy)
      PROVE  SavesAll' /\ Supports(gaps, gaps', {})
  BY <1>2, <1>8, <1>9, ReturnSaves
<1>10. SavesAll' /\ Supports(gaps, gaps', {})
  <2>1. CASE Throws(FALSE)
    BY <2>1, ThrowsSaves, NothingSupports
  <2>2. CASE Return(f.know, "duplicate_problem", block, gathered, active)
    BY <1>9, <2>2
  <2>3. CASE Return(f.know, "assessment_budget_exhausted", block, gathered, active)
    BY <1>9, <2>3
  <2>4. CASE gaps' = ledger /\ outcome' = outcome
    BY <1>2, <1>6, <2>4, PendingSaves
  <2> QED
    BY <2>1, <2>2, <2>3, <2>4 DEF Enter
<1> QED
  BY <1>1, <1>3, <1>10 DEF Steady

(* An assessment that asks for a search is steady.                           *)
LEMMA AssessSearchSteady ==
    ASSUME Inv, Learning, AssessesSearch, thread' = thread
    PROVE  Steady
<1>1. /\ UNCHANGED <<context, tasks, admitted, gaps, outcome>> /\ Running
  BY DEF AssessesSearch, Assessing
<1>2. outcome' = Pending /\ Equals(gathered, gathered')
  BY <1>1, AtTop, AssessSearchLearns
<1> QED
  BY <1>1, <1>2, PendingSaves, NothingSupports DEF Steady

(* An assessment that decomposes its problem is steady.                      *)
LEMMA DecomposeSteady ==
    ASSUME Inv, Learning, AssessesDecompose, thread' = thread
    PROVE  Steady
<1>1. /\ UNCHANGED <<context, tasks, admitted, outcome>> /\ Running
      /\ gaps' = Mark(Top.path, "decomposed")
  BY DEF AssessesDecompose, Assessing
<1>2. outcome' = Pending /\ Equals(gathered, gathered')
  BY <1>1, AtTop, DecomposeLearns
<1>3. Supports(gaps, gaps', {})
  BY <1>1, AssessingIs, MarkSupports DEF AssessesDecompose
<1> QED
  BY <1>1, <1>2, <1>3, PendingSaves DEF Steady

(* A failed attempt is steady.                                               *)
LEMMA AttemptSteady ==
    ASSUME Inv, Learning, AttemptFails, thread' = thread
    PROVE  Steady
<1>1. UNCHANGED <<context, tasks, admitted>> /\ Assessing
  BY DEF AttemptFails
<1>2. Equals(gathered, gathered')
  BY AttemptLearns
<1>3. Running /\ Top.path \in DOMAIN gaps /\ IsLedger(gaps) /\ outcome = Pending
  BY <1>1, AssessingIs, AtTop
<1>4. CASE UNCHANGED <<gaps, gathered, active, outcome>>
  BY <1>1, <1>2, <1>3, <1>4, PendingSaves, NothingSupports DEF Steady
<1>5. CASE Blocked(Top.know, "provider_unavailable")
  <2>1. SavesAll' /\ Supports(gaps, gaps', {})
    BY <1>3, <1>5, BlockedSteady
  <2> QED
    BY <1>1, <1>2, <2>1 DEF Steady
<1> QED
  BY <1>4, <1>5 DEF AttemptFails

(* An unavailable provider is steady.                                        *)
LEMMA ProviderSteady ==
    ASSUME Inv, Learning, ProviderUnavailable, thread' = thread
    PROVE  Steady
<1>1. /\ UNCHANGED <<context, tasks, admitted, acq>> /\ Assessing
      /\ Blocked(Top.know, "provider_unavailable")
  BY DEF ProviderUnavailable
<1>2. Running /\ Top.path \in DOMAIN gaps /\ IsLedger(gaps) /\ acq' = Idle
  BY <1>1, AssessingIs
<1>3. Equals(gathered, gathered')
  BY <1>1, <1>2, BlockedLearns
<1>4. SavesAll' /\ Supports(gaps, gaps', {})
  BY <1>1, <1>2, BlockedSteady
<1> QED
  BY <1>1, <1>3, <1>4 DEF Steady

(* An assessment that throws is steady.                                      *)
LEMMA ThrowsSteady ==
    ASSUME Inv, Learning, AssessmentThrows, thread' = thread
    PROVE  Steady
<1>1. PICK interrupted :
         UNCHANGED <<context, tasks, admitted, acq>> /\ Assessing /\ Throws(interrupted)
  BY DEF AssessmentThrows
<1>2. acq' = Idle
  BY <1>1, AssessingIs
<1>3. Equals(gathered, gathered')
  BY <1>1, <1>2, ThrowsLearns
<1> QED
  BY <1>1, <1>3, ThrowsSaves, NothingSupports DEF Steady

(* Beginning a search is steady.                                             *)
LEMMA BeginSearchSteady ==
    ASSUME Inv, Learning, BeginSearch, thread' = thread
    PROVE  Steady
<1>1. UNCHANGED <<context, tasks, admitted>> /\ Running /\ Top.pc = "search"
  BY DEF BeginSearch
<1>2. Equals(gathered, gathered')
  BY BeginSearchLearns
<1>3. Top.path \in DOMAIN gaps /\ IsLedger(gaps) /\ outcome = Pending
  BY <1>1, SearchIs
<1>4. ASSUME NEW stop, Blocked(Top.know, stop)
      PROVE  SavesAll' /\ Supports(gaps, gaps', {})
  BY <1>1, <1>3, <1>4, BlockedSteady
<1>5. CASE UNCHANGED <<stack, gaps, gathered, active, outcome>>
  BY <1>1, <1>2, <1>3, <1>5, PendingSaves, NothingSupports DEF Steady
<1>6. CASE \E stop : Blocked(Top.know, stop)
  BY <1>1, <1>2, <1>4, <1>6 DEF Steady
<1> QED
  BY <1>5, <1>6 DEF BeginSearch

(* Going on to the next child is steady.                                     *)
LEMMA NextChildSteady ==
    ASSUME Inv, Learning, NextChild, thread' = thread
    PROVE  Steady
<1>1. UNCHANGED <<context, tasks, admitted>> /\ Running /\ Top.pc = "children"
  BY DEF NextChild
<1>2. Equals(gathered, gathered')
  BY NextChildLearns
<1>3. Top.path \in DOMAIN gaps /\ IsLedger(gaps) /\ outcome = Pending
  BY <1>1, AtTop
<1>4. CASE UNCHANGED <<gaps, gathered, outcome>>
  BY <1>1, <1>2, <1>3, <1>4, PendingSaves, NothingSupports DEF Steady
<1>5. CASE Blocked(Top.know, "depth_limit_reached")
  <2>1. SavesAll' /\ Supports(gaps, gaps', {})
    BY <1>1, <1>3, <1>5, BlockedSteady
  <2> QED
    BY <1>1, <1>2, <2>1 DEF Steady
<1> QED
  BY <1>4, <1>5 DEF NextChild

(* Entering an acquisition is steady.                                        *)
LEMMA AcquireSteady ==
    ASSUME Inv, Learning, Acquire, thread' = thread
    PROVE  Steady
<1>1. UNCHANGED <<context, tasks, admitted, gaps, outcome>> /\ Running
  BY DEF Acquire, resolverVars
<1>2. outcome' = Pending /\ Equals(gathered, gathered')
  BY <1>1, AtTop, AcquireLearns
<1> QED
  BY <1>1, <1>2, PendingSaves, NothingSupports DEF Steady

(* An assessment may cite what the research cites and the context.           *)
LEMMA AllowedFounded ==
    ASSUME Inv, Learning, Sound, Running, Founded
    PROVE  OnlySources(AllowedRefs(Top.know)) \subseteq Recorded
<1>1. Equals(Top.know, gathered)
  BY TopLearns DEF IsTop
<1>2. Grounds(gathered, Recorded)
  BY DEF Sound
<1>3. Equals(gathered, Top.know)
  BY <1>1 DEF Equals
<1> PICK know, g, R : know = Top.know /\ g = gathered /\ R = Recorded
  OBVIOUS
<1>4. Grounds(know, R)
  BY <1>2, <1>3, EqualGrounds
<1>5. SourcesOf(context.evidence) \subseteq R
  BY DEF Founded, Recorded
<1>6. \A t \in context.turns : ~(t > 0)
  BY DEF Sound
<1> QED
  BY <1>4, <1>5, <1>6 DEF AllowedRefs, Grounds, OnlySources

(* What it asserts is recorded.                                              *)
LEMMA ResolvedSound ==
    ASSUME Inv, Learning, Sound, AssessesResolved, thread' = thread
    PROVE  Sound'
<1>1. Running /\ Top.path \in DOMAIN gaps /\ IsLedger(gaps) /\ outcome = Pending
  BY AssessingIs, AtTop DEF AssessesResolved, Assessing
<1>2. UNCHANGED <<context, tasks, admitted>>
  BY DEF AssessesResolved
<1> PICK refs, R, g2 : refs = AllowedRefs(Top.know) /\ R = Recorded /\ g2 = gathered'
  OBVIOUS
<1>3. /\ Founded => OnlySources(refs) \subseteq R /\ Grounds(gathered, R)
      /\ Founded => Supported(gaps, R)
  BY <1>1, AllowedFounded DEF Sound
<1>4. \/ Equals(gathered, g2)
      \/ \E claim \in Claims : Asserting(gathered, claim, refs, g2)
  BY ResolvedLearns
<1>5. Founded => Grounds(g2, R)
  BY <1>3, <1>4, EqualGrounds, AssertingGrounds
<1>6. PacksIn(g2) = PacksIn(gathered)
  BY <1>4 DEF Equals, Asserting
<1>7. PICK claim \in Claims :
      \E merged \in {Merged(Top, Asserted(claim, refs))} :
      \E learned \in {JoinBounded(<<Root>>, gathered, merged)} :
         IF Conflict(Top.know.findings, Asserted(claim, refs))
                \/ Conflict(gathered.findings, Asserted(claim, refs))
         THEN Throws(FALSE) /\ UNCHANGED <<used, budget>>
         ELSE /\ Charge
              /\ IF merged = Top.know
                 THEN Return(merged, "no_new_knowledge", Mark(Top.path, "blocked"),
                             learned, Freed(Top.path))
                 ELSE Return(merged, "sufficient",
                             [gaps EXCEPT ![Top.path] =
                                 [status |-> "resolved",
                                  support |-> References(merged.findings)]],
                             learned, Freed(Top.path))
  BY DEF AssessesResolved
<1>8. PICK merged, learned :
         /\ merged = Merged(Top, Asserted(claim, refs))
         /\ \/ Throws(FALSE)
            \/ Return(merged, "no_new_knowledge", Mark(Top.path, "blocked"),
                      learned, Freed(Top.path))
            \/ Return(merged, "sufficient",
                      [gaps EXCEPT ![Top.path] =
                          [status |-> "resolved",
                           support |-> References(merged.findings)]],
                      learned, Freed(Top.path))
  BY <1>7
<1> PICK cites : cites = References(merged.findings)
  OBVIOUS
<1>9. Founded => OnlySources(cites) \subseteq R
  <2>1. merged.findings = JoinFindings(Top.know.findings, Asserted(claim, refs))
    BY <1>8 DEF Merged, JoinBounded, Unit
  <2>2. Top.know.findings = gathered.findings
    BY <1>1, TopLearns DEF IsTop, Equals
  <2>3. cites = References(JoinFindings(gathered.findings, Asserted(claim, refs)))
    BY <2>1, <2>2
  <2> QED
    BY <1>3, <2>3, CitedGrounds
<1>10. SavesAll' /\ Supports(gaps, gaps', cites)
  <2>1. CASE Throws(FALSE)
    BY <2>1, ThrowsSaves DEF Supports
  <2>2. CASE Return(merged, "no_new_knowledge", Mark(Top.path, "blocked"),
                    learned, Freed(Top.path))
    <3> PICK ledger, busy : ledger = Mark(Top.path, "blocked") /\ busy = Freed(Top.path)
      OBVIOUS
    <3>1. Supports(gaps, ledger, cites)
      <4>1. Supports(gaps, Stamped(gaps, Top.path, "blocked"), cites)
        BY <1>1, StampedSupports
      <4> QED
        BY <4>1 DEF Mark, Stamped
    <3> QED
      BY <1>1, <2>2, <3>1, ReturnSaves
  <2>3. CASE Return(merged, "sufficient",
                    [gaps EXCEPT ![Top.path] =
                        [status |-> "resolved",
                         support |-> References(merged.findings)]],
                    learned, Freed(Top.path))
    <3> PICK ledger, busy : /\ ledger = [gaps EXCEPT ![Top.path] =
                                          [status |-> "resolved", support |-> cites]]
                            /\ busy = Freed(Top.path)
      OBVIOUS
    <3>1. Supports(gaps, ledger, cites)
      <4> PICK gap : gap = [status |-> "resolved", support |-> cites]
        OBVIOUS
      <4>1. ledger = [q \in DOMAIN gaps |-> IF q = Top.path THEN gap ELSE gaps[q]]
        BY <1>1 DEF IsLedger
      <4>2. gap.support = cites
        OBVIOUS
      <4> QED
        BY <4>1, <4>2 DEF Supports
    <3> QED
      BY <1>1, <2>3, <3>1, ReturnSaves
  <2> QED
    BY <1>8, <2>1, <2>2, <2>3
<1>11. Founded => Supported(gaps', R)
  <2> PICK gs, gs2 : gs = gaps /\ gs2 = gaps'
    OBVIOUS
  <2> QED
    BY <1>3, <1>9, <1>10, StillSupported
<1>12. (Founded' <=> Founded) /\ Recorded' = Recorded
  BY <1>2 DEF Founded, Recorded
<1> QED
  BY <1>2, <1>5, <1>6, <1>10, <1>11, <1>12 DEF Sound

(* The places of a sequence.                                                 *)
LEMMA SeqDomain ==
    ASSUME NEW s, IsSeq(s)
    PROVE  DOMAIN s = 1..Len(s)
<1>1. PICK S : s \in Seq(S)
  BY DEF IsSeq
<1> QED
  BY <1>1

(* A search that has ended adds pages no pack held, with their records, and  *)
(* lists only pages there are records of.                                    *)
LEMMA EndSearchSound ==
    ASSUME Inv, Learning, Sound, EndSearch, thread' = thread
    PROVE  Sound'
<1>1. /\ Running /\ acq.pc = "done" /\ context' = context
      /\ admitted' = admitted \cup Admitted(acq)
      /\ tasks' = Append(tasks, [query |-> Top.query, evidence |-> TaskEvidence(Top)])
  BY DEF EndSearch
<1>2. acq # Idle
  BY <1>1 DEF Idle
<1>3. Top.pc = "search" /\ IsAcquisition(acq, budget.sources)
  BY <1>2 DEF Inv, Waits
<1>4. Top.path \in DOMAIN gaps /\ IsLedger(gaps) /\ outcome = Pending
  BY <1>1, <1>3, SearchIs
<1>5. IsFresh(acq) /\ acq.available = SourcesOf(gathered.evidence)
  BY <1>2 DEF Learning, IsSearch
<1>6. PICK x : /\ x.evidence = NewPacks(acq) /\ x.findings = Nothing
               /\ IsPacks(PacksIn(x)) /\ Adds(gathered, x, gathered')
  BY EndSearchLearns
<1> PICK V : V = Viable(acq)
  OBVIOUS
<1>7. /\ \A p \in PacksIn(x) : p.sources = V
      /\ \A p, q \in PacksIn(x) : p = q
  <2> PICK n : n = [order |-> acq.order, problem |-> acq.problem, query |-> acq.query,
                    sources |-> V]
    OBVIOUS
  <2>1. ToSet(<<>>) = {} /\ ToSet(<<n>>) = {n}
    BY DEF ToSet
  <2>2. PacksIn(x) \subseteq {n}
    BY <1>6, <2>1 DEF NewPacks, PacksIn
  <2> QED
    BY <2>2
<1>8. Apart(PacksIn(gathered'), Keys(ToSet(context.evidence)))
  <2> PICK S, X, K : S = PacksIn(gathered) /\ X = PacksIn(x)
                     /\ K = Keys(ToSet(context.evidence))
    OBVIOUS
  <2>1. IsPacks(S) /\ IsPacks(X) /\ Apart(S, K)
    BY <1>1, <1>6, TopLearns DEF Sound
  <2>2. V \cap SourcesIn(S) = {}
    <3>1. Viable(acq) \cap acq.available = {}
      BY <1>3, <1>5, ViableFresh
    <3>2. SourcesOf(gathered.evidence) = SourcesIn(S)
      BY DEF SourcesOf, SourcesIn, PacksIn
    <3> QED
      BY <1>5, <3>1, <3>2
  <2>3. Apart(Kept(S \cup X), K)
    BY <1>7, <2>1, <2>2, ApartKept
  <2> QED
    BY <1>6, <2>3 DEF Adds
<1> PICK R, R2 : R = Recorded /\ R2 = Recorded'
  OBVIOUS
<1>9. R \subseteq R2 /\ V \subseteq R2 /\ context.known \subseteq R2
  BY <1>1 DEF Recorded, Admitted
<1>10. ASSUME Founded PROVE Grounds(gathered, R2) /\ Supported(gaps, R2)
                            /\ \A i \in DOMAIN tasks : tasks[i].evidence \subseteq R2
  <2>1. Grounds(gathered, R) /\ Supported(gaps, R)
        /\ \A i \in DOMAIN tasks : tasks[i].evidence \subseteq R
    BY <1>10 DEF Sound
  <2> QED
    BY <1>9, <2>1 DEF Grounds, Supported
<1>11. ASSUME Founded PROVE Grounds(gathered', R2)
  <2>1. SourcesOf(x.evidence) \subseteq R2
    BY <1>7, <1>9 DEF SourcesOf, PacksIn
  <2>2. References(Nothing) = {}
    <3>1. DOMAIN Nothing = {}
      BY DEF Nothing
    <3> QED
      BY <3>1 DEF References
  <2>3. Grounds(x, R2)
    BY <1>6, <2>1, <2>2 DEF Grounds, OnlySources
  <2> PICK g, g2 : g = gathered /\ g2 = gathered'
    OBVIOUS
  <2> QED
    BY <1>6, <1>10, <1>11, <2>3, AddsGrounds
<1>12. SavesAll' /\ Supports(gaps, gaps', {})
  <2>1. CASE gaps' = Mark(Top.path, "open") /\ outcome' = outcome
    BY <1>4, <2>1, MarkSupports, PendingSaves
  <2>2. CASE \E after, stop, learned :
                Return(after, stop, Mark(Top.path, "blocked"), learned, Freed(Top.path))
    <3>1. PICK after, stop, learned :
                Return(after, stop, Mark(Top.path, "blocked"), learned, Freed(Top.path))
      BY <2>2
    <3> PICK ledger, busy : ledger = Mark(Top.path, "blocked") /\ busy = Freed(Top.path)
      OBVIOUS
    <3>2. Return(after, stop, ledger, learned, busy)
      BY <3>1
    <3>3. Supports(gaps, ledger, {})
      BY <1>4, MarkSupports
    <3> QED
      BY <1>4, <3>2, <3>3, ReturnSaves
  <2> QED
    BY <2>1, <2>2 DEF EndSearch
<1>13. ASSUME Founded PROVE Supported(gaps', R2)
  <2> PICK gs, gs2 : gs = gaps /\ gs2 = gaps'
    OBVIOUS
  <2>1. OnlySources({}) \subseteq R2
    BY DEF OnlySources
  <2> QED
    BY <1>10, <1>12, <1>13, <2>1, StillSupported
<1>14. ASSUME Founded PROVE TaskEvidence(Top) \subseteq R2
  <2>1. SourcesOf(Top.know.evidence) \subseteq R2
    <3>1. Equals(gathered, Top.know)
      BY <1>1, TopLearns DEF IsTop, Equals
    <3> QED
      BY <1>10, <1>14, <3>1, EqualGrounds DEF Grounds
  <2>2. SourcesOf(context.evidence) \subseteq R2
    BY <1>9, <1>14 DEF Founded
  <2> PICK held : held = SourcesOf(Top.know.evidence) \cup SourcesOf(context.evidence)
                           \cup Viable(acq)
    OBVIOUS
  <2>3. TaskEvidence(Top) \subseteq held
    BY DEF TaskEvidence
  <2> QED
    BY <1>9, <2>1, <2>2, <2>3
<1>15. IsSeq(tasks') /\ (Founded => \A i \in DOMAIN tasks' : tasks'[i].evidence \subseteq R2)
  <2> PICK task : task = [query |-> Top.query, evidence |-> TaskEvidence(Top)]
    OBVIOUS
  <2> PICK n, ts : n = Len(tasks) /\ ts = tasks'
    OBVIOUS
  <2>1. IsSeq(tasks) /\ n \in Nat
    BY Lengths DEF Sound
  <2>2. Calls(tasks, task, ts)
    BY <1>1, <2>1, TopCalls
  <2>3. IsSeq(ts) /\ Len(ts) = n + 1 /\ ts[n + 1] = task /\ \A i \in 1..n : ts[i] = tasks[i]
    BY <2>2 DEF Calls
  <2>4. DOMAIN tasks = 1..n /\ DOMAIN ts = 1..(n + 1)
    BY <2>1, <2>3, SeqDomain
  <2>5. \A i \in 1..(n + 1) : i \in 1..n \/ i = n + 1
    BY <2>1
  <2>6. task.evidence = TaskEvidence(Top)
    OBVIOUS
  <2> QED
    BY <1>10, <1>14, <2>3, <2>4, <2>5, <2>6
<1>16. Founded' <=> Founded
  BY <1>1 DEF Founded
<1> QED
  BY <1>1, <1>8, <1>11, <1>12, <1>13, <1>15, <1>16 DEF Sound

(* A research begins with packs of its context, and cites nothing.           *)
LEMMA BeginsSound ==
    ASSUME NEW ctx, IsPacks(ToSet(ctx.evidence)), \A x \in ctx.turns : ~(x > 0), Begins(ctx)
    PROVE  Sound'
<1> PICK u, x, g : /\ u = Unit(<<Root>>, Nothing, <<>>)
                   /\ x = Unit(<<Root>>, Nothing, ctx.evidence)
                   /\ g = gathered'
  OBVIOUS
<1>1. /\ context' = ctx /\ tasks' = <<>> /\ outcome' = Pending
      /\ g = JoinBounded(<<Root>>, u, x) /\ gaps' = [path \in {<<Root>>} |-> OpenGap]
  BY DEF Begins
<1> PICK S : S = ToSet(ctx.evidence)
  OBVIOUS
<1>2. /\ u.findings = Nothing /\ PacksIn(u) = {}
      /\ x.findings = Nothing /\ PacksIn(x) = S
  <2>1. ToSet(<<>>) = {}
    BY DEF ToSet
  <2> QED
    BY <2>1 DEF Unit, PacksIn
<1>3. IsPacks(PacksIn(u)) /\ IsPacks(PacksIn(x))
  BY <1>2, FS_EmptySet DEF IsPacks
<1>4. PacksIn(g) = Kept(S) /\ g.findings = JoinFindings(Nothing, Nothing)
  <2>1. PacksIn(u) \cup PacksIn(x) = S
    BY <1>2
  <2>2. PacksIn(g) = Kept(PacksIn(u) \cup PacksIn(x))
        /\ g.findings = JoinFindings(u.findings, x.findings)
    BY ONLY <1>1, <1>3, JoinUnit
  <2> QED
    BY <1>2, <2>1, <2>2
<1>5. Apart(PacksIn(g), Keys(S))
  BY <1>4, KeptKeys DEF Apart
<1>6. IsSeq(tasks') /\ DOMAIN tasks' = {}
  <2>1. <<>> \in Seq({}) /\ DOMAIN <<>> = {}
    OBVIOUS
  <2> QED
    BY <1>1, <2>1 DEF IsSeq
<1>7. References(g.findings) = {}
  <2>1. References(Nothing) = {}
    <3>1. DOMAIN Nothing = {}
      BY DEF Nothing
    <3> QED
      BY <3>1 DEF References
  <2> QED
    BY <1>4, <2>1, JoinFindingsIs
<1>8. ASSUME Founded' PROVE Grounds(g, Recorded') /\ Supported(gaps', Recorded')
  <2> PICK R : R = Recorded'
    OBVIOUS
  <2>1. SourcesIn(S) \subseteq R
    <3>1. SourcesIn(S) \subseteq ctx.known
      BY <1>1, <1>8 DEF Founded, SourcesOf, SourcesIn
    <3>2. ctx.known \subseteq R
      BY <1>1 DEF Recorded
    <3> QED
      BY <3>1, <3>2
  <2>2. SourcesOf(g.evidence) \subseteq R
    <3>1. SourcesIn(PacksIn(g)) \subseteq SourcesIn(S)
      BY <1>4, KeptSources
    <3> QED
      BY <2>1, <3>1 DEF SourcesOf, SourcesIn, PacksIn
  <2>3. \A p \in DOMAIN gaps' : gaps'[p].support = {}
    BY <1>1 DEF OpenGap
  <2> QED
    BY <1>7, <2>2, <2>3 DEF Grounds, Supported, OnlySources
<1> QED
  BY <1>1, <1>5, <1>6, <1>8, PendingSaves DEF Sound

(* Without a research there is nothing to ground.                            *)
LEMMA EmptySound ==
    ASSUME stack' = <<>>, gaps' = <<>>, tasks' = <<>>, outcome' = Pending,
           gathered' = Unit(<<Root>>, Nothing, <<>>), context' = NoContext
    PROVE  Sound'
<1> PICK g, R : g = gathered' /\ R = Recorded'
  OBVIOUS
<1>1. DOMAIN <<>> = {} /\ ToSet(<<>>) = {} /\ <<>> \in Seq({})
  BY DEF ToSet
<1>2. g.findings = Nothing /\ g.evidence = <<>> /\ DOMAIN Nothing = {}
  BY <1>1 DEF Unit, Nothing
<1>3. PacksIn(g) = {} /\ SourcesOf(g.evidence) = {} /\ References(g.findings) = {}
  BY <1>1, <1>2 DEF PacksIn, SourcesOf, References
<1>4. Grounds(g, R) /\ Apart(PacksIn(g), Keys(ToSet(context'.evidence)))
  BY <1>3 DEF Grounds, OnlySources, Apart
<1>5. Supported(gaps', R) /\ IsSeq(tasks') /\ DOMAIN tasks' = {}
  BY <1>1 DEF Supported, IsSeq
<1>6. \A t \in (context').turns : ~(t > 0)
  BY DEF NoContext
<1> QED
  BY <1>4, <1>5, <1>6, PendingSaves DEF Sound

(* What leaves the research alone leaves its references alone.               *)
LEMMA QuietSound ==
    ASSUME Sound, UNCHANGED <<context, gaps, outcome, gathered, tasks, admitted>>
    PROVE  Sound'
BY DEF Sound, Founded, SavesAll, Recorded

(* What a research cites, lists and answers with has records, and its packs  *)
(* share pages only where its context's did, through every step of the       *)
(* resolver (research-resolver.ts:170-443).                                  *)
THEOREM SoundInvariance ==
    Spec => [](Inv /\ Learning /\ Sound)
<1>1. Init => Sound
  <2> SUFFICES ASSUME Init
               PROVE  Sound
    OBVIOUS
  <2>1. DOMAIN <<>> = {} /\ ToSet(<<>>) = {} /\ <<>> \in Seq({})
    BY DEF ToSet
  <2>2. /\ gathered.findings = <<>> /\ gathered.evidence = <<>>
        /\ gaps = <<>> /\ tasks = <<>> /\ outcome = Pending
    BY DEF Init, Unit, Nothing
  <2>3. /\ PacksIn(gathered) = {} /\ SourcesOf(gathered.evidence) = {}
        /\ References(gathered.findings) = {}
    BY <2>1, <2>2 DEF PacksIn, SourcesOf, References
  <2>4. context.turns = {}
    BY DEF Init, NoContext
  <2>5. /\ Grounds(gathered, Recorded) /\ Supported(gaps, Recorded)
        /\ Apart(PacksIn(gathered), Keys(ToSet(context.evidence)))
        /\ IsSeq(tasks) /\ DOMAIN tasks = {}
    BY <2>1, <2>2, <2>3 DEF Grounds, OnlySources, Apart, Supported, IsSeq
  <2> QED
    BY <2>2, <2>4, <2>5 DEF Sound, SavesAll
<1>2. Inv /\ Learning /\ Sound /\ [Next]_vars => Sound'
  <2> SUFFICES ASSUME Inv, Learning, Sound, [Next]_vars
               PROVE  Sound'
    OBVIOUS
  <2>1. CASE UNCHANGED vars
    BY <2>1, QuietSound DEF vars, resolverVars
  <2>2. CASE Grow
    BY <2>2, QuietSound DEF Grow, resolverVars
  <2>3. CASE Ask
    <3>1. PICK ctx : ctx = ContextOf(BuildThreadContext(thread))
      OBVIOUS
    <3>2. Begins(ctx)
      BY <2>3, <3>1 DEF Ask
    <3>3. thread \in Seq(StoredTurns)
      BY DEF Learning
    <3>4. IsPacks(ToSet(ctx.evidence)) /\ \A x \in ctx.turns : ~(x > 0)
      BY <3>1, <3>3, ContextPacks
    <3> QED
      BY <3>2, <3>4, BeginsSound
  <2>4. CASE Settle
    BY <2>4, EmptySound DEF Settle, Forgotten
  <2>5. CASE Works /\ UNCHANGED <<thread, turn, stream>>
    <3>1. thread' = thread
      BY <2>5
    <3>2. CASE Enter
      BY <3>1, <3>2, EnterSteady, SteadySound
    <3>3. CASE AssessesResolved
      BY <3>1, <3>3, ResolvedSound
    <3>4. CASE AssessesSearch
      BY <3>1, <3>4, AssessSearchSteady, SteadySound
    <3>5. CASE AssessesDecompose
      BY <3>1, <3>5, DecomposeSteady, SteadySound
    <3>6. CASE AttemptFails
      BY <3>1, <3>6, AttemptSteady, SteadySound
    <3>7. CASE ProviderUnavailable
      BY <3>1, <3>7, ProviderSteady, SteadySound
    <3>8. CASE AssessmentThrows
      BY <3>1, <3>8, ThrowsSteady, SteadySound
    <3>9. CASE BeginSearch
      BY <3>1, <3>9, BeginSearchSteady, SteadySound
    <3>10. CASE EndSearch
      BY <3>1, <3>10, EndSearchSound
    <3>11. CASE NextChild
      BY <3>1, <3>11, NextChildSteady, SteadySound
    <3>12. CASE Acquire
      BY <3>1, <3>12, AcquireSteady, SteadySound
    <3> QED
      BY <2>5, <3>2, <3>3, <3>4, <3>5, <3>6, <3>7, <3>8, <3>9, <3>10, <3>11, <3>12 DEF Works
  <2>6. CASE Abort /\ UNCHANGED <<thread, turn, stream>>
    BY <2>6, QuietSound DEF Abort, resolverVars
  <2>7. CASE Chunk \/ StreamEnds \/ StreamFails \/ StreamInterrupted
    <3>1. Quiet
      BY <2>7 DEF Chunk, StreamEnds, StreamFails, StreamInterrupted
    <3> QED
      BY <3>1, QuietSound DEF Quiet, resolverVars
  <2>8. CASE AbortSynthesis
    BY <2>8, QuietSound DEF AbortSynthesis, resolverVars
  <2> QED
    BY <2>1, <2>2, <2>3, <2>4, <2>5, <2>6, <2>7, <2>8 DEF Next
<1> QED
  BY <1>1, <1>2, KnowledgeInvariance, PTL DEF Spec

(* Whatever is searched, joined, cited and cut, whenever the context a       *)
(* research was given is closed, what it returns or saves passes the check   *)
(* for references: sourceClosure never fails a turn for what the resolver    *)
(* itself did (execute-research-turn.ts, research-resolver.ts:348-376).      *)
THEOREM ReferencesAreClosed ==
    Spec => []ReferencesClosed
<1>1. Inv /\ Learning /\ Sound => ReferencesClosed
  <2> SUFFICES ASSUME Inv, Learning, Sound,
                      outcome # Pending, outcome.kind # "thrown",
                      context.cited \cup SourcesOf(context.evidence) \subseteq context.known
               PROVE  Closed(outcome.knowledge)
    BY DEF ReferencesClosed
  <2> PICK g, know, R : g = gathered /\ know = outcome.knowledge /\ R = Recorded
    OBVIOUS
  <2>1. Grounds(g, R) /\ Supported(gaps, R)
        /\ \A i \in DOMAIN tasks : tasks[i].evidence \subseteq R
    BY DEF Sound, Founded
  <2>2. Equals(g, know)
    <3>1. CASE outcome.kind = "resolution"
      BY <3>1 DEF Learning, Resolved, Equals
    <3>2. CASE outcome.kind # "resolution"
      BY <3>2 DEF Sound, SavesAll, Equals
    <3> QED
      BY <3>1, <3>2
  <2>3. Grounds(know, R)
    BY <2>1, <2>2, EqualGrounds
  <2>4. OnlySources(UNION {gaps[p].support : p \in DOMAIN gaps}) \subseteq R
    BY <2>1 DEF Supported, OnlySources
  <2>5. UNION {tasks[i].evidence : i \in DOMAIN tasks} \subseteq R
    BY <2>1
  <2>6. context.known \cup context.cited \cup SourcesOf(context.evidence) \subseteq R
    BY DEF Recorded
  <2> QED
    BY <2>3, <2>4, <2>5, <2>6 DEF Closed, Required, Grounds
<1> QED
  BY <1>1, SoundInvariance, PTL

(* However often a query is searched again and packs are joined and given    *)
(* up, no page is held by two packs of a research, but where the context it  *)
(* was given had it twice (evidence-acquirer.ts, research-resolver.ts:66-84).*)
THEOREM PagesAreHeldOnce ==
    Spec => []OnePackPerSource
<1>1. Inv /\ Learning /\ Sound => OnePackPerSource
  <2> SUFFICES ASSUME Inv, Learning, Sound,
                      NEW i \in DOMAIN gathered.evidence, NEW j \in DOMAIN gathered.evidence,
                      i # j
               PROVE  \/ gathered.evidence[i].sources \cap gathered.evidence[j].sources = {}
                      \/ OfContext(gathered.evidence[i]) /\ OfContext(gathered.evidence[j])
    BY DEF OnePackPerSource
  <2> PICK e, p, q, C : /\ e = gathered.evidence /\ p = e[i] /\ q = e[j]
                        /\ C = ToSet(context.evidence)
    OBVIOUS
  <2>1. IsListing(e) /\ PacksIn(gathered) = ToSet(e)
    BY DEF Learning, IsKnowledge, PacksIn
  <2>2. DOMAIN e = 1..Len(e)
    BY <2>1, SeqDomain DEF IsListing
  <2>3. p # q /\ p \in ToSet(e) /\ q \in ToSet(e)
    BY <2>1, <2>2 DEF IsListing, ToSet
  <2>4. \/ p.sources \cap q.sources = {}
        \/ KeyOf(p) \in Keys(C) /\ KeyOf(q) \in Keys(C)
    BY <2>1, <2>3 DEF Sound, Apart
  <2>5. \A r : KeyOf(r) \in Keys(C) => OfContext(r)
    <3> SUFFICES ASSUME NEW r, KeyOf(r) \in Keys(C)
                 PROVE  OfContext(r)
      OBVIOUS
    <3>1. PICK c \in C : KeyOf(c) = KeyOf(r)
      BY DEF Keys
    <3>2. SamePack(c, r)
      BY <3>1 DEF SamePack, KeyOf
    <3> QED
      BY <3>1, <3>2 DEF OfContext
  <2> QED
    BY <2>4, <2>5
<1> QED
  BY <1>1, SoundInvariance, PTL
=============================================================================
