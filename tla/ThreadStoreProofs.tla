-------------------------- MODULE ThreadStoreProofs --------------------------
(***************************************************************************)
(* What the proofs about both storage adapters share: lemmas about the     *)
(* record and the commit policy, for every thread and every input, the     *)
(* inductive invariant, and lemmas about the steps of ThreadStoreBase.     *)
(***************************************************************************)
EXTENDS ThreadStoreBase, SequenceTheorems, FiniteSetTheorems, FunctionTheorems, TLAPS

-----------------------------------------------------------------------------
(* The record and the commit policy.                                         *)

(* The place a turn is inserted at lies within the thread's turns.           *)
LEMMA EarlierBound ==
    ASSUME NEW turns \in Seq(Turn), NEW turn
    PROVE  Cardinality(Earlier(turns, turn)) \in 0..Len(turns)
<1>1. Len(turns) \in Nat /\ DOMAIN turns = 1..Len(turns)
  BY LenProperties
<1>2. IsFiniteSet(1..Len(turns)) /\ Cardinality(1..Len(turns)) = Len(turns)
  BY <1>1, FS_Interval
<1>3. Earlier(turns, turn) \in SUBSET (1..Len(turns))
  BY <1>1 DEF Earlier
<1>4. /\ IsFiniteSet(Earlier(turns, turn))
      /\ Cardinality(Earlier(turns, turn)) <= Len(turns)
  BY <1>2, <1>3, FS_Subset
<1>5. Cardinality(Earlier(turns, turn)) \in Nat
  BY <1>4, FS_CardinalityType
<1> QED
  BY <1>1, <1>4, <1>5

(* r is s with e inserted after its first k elements.                        *)
IsInsertion(S, s, k, e, r) ==
    /\ r \in Seq(S)
    /\ Len(r) = Len(s) + 1
    /\ r[k + 1] = e
    /\ \A i \in 1..k : r[i] = s[i]
    /\ \A i \in (k + 1)..Len(s) : r[i + 1] = s[i]

(* InsertAt is an insertion.                                                 *)
LEMMA InsertAfter ==
    ASSUME NEW S, NEW s \in Seq(S), NEW k \in 0..Len(s), NEW e \in S
    PROVE  IsInsertion(S, s, k, e, InsertAt(s, k + 1, e))
<1> DEFINE n == Len(s)
           before == SubSeq(s, 1, k)
           after == SubSeq(s, k + 1, n)
           r == InsertAt(s, k + 1, e)
<1>1. n \in Nat /\ k \in Nat /\ k <= n /\ k \in Int /\ k + 1 \in Int /\ n \in Int
  BY LenProperties
<1>2. \A i \in 1..n : s[i] \in S
  BY ElementOfSeq
<1>3. /\ before \in Seq(S) /\ Len(before) = k
      /\ \A i \in 1..k : before[i] = s[i]
  <2>1. \A i \in 1..k : s[i] \in S
    BY <1>1, <1>2
  <2> HIDE DEF n
  <2>2. /\ before \in Seq(S)
        /\ Len(before) = IF 1 <= k THEN k - 1 + 1 ELSE 0
        /\ \A i \in 1..(k - 1 + 1) : before[i] = s[1 + i - 1]
    BY <1>1, <2>1, SubSeqProperties
  <2> QED
    BY <1>1, <2>2
<1>4. /\ after \in Seq(S) /\ Len(after) = n - k
      /\ \A i \in 1..(n - k) : after[i] = s[k + i]
  <2>1. \A i \in (k + 1)..n : s[i] \in S
    BY <1>1, <1>2
  <2> HIDE DEF n
  <2>2. /\ after \in Seq(S)
        /\ Len(after) = IF k + 1 <= n THEN n - (k + 1) + 1 ELSE 0
        /\ \A i \in 1..(n - (k + 1) + 1) : after[i] = s[k + 1 + i - 1]
    BY <1>1, <2>1, SubSeqProperties
  <2>4. n - (k + 1) + 1 = n - k /\ (~(k + 1 <= n) => n - k = 0)
    BY <1>1
  <2>5. \A i \in 1..(n - k) : k + 1 + i - 1 = k + i
    BY <1>1
  <2> QED
    BY <2>2, <2>4, <2>5
<1>5. r = before \o <<e>> \o after
  <2>1. (k + 1) - 1 = k
    BY <1>1
  <2> QED
    BY <2>1 DEF InsertAt
<1>6. <<e>> \in Seq(S) /\ Len(<<e>>) = 1 /\ <<e>>[1] = e
  OBVIOUS
<1> DEFINE head == before \o <<e>>
<1> HIDE DEF before, after, n, r
<1>7. /\ head \in Seq(S) /\ Len(head) = k + 1
      /\ \A i \in 1..(k + 1) : head[i] = IF i <= k THEN before[i] ELSE <<e>>[i - k]
  BY <1>1, <1>3, <1>6, ConcatProperties
<1>8. head[k + 1] = e /\ \A i \in 1..k : head[i] = s[i]
  <2>1. k + 1 \in 1..(k + 1) /\ ~(k + 1 <= k) /\ (k + 1) - k = 1
    BY <1>1
  <2>2. \A i \in 1..k : i \in 1..(k + 1) /\ i <= k
    BY <1>1
  <2> HIDE DEF head
  <2> QED
    BY <1>3, <1>6, <1>7, <2>1, <2>2
<1> HIDE DEF head
<1>9. /\ r \in Seq(S) /\ Len(r) = k + 1 + (n - k)
      /\ \A i \in 1..(k + 1 + (n - k)) :
            r[i] = IF i <= k + 1 THEN head[i] ELSE after[i - (k + 1)]
  <2>1. /\ head \o after \in Seq(S) /\ Len(head \o after) = Len(head) + Len(after)
        /\ \A i \in 1..(Len(head) + Len(after)) :
             (head \o after)[i] = IF i <= Len(head) THEN head[i]
                                  ELSE after[i - Len(head)]
    BY <1>4, <1>7, ConcatProperties
  <2>2. r = head \o after
    BY <1>5 DEF head
  <2> QED
    BY <1>4, <1>7, <2>1, <2>2
<1>10. \A i \in 1..(k + 1) : r[i] = head[i]
  BY <1>1, <1>9
<1>11. \A i \in (k + 1)..n : r[i + 1] = s[i]
  <2> SUFFICES ASSUME NEW i \in (k + 1)..n PROVE r[i + 1] = s[i]
    OBVIOUS
  <2>1. /\ i + 1 \in 1..(k + 1 + (n - k)) /\ ~(i + 1 <= k + 1)
        /\ (i + 1) - (k + 1) = i - k /\ i - k \in 1..(n - k) /\ k + (i - k) = i
    BY <1>1
  <2> QED
    BY <1>4, <1>9, <2>1
<1>12. r[k + 1] = e /\ \A i \in 1..k : r[i] = s[i]
  <2>1. k + 1 \in 1..(k + 1) /\ \A i \in 1..k : i \in 1..(k + 1)
    BY <1>1
  <2> QED
    BY <1>8, <1>10, <2>1
<1>13. k + 1 + (n - k) = n + 1
  BY <1>1
<1> QED
  BY <1>9, <1>11, <1>12, <1>13 DEF r, n, IsInsertion

(* Inserting a turn keeps the turns there were and adds exactly that one.    *)
LEMMA InsertTurnKeeps ==
    ASSUME NEW turns \in Seq(Turn), NEW turn \in Turn
    PROVE  /\ InsertTurn(turns, turn) \in Seq(Turn)
           /\ ToSet(InsertTurn(turns, turn)) = ToSet(turns) \cup {turn}
<1> DEFINE k == Cardinality(Earlier(turns, turn))
           n == Len(turns)
           r == InsertTurn(turns, turn)
<1>1. k \in 0..n /\ n \in Nat /\ DOMAIN turns = 1..n
  BY EarlierBound, LenProperties
<1>2. /\ r \in Seq(Turn) /\ Len(r) = n + 1 /\ r[k + 1] = turn
      /\ \A i \in 1..k : r[i] = turns[i]
      /\ \A i \in (k + 1)..n : r[i + 1] = turns[i]
  <2>1. r = InsertAt(turns, k + 1, turn)
    BY DEF InsertTurn
  <2> HIDE DEF k, r
  <2>2. k \in 0..Len(turns)
    BY <1>1
  <2>3. IsInsertion(Turn, turns, k, turn, r)
    BY <2>1, <2>2, InsertAfter
  <2> QED
    BY <2>3 DEF IsInsertion
<1>3. DOMAIN r = 1..(n + 1)
  BY <1>2, LenProperties
<1> HIDE DEF k, n, r
<1>4. ASSUME NEW x \in ToSet(r) PROVE x \in ToSet(turns) \cup {turn}
  <2>1. PICK i \in 1..(n + 1) : x = r[i]
    BY <1>3, <1>4 DEF ToSet
  <2>2. CASE i <= k
    BY <1>1, <1>2, <2>1, <2>2 DEF ToSet
  <2>3. CASE i = k + 1
    BY <1>2, <2>1, <2>3
  <2>4. CASE i > k + 1
    <3> PICK j : j = i - 1
      OBVIOUS
    <3>1. j \in (k + 1)..n /\ j + 1 = i /\ j \in 1..n
      BY <1>1, <2>1, <2>4
    <3>2. r[j + 1] = turns[j]
      BY <1>2, <3>1
    <3>3. x = turns[j] /\ j \in DOMAIN turns
      BY <1>1, <2>1, <3>1, <3>2
    <3> QED
      BY <3>3 DEF ToSet
  <2> QED
    BY <1>1, <2>1, <2>2, <2>3, <2>4
<1>5. ASSUME NEW x \in ToSet(turns) PROVE x \in ToSet(r)
  <2>1. PICK i \in 1..n : x = turns[i]
    BY <1>1, <1>5 DEF ToSet
  <2>2. CASE i <= k
    <3>1. i \in 1..k /\ i \in 1..(n + 1)
      BY <1>1, <2>1, <2>2
    <3> QED
      BY <1>2, <1>3, <2>1, <3>1 DEF ToSet
  <2>3. CASE i > k
    <3>1. i \in (k + 1)..n /\ i + 1 \in 1..(n + 1)
      BY <1>1, <2>1, <2>3
    <3> QED
      BY <1>2, <1>3, <2>1, <3>1 DEF ToSet
  <2> QED
    BY <1>1, <2>1, <2>2, <2>3
<1>6. turn \in ToSet(r)
  <2>1. k + 1 \in 1..(n + 1)
    BY <1>1
  <2> QED
    BY <1>2, <1>3, <2>1 DEF ToSet
<1> QED
  BY <1>2, <1>4, <1>5, <1>6 DEF r

(* Admitting sources yields a catalogue, and moves no ordinal already given. *)
LEMMA AdmitSourcesKeeps ==
    ASSUME NEW catalog \in [Sources -> Nat], NEW supplied \in Seq(Sources)
    PROVE  /\ AdmitSources(catalog, supplied) \in [Sources -> Nat]
           /\ \A s \in Admitted(catalog) :
                AdmitSources(catalog, supplied)[s] = catalog[s]
<1>1. Cardinality(Admitted(catalog)) \in Nat
  <2>1. Admitted(catalog) \in SUBSET Sources
    BY DEF Admitted
  <2> QED
    BY <2>1, SourcesAssumption, FS_Subset, FS_CardinalityType
<1>2. \A s \in ToSet(supplied) :
         NewUpTo(catalog, supplied, Position(supplied, s)) \in Nat
  <2> SUFFICES ASSUME NEW s \in ToSet(supplied)
               PROVE  NewUpTo(catalog, supplied, Position(supplied, s)) \in Nat
    OBVIOUS
  <2> DEFINE p == Position(supplied, s)
             fresh == {i \in 1..p : catalog[supplied[i]] = 0}
  <2>1. p \in Int
    BY LenProperties DEF Position, ToSet
  <2>2. IsFiniteSet(1..p) /\ fresh \in SUBSET (1..p)
    BY <2>1, FS_Interval
  <2>3. Cardinality(fresh) \in Nat
    BY <2>2, FS_Subset, FS_CardinalityType
  <2> QED
    BY <2>3 DEF NewUpTo
<1>3. AdmitSources(catalog, supplied) \in [Sources -> Nat]
  BY <1>1, <1>2 DEF AdmitSources
<1>4. \A s \in Admitted(catalog) : AdmitSources(catalog, supplied)[s] = catalog[s]
  BY DEF AdmitSources, Admitted
<1> QED
  BY <1>3, <1>4

(* An extended record is a record.                                           *)
LEMMA ExtendedType ==
    ASSUME NEW record \in Record \cup {None}, NEW input,
           input.turn \in Turn, input.supplied \in Seq(Sources),
           NEW rev \in Nat \ {0}
    PROVE  Extended(record, input, rev) \in Record
<1> DEFINE next == Extended(record, input, rev)
<1>1. CurrentTurns(record) \in Seq(Turn)
  BY DEF CurrentTurns, Record
<1>2. CurrentCatalog(record) \in [Sources -> Nat]
  BY DEF CurrentCatalog, EmptyCatalog, Record
<1>3. LatestActivity(record, input.turn) \in Nat
  BY DEF LatestActivity, MaxOf, Record, Turn
<1>4. ThreadExpiryAt(LatestActivity(record, input.turn)) \in Nat
  BY <1>3, RetentionAssumption DEF ThreadExpiryAt
<1>5. InsertTurn(CurrentTurns(record), input.turn) \in Seq(Turn)
  BY <1>1, InsertTurnKeeps
<1>6. AdmitSources(CurrentCatalog(record), input.supplied) \in [Sources -> Nat]
  BY <1>2, AdmitSourcesKeeps
<1>7. next.createdAt \in Nat /\ next.archive \in SUBSET Entry
  <2>1. TurnCreatedAt[input.turn.id] \in Nat
    BY RankAssumption DEF Turn
  <2>2. CASE record = None
    BY <2>1, <2>2 DEF Extended
  <2>3. CASE record # None
    BY <2>3 DEF Extended, Record
  <2> QED
    BY <2>2, <2>3
<1> QED
  BY <1>3, <1>4, <1>5, <1>6, <1>7 DEF Extended, Record

-----------------------------------------------------------------------------
(* Valid threads stay valid. *)

(* The numbers up to n are n numbers.                                        *)
LEMMA UpTo ==
    ASSUME NEW n \in Nat
    PROVE  IsFiniteSet(1..n) /\ Cardinality(1..n) = n
<1>1. IsFiniteSet(1..n) /\ Cardinality(1..n) = IF 1 > n THEN 0 ELSE n - 1 + 1
  BY FS_Interval
<1> QED
  BY <1>1

(* Of a thread in turn order the turns that precede a new one come first, so *)
(* that their number is the place of the last of them.                       *)
LEMMA EarlierComeFirst ==
    ASSUME NEW turns \in Seq(Turn), NEW turn \in Turn, InTurnOrder(turns),
           \A i \in DOMAIN turns : turns[i].id # turn.id,
           NEW i \in DOMAIN turns
    PROVE  /\ i <= Cardinality(Earlier(turns, turn))
                => TurnRank[turns[i].id] < TurnRank[turn.id]
           /\ i > Cardinality(Earlier(turns, turn))
                => TurnRank[turn.id] < TurnRank[turns[i].id]
<1> DEFINE n == Len(turns)
           E == Earlier(turns, turn)
           k == Cardinality(E)
<1>1. n \in Nat /\ DOMAIN turns = 1..n /\ i \in 1..n /\ i \in Nat /\ k \in 0..n
  BY EarlierBound, LenProperties
<1>2. turn.id \in TurnIds /\ \A j \in 1..n : turns[j].id \in TurnIds
  <2>1. \A j \in 1..n : turns[j] \in Turn
    BY ElementOfSeq
  <2> QED
    BY <2>1 DEF Turn
<1>3. TurnRank \in [TurnIds -> Nat]
  BY RankAssumption
<1>4. E \subseteq 1..n
  BY <1>1 DEF Earlier
<1>5. CASE i \in E
  <2>1. \A j \in 1..i : j \in E
    <3> SUFFICES ASSUME NEW j \in 1..i, j # i PROVE j \in E
      BY <1>5
    <3>1. j \in 1..n /\ j < i
      BY <1>1
    <3>2. TurnRank[turns[j].id] < TurnRank[turns[i].id]
      BY <1>1, <3>1 DEF InTurnOrder
    <3>3. TurnRank[turns[i].id] < TurnRank[turn.id]
      BY <1>5 DEF Earlier
    <3>4. TurnRank[turns[j].id] < TurnRank[turn.id]
      BY <1>1, <1>2, <1>3, <3>1, <3>2, <3>3
    <3> QED
      BY <1>1, <3>1, <3>4 DEF Earlier
  <2>2. IsFiniteSet(E)
    <3>1. IsFiniteSet(1..n)
      BY <1>1, UpTo
    <3> QED
      BY <1>4, <3>1, FS_Subset
  <2>3. Cardinality(1..i) <= k /\ Cardinality(1..i) = i
    <3>1. (1..i) \in SUBSET E
      BY <2>1
    <3>2. Cardinality(1..i) <= k
      BY <2>2, <3>1, FS_Subset
    <3>3. Cardinality(1..i) = i
      BY <1>1, UpTo
    <3> QED
      BY <1>1, <3>2, <3>3
  <2>4. TurnRank[turns[i].id] < TurnRank[turn.id]
    BY <1>5 DEF Earlier
  <2> HIDE DEF k
  <2> QED
    BY <1>1, <2>3, <2>4 DEF k
<1>6. CASE i \notin E
  <2>1. TurnRank[turn.id] < TurnRank[turns[i].id]
    <3>1. ~(TurnRank[turns[i].id] < TurnRank[turn.id])
      BY <1>1, <1>6 DEF Earlier
    <3>2. TurnRank[turns[i].id] # TurnRank[turn.id]
      BY <1>1, <1>2, RankAssumption
    <3> QED
      BY <1>1, <1>2, <1>3, <3>1, <3>2
  <2>2. E \in SUBSET (1..(i - 1))
    <3> SUFFICES ASSUME NEW j \in E PROVE j \in 1..(i - 1)
      OBVIOUS
    <3>1. j \in 1..n /\ TurnRank[turns[j].id] < TurnRank[turn.id]
      BY <1>1 DEF Earlier
    <3>2. j # i
      BY <1>6
    <3>3. ~(i < j)
      <4>1. i < j => TurnRank[turns[i].id] < TurnRank[turns[j].id]
        BY <1>1, <3>1 DEF InTurnOrder
      <4> QED
        BY <1>1, <1>2, <1>3, <2>1, <3>1, <4>1
    <3> QED
      BY <1>1, <3>1, <3>2, <3>3
  <2>3. i - 1 \in Nat /\ IsFiniteSet(1..(i - 1)) /\ Cardinality(1..(i - 1)) = i - 1
    <3> DEFINE j == i - 1
    <3>1. j \in Nat
      BY <1>1
    <3> HIDE DEF j
    <3>2. IsFiniteSet(1..j) /\ Cardinality(1..j) = j
      BY <3>1, UpTo
    <3> QED
      BY <3>1, <3>2 DEF j
  <2>4. k <= i - 1
    BY <2>2, <2>3, FS_Subset
  <2> HIDE DEF k
  <2>5. ~(i <= k)
    BY <1>1, <2>3, <2>4
  <2> QED
    BY <2>1, <2>5 DEF k
<1> QED
  BY <1>5, <1>6

(* A turn that is inserted takes its place in the order.                     *)
LEMMA InsertTurnOrders ==
    ASSUME NEW turns \in Seq(Turn), NEW turn \in Turn, InTurnOrder(turns),
           \A i \in DOMAIN turns : turns[i].id # turn.id
    PROVE  InTurnOrder(InsertTurn(turns, turn))
<1> DEFINE k == Cardinality(Earlier(turns, turn))
           n == Len(turns)
           r == InsertTurn(turns, turn)
           rank(e) == TurnRank[e.id]
<1>1. k \in 0..n /\ n \in Nat /\ DOMAIN turns = 1..n
  BY EarlierBound, LenProperties
<1>2. /\ r \in Seq(Turn) /\ Len(r) = n + 1 /\ r[k + 1] = turn
      /\ \A i \in 1..k : r[i] = turns[i]
      /\ \A i \in (k + 1)..n : r[i + 1] = turns[i]
  <2>1. r = InsertAt(turns, k + 1, turn)
    BY DEF InsertTurn
  <2> HIDE DEF k, r
  <2>2. k \in 0..Len(turns)
    BY <1>1
  <2>3. IsInsertion(Turn, turns, k, turn, r)
    BY <2>1, <2>2, InsertAfter
  <2> QED
    BY <2>3 DEF IsInsertion
<1>3. DOMAIN r = 1..(n + 1)
  BY <1>2, LenProperties
<1>4. /\ \A i \in 1..n : i <= k => rank(turns[i]) < rank(turn)
      /\ \A i \in 1..n : i > k => rank(turn) < rank(turns[i])
  BY <1>1, EarlierComeFirst
<1>5. \A i, j \in 1..n : i < j => rank(turns[i]) < rank(turns[j])
  BY <1>1 DEF InTurnOrder
<1> HIDE DEF k, n, r, rank
<1> SUFFICES ASSUME NEW i \in 1..(n + 1), NEW j \in 1..(n + 1), i < j
             PROVE  rank(r[i]) < rank(r[j])
  BY <1>3 DEF InTurnOrder, r, rank
<1>6. \A m \in 1..(n + 1) : m > k + 1 => m - 1 \in (k + 1)..n /\ r[m] = turns[m - 1]
  <2> SUFFICES ASSUME NEW m \in 1..(n + 1), m > k + 1
               PROVE  m - 1 \in (k + 1)..n /\ r[m] = turns[m - 1]
    OBVIOUS
  <2>1. m - 1 \in (k + 1)..n /\ (m - 1) + 1 = m
    BY <1>1
  <2> QED
    BY <1>2, <2>1
<1>7. CASE j <= k
  <2>1. i \in 1..k /\ j \in 1..k /\ i \in 1..n /\ j \in 1..n
    BY <1>1, <1>7
  <2> QED
    BY <1>2, <1>5, <2>1
<1>8. CASE j = k + 1
  <2>1. i \in 1..k /\ i \in 1..n /\ i <= k
    BY <1>1, <1>8
  <2> QED
    BY <1>2, <1>4, <1>8, <2>1
<1>9. CASE j > k + 1
  <2>1. j - 1 \in 1..n /\ j - 1 > k /\ r[j] = turns[j - 1]
    <3>1. j - 1 \in (k + 1)..n /\ r[j] = turns[j - 1]
      BY <1>6, <1>9
    <3> QED
      BY <1>1, <3>1
  <2>2. CASE i <= k
    <3>1. i \in 1..k /\ i \in 1..n /\ i < j - 1
      BY <1>1, <2>1, <2>2
    <3> QED
      BY <1>2, <1>5, <2>1, <3>1
  <2>3. CASE i = k + 1
    BY <1>2, <1>4, <2>1, <2>3
  <2>4. CASE i > k + 1
    <3>1. i - 1 \in (k + 1)..n /\ r[i] = turns[i - 1]
      BY <1>6, <2>4
    <3>2. i - 1 \in 1..n /\ i - 1 < j - 1
      BY <1>1, <3>1
    <3> QED
      BY <1>5, <2>1, <3>1, <3>2
  <2> QED
    BY <1>1, <2>2, <2>3, <2>4
<1> QED
  BY <1>1, <1>7, <1>8, <1>9

(* What is supplied once each has one position each.                         *)
LEMMA SuppliedOnce ==
    ASSUME NEW supplied \in Seq(Sources),
           Cardinality(ToSet(supplied)) = Len(supplied)
    PROVE  /\ \A s \in ToSet(supplied) : /\ Position(supplied, s) \in 1..Len(supplied)
                                         /\ supplied[Position(supplied, s)] = s
           /\ \A i \in 1..Len(supplied) : /\ supplied[i] \in ToSet(supplied)
                                          /\ Position(supplied, supplied[i]) = i
<1> DEFINE L == Len(supplied)
           T == ToSet(supplied)
<1>1. L \in Nat /\ DOMAIN supplied = 1..L /\ supplied \in [1..L -> T]
  BY LenProperties DEF ToSet
<1>2. \A s \in T : \E i \in 1..L : supplied[i] = s
  BY <1>1 DEF ToSet
<1>3. \A s \in T : Position(supplied, s) \in 1..L /\ supplied[Position(supplied, s)] = s
  BY <1>1, <1>2 DEF Position
<1>4. IsFiniteSet(1..L) /\ Cardinality(1..L) = L
  BY <1>1, UpTo
<1>5. supplied \in Surjection(1..L, T)
  BY <1>1, <1>2, Fun_IsSurj
<1> HIDE DEF T
<1>6. supplied \in Injection(1..L, T)
  BY <1>4, <1>5, FS_Surjection DEF T
<1>7. \A i, j \in 1..L : supplied[i] = supplied[j] => i = j
  BY <1>6, Fun_InjectionProperties
<1>8. \A i \in 1..L : supplied[i] \in T /\ Position(supplied, supplied[i]) = i
  BY <1>1, <1>3, <1>7
<1> QED
  BY <1>3, <1>8 DEF T

(* The new sources get the ordinals 1 to their number, in some order.        *)
LEMMA NewSourcesNumbered ==
    ASSUME NEW catalog \in [Sources -> Nat], NEW supplied \in Seq(Sources),
           Cardinality(ToSet(supplied)) = Len(supplied),
           NEW N, N = {s \in ToSet(supplied) : catalog[s] = 0},
           NEW f, f = [s \in N |-> NewUpTo(catalog, supplied, Position(supplied, s))]
    PROVE  IsFiniteSet(N) /\ f \in Surjection(N, 1..Cardinality(N))
<1> DEFINE L == Len(supplied)
           pos(s) == Position(supplied, s)
           P(n) == {i \in 1..n : catalog[supplied[i]] = 0}
           q == Cardinality(N)
<1>1. L \in Nat /\ DOMAIN supplied = 1..L
  BY LenProperties
<1>2. /\ \A s \in ToSet(supplied) : pos(s) \in 1..L /\ supplied[pos(s)] = s
      /\ \A i \in 1..L : supplied[i] \in ToSet(supplied) /\ pos(supplied[i]) = i
  BY SuppliedOnce
<1>3. N \in SUBSET Sources
  <2>1. ToSet(supplied) \subseteq Sources
    BY <1>1, ElementOfSeq DEF ToSet
  <2> QED
    BY <2>1
<1>4. IsFiniteSet(N) /\ q \in Nat
  BY <1>3, SourcesAssumption, FS_Subset, FS_CardinalityType
<1>5. \A s \in N : f[s] = Cardinality(P(pos(s)))
  BY DEF NewUpTo
<1> HIDE DEF pos
<1>6. \A n \in 1..L : /\ IsFiniteSet(P(n)) /\ P(n) \in SUBSET P(L)
                      /\ Cardinality(P(n)) \in Nat
  <2> SUFFICES ASSUME NEW n \in 1..L
               PROVE  /\ IsFiniteSet(P(n)) /\ P(n) \in SUBSET P(L)
                      /\ Cardinality(P(n)) \in Nat
    OBVIOUS
  <2>1. n \in Int /\ n <= L
    BY <1>1
  <2>2. IsFiniteSet(1..n)
    BY <2>1, FS_Interval
  <2>3. P(n) \in SUBSET (1..n) /\ P(n) \in SUBSET P(L)
    BY <1>1, <2>1
  <2> HIDE DEF P
  <2> QED
    BY <2>2, <2>3, FS_Subset, FS_CardinalityType
<1>7. IsFiniteSet(P(L)) /\ Cardinality(P(L)) \in Nat /\ Cardinality(P(L)) <= q
  <2> DEFINE g == [i \in P(L) |-> supplied[i]]
             R == P(L)
  <2>1. g \in [R -> N] /\ \A i, j \in R : g[i] = g[j] => i = j
    BY <1>2
  <2> HIDE DEF g, R
  <2>2. g \in Injection(R, N)
    BY <2>1, Fun_IsInj
  <2>3. IsFiniteSet(R) /\ Cardinality(R) <= q
    BY <1>4, <2>2, FS_Injection
  <2>4. Cardinality(R) \in Nat
    BY <2>3, FS_CardinalityType
  <2> QED
    BY <2>3, <2>4 DEF R
<1>8. \A s \in N : pos(s) \in 1..L /\ pos(s) \in P(pos(s))
  <2> SUFFICES ASSUME NEW s \in N PROVE pos(s) \in 1..L /\ pos(s) \in P(pos(s))
    OBVIOUS
  <2>1. pos(s) \in 1..L /\ supplied[pos(s)] = s /\ catalog[s] = 0
    BY <1>2
  <2>2. pos(s) \in 1..pos(s)
    BY <1>1, <2>1
  <2> QED
    BY <2>1, <2>2
<1>9. \A s \in N : f[s] \in 1..q
  <2> SUFFICES ASSUME NEW s \in N PROVE f[s] \in 1..q
    OBVIOUS
  <2> DEFINE R == P(pos(s))
             top == P(L)
  <2>1. IsFiniteSet(R) /\ R \in SUBSET top /\ Cardinality(R) \in Nat /\ pos(s) \in R
    BY <1>6, <1>8
  <2>2. f[s] = Cardinality(R)
    BY <1>5
  <2>3. IsFiniteSet(top) /\ Cardinality(top) \in Nat /\ Cardinality(top) <= q
    BY <1>7
  <2> HIDE DEF R, top
  <2>4. Cardinality(R) # 0
    BY <2>1, FS_EmptySet
  <2>5. Cardinality(R) <= Cardinality(top)
    BY <2>1, <2>3, FS_Subset
  <2> QED
    BY <1>4, <2>1, <2>2, <2>3, <2>4, <2>5
<1>10. \A s, t \in N : pos(s) < pos(t) => f[s] # f[t]
  <2> SUFFICES ASSUME NEW s \in N, NEW t \in N, pos(s) < pos(t)
               PROVE  f[s] # f[t]
    OBVIOUS
  <2> DEFINE R == P(pos(s))
             S == P(pos(t))
  <2>1. pos(s) \in 1..L /\ pos(t) \in 1..L /\ pos(t) \in S
    BY <1>8
  <2>2. R \in SUBSET S /\ pos(t) \notin R
    BY <1>1, <2>1
  <2>3. IsFiniteSet(R) /\ IsFiniteSet(S)
    BY <1>6, <2>1
  <2>4. f[s] = Cardinality(R) /\ f[t] = Cardinality(S)
    BY <1>5
  <2> HIDE DEF R, S
  <2>5. Cardinality(S) = Cardinality(R) => S = R
    BY <2>2, <2>3, FS_Subset
  <2> QED
    BY <2>1, <2>2, <2>4, <2>5
<1>11. \A s, t \in N : f[s] = f[t] => s = t
  <2> SUFFICES ASSUME NEW s \in N, NEW t \in N, f[s] = f[t] PROVE s = t
    OBVIOUS
  <2>1. pos(s) \in 1..L /\ pos(t) \in 1..L
    BY <1>8
  <2>2. pos(s) = pos(t)
    <3>1. ~(pos(s) < pos(t)) /\ ~(pos(t) < pos(s))
      BY <1>10
    <3> QED
      BY <1>1, <2>1, <3>1
  <2>3. supplied[pos(s)] = s /\ supplied[pos(t)] = t
    BY <1>2
  <2> QED
    BY <2>2, <2>3
<1>12. f \in [N -> 1..q]
  BY <1>9
<1> HIDE DEF q
<1>13. f \in Injection(N, 1..q)
  BY <1>11, <1>12, Fun_IsInj
<1>14. IsFiniteSet(1..q) /\ Cardinality(1..q) = q
  BY <1>4, UpTo
<1>15. f \in Surjection(N, 1..q)
  BY <1>13, <1>14, FS_Injection DEF q
<1> QED
  BY <1>4, <1>15 DEF q

(* Supplied sources are admitted next to those admitted before, with the     *)
(* ordinals that come after theirs and without a gap.                        *)
LEMMA AdmitSourcesNumbers ==
    ASSUME NEW catalog \in [Sources -> Nat], NEW supplied \in Seq(Sources),
           Cardinality(ToSet(supplied)) = Len(supplied), Contiguous(catalog),
           NEW new, new = AdmitSources(catalog, supplied)
    PROVE  /\ Admitted(new) = Admitted(catalog) \cup ToSet(supplied)
           /\ Contiguous(new)
           /\ \A s \in Admitted(new) \ Admitted(catalog) :
                new[s] > Cardinality(Admitted(catalog))
<1> DEFINE A == Admitted(catalog)
           m == Cardinality(A)
           N == {s \in ToSet(supplied) : catalog[s] = 0}
           f == [s \in N |-> NewUpTo(catalog, supplied, Position(supplied, s))]
           q == Cardinality(N)
<1>1. ToSet(supplied) \subseteq Sources
  <2>1. DOMAIN supplied = 1..Len(supplied)
    BY LenProperties
  <2> QED
    BY <2>1, ElementOfSeq DEF ToSet
<1>2. /\ A \in SUBSET Sources /\ N \in SUBSET Sources /\ A \cap N = {}
      /\ A \cup N = A \cup ToSet(supplied)
  BY <1>1 DEF Admitted
<1>3. IsFiniteSet(A) /\ m \in Nat
  BY <1>2, SourcesAssumption, FS_Subset, FS_CardinalityType
<1>4. IsFiniteSet(N) /\ f \in Surjection(N, 1..q)
  <2> HIDE DEF N
  <2>1. N = {s \in ToSet(supplied) : catalog[s] = 0}
    BY DEF N
  <2> HIDE DEF f
  <2>2. f = [s \in N |-> NewUpTo(catalog, supplied, Position(supplied, s))]
    BY DEF f
  <2> QED
    BY <2>1, <2>2, NewSourcesNumbered
<1>5. q \in Nat
  BY <1>4, FS_CardinalityType
<1>6. f \in [N -> 1..q] /\ \A i \in 1..q : \E s \in N : f[s] = i
  <2> HIDE DEF N, f
  <2> QED
    BY <1>4, Fun_SurjectionProperties
<1>7. \A s \in Sources : new[s] = IF s \in N THEN m + f[s] ELSE catalog[s]
  BY <1>1 DEF AdmitSources
<1> HIDE DEF m, N, f, q
<1>8. \A s \in N : f[s] \in 1..q /\ m + f[s] \in (m + 1)..(m + q)
  <2> SUFFICES ASSUME NEW s \in N
               PROVE  f[s] \in 1..q /\ m + f[s] \in (m + 1)..(m + q)
    OBVIOUS
  <2>1. f[s] \in 1..q
    BY <1>6
  <2> HIDE DEF A
  <2> QED
    BY <1>3, <1>5, <2>1
<1>9. Admitted(new) = A \cup N
  <2>1. ASSUME NEW s \in Sources PROVE new[s] # 0 <=> s \in A \cup N
    <3>1. CASE s \in N
      <4>1. new[s] = m + f[s] /\ m + f[s] \in (m + 1)..(m + q)
        BY <1>7, <1>8, <3>1
      <4> HIDE DEF A
      <4>2. m + f[s] # 0
        BY <1>3, <1>5, <4>1
      <4> QED
        BY <3>1, <4>1, <4>2
    <3>2. CASE s \notin N
      BY <1>7, <3>2 DEF Admitted
    <3> QED
      BY <3>1, <3>2
  <2> QED
    BY <1>2, <2>1 DEF Admitted
<1>10. Cardinality(Admitted(new)) = m + q
  <2>1. Cardinality(A \cup N) = m + q - Cardinality(A \cap N)
    BY <1>3, <1>4, FS_Union DEF m, q
  <2>2. Cardinality(A \cap N) = 0
    BY <1>2, FS_EmptySet
  <2> HIDE DEF A
  <2> QED
    BY <1>3, <1>5, <1>9, <2>1, <2>2
<1>11. {catalog[s] : s \in A} = 1..m
  BY DEF Contiguous, m
<1>12. \A s \in A : new[s] = catalog[s] /\ new[s] \in 1..m
  BY <1>2, <1>7, <1>11
<1>13. \A s \in N : new[s] = m + f[s]
  BY <1>2, <1>7
<1> HIDE DEF A
<1>14. {new[s] : s \in A \cup N} = 1..(m + q)
  <2>1. ASSUME NEW s \in A \cup N PROVE new[s] \in 1..(m + q)
    <3>1. CASE s \in A
      BY <1>3, <1>5, <1>12, <3>1
    <3>2. CASE s \in N
      <4>1. new[s] \in (m + 1)..(m + q)
        BY <1>8, <1>13, <3>2
      <4> QED
        BY <1>3, <1>5, <4>1
    <3> QED
      BY <3>1, <3>2
  <2>2. ASSUME NEW i \in 1..(m + q) PROVE \E s \in A \cup N : new[s] = i
    <3>1. CASE i <= m
      <4>1. i \in 1..m
        BY <1>3, <3>1
      <4> QED
        BY <1>11, <1>12, <4>1
    <3>2. CASE i > m
      <4>1. i - m \in 1..q /\ m + (i - m) = i
        BY <1>3, <1>5, <3>2
      <4>2. PICK s \in N : f[s] = i - m
        BY <1>6, <4>1
      <4> QED
        BY <1>13, <4>1, <4>2
    <3> QED
      BY <1>3, <1>5, <3>1, <3>2
  <2> QED
    BY <2>1, <2>2
<1>15. Contiguous(new)
  BY <1>9, <1>10, <1>14 DEF Contiguous
<1>16. ASSUME NEW s \in Admitted(new) \ A PROVE new[s] > m
  <2>1. s \in N /\ new[s] \in (m + 1)..(m + q)
    BY <1>8, <1>9, <1>13
  <2> QED
    BY <1>3, <1>5, <2>1
<1> QED
  BY <1>2, <1>9, <1>15, <1>16 DEF A, m

(* The schema looks at the times, the turns, the archive and the sources.    *)
LEMMA SameThread ==
    ASSUME NEW old, NEW new, ValidThread(old),
           new.createdAt = old.createdAt, new.updatedAt = old.updatedAt,
           new.turns = old.turns, new.archive = old.archive,
           new.catalog = old.catalog
    PROVE  ValidThread(new)
BY DEF ValidThread, Timely

(* What a commit starts from, a valid record or none, has its turns in       *)
(* order and its sources numbered and referenced.                            *)
CurrentArchive(record) == IF record = None THEN {} ELSE record.archive
LEMMA CurrentWhole ==
    ASSUME NEW record \in Record \cup {None},
           record # None => ValidThread(record)
    PROVE  /\ InTurnOrder(CurrentTurns(record))
           /\ Contiguous(CurrentCatalog(record))
           /\ Admitted(CurrentCatalog(record))
                = Referenced(CurrentTurns(record), CurrentArchive(record))
<1>1. CASE record # None
  BY <1>1 DEF ValidThread, CurrentTurns, CurrentCatalog, CurrentArchive
<1>2. CASE record = None
  <2>1. Admitted(EmptyCatalog) = {} /\ Cardinality({}) = 0
    BY FS_EmptySet DEF Admitted, EmptyCatalog
  <2>2. DOMAIN <<>> = {}
    OBVIOUS
  <2>3. {EmptyCatalog[s] : s \in {}} = 1..0
    OBVIOUS
  <2>4. Referenced(<<>>, {}) = {} /\ InTurnOrder(<<>>)
    BY <2>2 DEF Referenced, InTurnOrder
  <2> QED
    BY <1>2, <2>1, <2>3, <2>4
       DEF CurrentTurns, CurrentCatalog, CurrentArchive, Contiguous
<1> QED
  BY <1>1, <1>2

(* The sources of a thread, by its turns.                                    *)
LEMMA ReferencedBySet ==
    ASSUME NEW turns, NEW archive
    PROVE  Referenced(turns, archive)
             = UNION {ToSet(TurnSources[e.id]) : e \in ToSet(turns)}
                 \cup UNION {entry.sources : entry \in archive}
BY DEF Referenced, ToSet

(* A turn of a thread still belongs to it when turns are added.              *)
LEMMA BelongsStays ==
    ASSUME NEW turn, NEW turns, NEW turns2, Belongs(turn, turns),
           ToSet(turns) \subseteq ToSet(turns2)
    PROVE  Belongs(turn, turns2)
<1>1. Ids(turns) \subseteq Ids(turns2)
  BY DEF Ids
<1> QED
  BY <1>1 DEF Belongs

(* Activity never moves back, and a thread is not older than its first turn. *)
LEMMA ExtendedTimely ==
    ASSUME NEW record \in Record \cup {None},
           record # None => Timely(record),
           NEW input, input.turn \in Turn, NEW rev,
           TurnCreatedAt[input.turn.id] <= input.turn.finishedAt,
           NEW new, new = Extended(record, input, rev)
    PROVE  Timely(new)
<1> DEFINE turn == input.turn
           turns == CurrentTurns(record)
<1>1. turn.finishedAt \in Nat /\ TurnCreatedAt[turn.id] \in Nat
  BY RankAssumption DEF Turn
<1>2. /\ turns \in Seq(Turn)
      /\ record # None => record.updatedAt \in Nat /\ record.createdAt \in Nat
      /\ record # None => record.archive \subseteq Entry
  BY EmptySeq DEF CurrentTurns, Record
<1>3. /\ new.turns = InsertTurn(turns, turn) /\ new.archive = CurrentArchive(record)
      /\ new.updatedAt = LatestActivity(record, turn)
      /\ new.createdAt = IF record = None THEN TurnCreatedAt[turn.id]
                         ELSE record.createdAt
  BY DEF Extended, CurrentArchive
<1>4. /\ new.updatedAt \in Nat /\ turn.finishedAt <= new.updatedAt
      /\ record # None => record.updatedAt <= new.updatedAt
  BY <1>1, <1>2, <1>3 DEF LatestActivity, MaxOf
<1>5. ToSet(new.turns) = ToSet(turns) \cup {turn}
  BY <1>2, <1>3, InsertTurnKeeps
<1>6. new.createdAt <= new.updatedAt
  <2>1. CASE record = None
    BY <1>1, <1>3, <1>4, <2>1
  <2>2. CASE record # None
    <3>1. record.createdAt <= record.updatedAt
      BY <2>2 DEF Timely
    <3> QED
      BY <1>2, <1>3, <1>4, <2>2, <3>1
  <2> QED
    BY <2>1, <2>2
<1>7. ASSUME NEW e \in ToSet(turns) PROVE e.finishedAt <= new.updatedAt
  <2>1. PICK i \in DOMAIN turns : turns[i] = e
    BY DEF ToSet
  <2>2. record # None
    BY <2>1 DEF CurrentTurns
  <2>3. e.finishedAt <= record.updatedAt
    BY <2>1, <2>2 DEF Timely, CurrentTurns
  <2>4. e.finishedAt \in Nat
    <3>1. DOMAIN turns = 1..Len(turns)
      BY <1>2, LenProperties
    <3>2. turns[i] \in Turn
      BY <1>2, <2>1, <3>1, ElementOfSeq
    <3> QED
      BY <2>1, <3>2 DEF Turn
  <2> QED
    BY <1>2, <1>4, <2>2, <2>3, <2>4
<1>8. \A i \in DOMAIN new.turns : new.turns[i].finishedAt <= new.updatedAt
  <2>1. \A e \in ToSet(new.turns) : e.finishedAt <= new.updatedAt
    BY <1>4, <1>5, <1>7
  <2> QED
    BY <2>1 DEF ToSet
<1>9. ASSUME NEW entry \in new.archive PROVE entry.finishedAt <= new.updatedAt
  <2>1. record # None /\ entry \in record.archive
    BY <1>3 DEF CurrentArchive
  <2>2. entry.finishedAt <= record.updatedAt /\ entry.finishedAt \in Nat
    BY <1>2, <2>1 DEF Timely, Entry
  <2> QED
    BY <1>2, <1>4, <2>1, <2>2
<1> QED
  BY <1>6, <1>8, <1>9 DEF Timely

(* The commit policy keeps a valid thread valid: a new turn whose sources    *)
(* are closed and which belongs to the thread makes, of a valid record or of *)
(* none, a thread the schema accepts (commit-terminal-turn.ts:121-136).      *)
LEMMA ExtendedValid ==
    ASSUME NEW record \in Record \cup {None},
           record # None => ValidThread(record),
           NEW input, input.turn \in Turn, input.supplied \in Seq(Sources),
           record # None => SameTurn(record, input.turn) = {},
           SourcesClosed(record, input),
           Belongs(input.turn, InsertTurn(CurrentTurns(record), input.turn)),
           NEW rev
    PROVE  ValidThread(Extended(record, input, rev))
<1> DEFINE turns == CurrentTurns(record)
           catalog == CurrentCatalog(record)
           archive == CurrentArchive(record)
           turn == input.turn
           supplied == input.supplied
           new == Extended(record, input, rev)
           needed == ToSet(TurnSources[turn.id])
<1>1. turns \in Seq(Turn) /\ catalog \in [Sources -> Nat]
  BY EmptySeq DEF CurrentTurns, CurrentCatalog, EmptyCatalog, Record
<1>2. /\ new.turns = InsertTurn(turns, turn) /\ new.archive = archive
      /\ new.catalog = AdmitSources(catalog, supplied)
  BY DEF Extended, CurrentArchive
<1>3. \A i \in DOMAIN turns : turns[i].id # turn.id
  <2>1. CASE record = None
    BY <2>1 DEF CurrentTurns
  <2>2. CASE record # None
    BY <2>2 DEF CurrentTurns, SameTurn
  <2> QED
    BY <2>1, <2>2
<1>4. /\ ToSet(supplied) \subseteq needed
      /\ Cardinality(ToSet(supplied)) = Len(supplied)
      /\ needed \subseteq ToSet(supplied) \cup Admitted(catalog)
  BY DEF SourcesClosed
<1>5. /\ InTurnOrder(turns) /\ Contiguous(catalog)
      /\ Admitted(catalog) = Referenced(turns, archive)
  BY CurrentWhole
<1>6. Timely(new)
  <2>1. TurnCreatedAt[turn.id] <= turn.finishedAt
    BY DEF Belongs
  <2>2. record # None => Timely(record)
    BY DEF ValidThread
  <2> HIDE DEF new
  <2>3. new = Extended(record, input, rev)
    BY DEF new
  <2> QED
    BY <2>1, <2>2, <2>3, ExtendedTimely
<1>7. Belongs(turn, new.turns)
  BY <1>2
<1>8. \A i \in DOMAIN turns : Belongs(turns[i], turns)
  BY DEF CurrentTurns, ValidThread
<1> HIDE DEF turns, catalog, archive, turn, supplied, new, needed
<1>9. InTurnOrder(new.turns)
  BY <1>1, <1>2, <1>3, <1>5, InsertTurnOrders DEF turn
<1>10. ToSet(new.turns) = ToSet(turns) \cup {turn} /\ new.turns \in Seq(Turn)
  BY <1>1, <1>2, InsertTurnKeeps DEF turn
<1>11. /\ Admitted(new.catalog) = Admitted(catalog) \cup ToSet(supplied)
       /\ Contiguous(new.catalog)
  BY <1>1, <1>2, <1>4, <1>5, AdmitSourcesNumbers DEF supplied
<1>12. Referenced(new.turns, new.archive) = Referenced(turns, archive) \cup needed
  BY <1>2, <1>10, ReferencedBySet DEF needed
<1>13. Admitted(new.catalog) = Referenced(new.turns, new.archive)
  BY <1>4, <1>5, <1>11, <1>12
<1>14. \A i \in DOMAIN new.turns : Belongs(new.turns[i], new.turns)
  <2>1. ASSUME NEW e \in ToSet(turns) PROVE Belongs(e, new.turns)
    <3>1. Belongs(e, turns)
      BY <1>8 DEF ToSet
    <3> QED
      BY <1>10, <3>1, BelongsStays
  <2>2. \A e \in ToSet(new.turns) : Belongs(e, new.turns)
    BY <1>7, <1>10, <2>1
  <2> QED
    BY <2>2 DEF ToSet
<1>15. new.turns # <<>>
  <2>1. ToSet(<<>>) = {}
    BY DEF ToSet
  <2> QED
    BY <1>10, <2>1
<1> QED
  BY <1>6, <1>9, <1>11, <1>13, <1>14, <1>15 DEF ValidThread, new

-----------------------------------------------------------------------------
(* The inductive invariant speaks of an operation's locals o as they relate  *)
(* to the stored records recs, the next revisions revs and the candidates    *)
(* cand; these are parameters so that it can be said of two states at once.  *)

(* The locals are those the operation needs where it is suspended.           *)
Fits(o, cand) ==
    /\ o \in Op
    /\ o.pc \notin {"idle", "keys", "sweep", "loop"} => o.at \in Threads
    /\ o.record # None => o.at \in Threads
    /\ o.kind = "commit" => o.turn \in TurnIds /\ cand[o.turn] # None
    /\ o.pc = "write" => o.kind \in {"commit", "import"}
    /\ o.pc = "bury" => o.record # None
    /\ o.pc \in {"keys", "sweep", "loop", "legacy", "migrate", "purge", "unindex"}
       => o.record = None

(* The record it has read has a revision drawn before, and if that is the    *)
(* stored revision it is the stored record.                                  *)
Genuine(o, recs, revs) ==
    o.record # None =>
        /\ o.record.rev < revs[o.at]
        /\ (recs[o.at] # None /\ recs[o.at].rev = o.record.rev)
           => recs[o.at] = o.record

(* Types, the operations' locals apart.                                      *)
Typed ==
    /\ records \in [Threads -> Record \cup {None}]
    /\ tombs \in [Threads -> Nat \cup {None}]
    /\ index \in SUBSET Threads
    /\ legacy \in SUBSET Threads
    /\ now \in Nat
    /\ nextRev \in [Threads -> Nat \ {0}]
    /\ candidate \in [TurnIds -> Candidate \cup {None}]
    /\ started \in Nat
    /\ lapsed \in SUBSET Threads

(* Every stored revision has been drawn.                                     *)
Drawn == \A t \in Threads : records[t] # None => records[t].rev < nextRev[t]

(* The first invariant: types, what the operations hold, revisions and the   *)
(* exclusion of record and tombstone.                                        *)
IInv ==
    /\ Typed
    /\ OneFace
    /\ Drawn
    /\ op \in [Clients -> Op]
    /\ \A c \in Clients : /\ Fits(op[c], candidate)
                          /\ Genuine(op[c], records, nextRev)

(* What every step does to records and revisions: a record stays, goes, or   *)
(* is replaced by one of a revision that is new.                             *)
Evolves(recs, revs, cand, recs2, revs2, cand2) ==
    /\ \A t \in Threads :
        /\ revs[t] <= revs2[t]
        /\ \/ recs2[t] = recs[t]
           \/ recs2[t] = None
           \/ recs2[t] # None /\ revs[t] <= recs2[t].rev
    /\ \A u \in TurnIds : cand[u] # None => cand2[u] # None

-----------------------------------------------------------------------------
(* The operations that do not move keep what the invariant says of them.     *)
LEMMA OthersKeep ==
    ASSUME NEW o, NEW recs, NEW recs2 \in [Threads -> Record \cup {None}],
           NEW revs \in [Threads -> Nat \ {0}],
           NEW revs2 \in [Threads -> Nat \ {0}],
           NEW cand, NEW cand2,
           Evolves(recs, revs, cand, recs2, revs2, cand2),
           Fits(o, cand), Genuine(o, recs, revs)
    PROVE  Fits(o, cand2) /\ Genuine(o, recs2, revs2)
<1>1. Fits(o, cand2)
  BY DEF Fits, Evolves
<1>2. ASSUME o.record # None PROVE Genuine(o, recs2, revs2)
  <2>1. o.at \in Threads /\ o.record \in Record /\ o.record.rev \in Nat
    BY <1>2 DEF Fits, Op, Record
  <2>2. o.record.rev < revs[o.at] /\ revs[o.at] <= revs2[o.at]
    BY <1>2, <2>1 DEF Genuine, Evolves
  <2>3. revs[o.at] \in Nat /\ revs2[o.at] \in Nat
    BY <2>1
  <2>4. o.record.rev < revs2[o.at]
    BY <2>1, <2>2, <2>3
  <2>5. ASSUME recs2[o.at] # None, recs2[o.at].rev = o.record.rev
        PROVE  recs2[o.at] = o.record
    <3>1. ~(revs[o.at] <= recs2[o.at].rev)
      BY <2>1, <2>2, <2>3, <2>5
    <3>2. recs2[o.at] = recs[o.at]
      BY <2>1, <2>5, <3>1 DEF Evolves
    <3> QED
      BY <1>2, <2>5, <3>2 DEF Genuine
  <2> QED
    BY <2>4, <2>5 DEF Genuine
<1>3. CASE o.record = None
  BY <1>1, <1>3 DEF Genuine
<1> QED
  BY <1>1, <1>2, <1>3

(* The locals an operation is left with when it is over.                     *)
LEMMA ReturnedFits ==
    ASSUME NEW code \in Codes, NEW cand
    PROVE  Fits(Returned(code), cand) /\ Returned(code).record = None
<1>1. Returned(code) \in Op
  <2>1. <<>> \in Seq(Sources)
    BY EmptySeq
  <2> QED
    BY <2>1 DEF Returned, Op, PCs
<1> QED
  BY <1>1 DEF Fits, Returned

(* The policy answers with a code.                                           *)
LEMMA VerdictType ==
    ASSUME NEW record, NEW deleted, NEW input
    PROVE  Verdict(record, deleted, input) \in Codes
<1>1. Refusal(record, deleted, input) \in Codes
  BY DEF Refusal, Codes
<1> QED
  BY <1>1 DEF Verdict, Codes

(* The turns of a sequence, typed.                                           *)
LEMMA TurnsTyped ==
    ASSUME NEW turns \in Seq(Turn), NEW e \in ToSet(turns)
    PROVE  e \in Turn /\ e.id \in TurnIds /\ e.finishedAt \in Nat
<1>1. DOMAIN turns = 1..Len(turns)
  BY LenProperties
<1>2. e \in Turn
  BY <1>1, ElementOfSeq DEF ToSet
<1> QED
  BY <1>2 DEF Turn

(* What becomes of an operation that has read its thread's state: it is over,*)
(* turns to another thread, or prepares a write with the record it has read. *)
LEMMA DecisionFits ==
    ASSUME NEW o \in Op, NEW cand, Fits(o, cand), o.at \in Threads, now \in Nat
    PROVE  /\ Fits(Decision(o), cand)
           /\ \/ Decision(o).record = None
              \/ Decision(o).record = o.record /\ Decision(o).at = o.at
<1> DEFINE Goal(d) == /\ Fits(d, cand)
                      /\ d.record = None \/ (d.record = o.record /\ d.at = o.at)
<1>1. \A code \in Codes : Goal(Returned(code))
  BY ReturnedFits
<1>2. Goal(NextThread(o))
  <2>1. NextThread(o) \in Op
    BY DEF NextThread, Op, PCs
  <2> QED
    BY <2>1 DEF Fits, NextThread, Op
<1>3. o.kind = "commit" => Goal(CommitDecision(o))
  <2> DEFINE verdict == Verdict(o.record, o.tomb # None, InputOf(o))
  <2>1. verdict \in Codes
    BY VerdictType
  <2>2. Goal([o EXCEPT !.pc = "write"]) \/ o.kind # "commit"
    <3>1. [o EXCEPT !.pc = "write"] \in Op
      BY DEF Op, PCs
    <3> QED
      BY <3>1 DEF Fits, Op
  <2>3. Goal(Returned(verdict)) /\ Goal(Returned("revision_conflict"))
    BY <1>1, <2>1 DEF Codes
  <2>4. \/ CommitDecision(o) = Returned(verdict)
        \/ CommitDecision(o) = Returned("revision_conflict")
        \/ CommitDecision(o) = [o EXCEPT !.pc = "write"]
    BY DEF CommitDecision
  <2> HIDE DEF Goal, verdict
  <2> QED
    BY <2>2, <2>3, <2>4
<1>4. Goal(RemoveDecision(o))
  <2>1. o.record # None => Goal([o EXCEPT !.pc = "bury", !.time = now])
    <3>1. [o EXCEPT !.pc = "bury", !.time = now] \in Op
      BY DEF Op, PCs
    <3> QED
      BY <3>1 DEF Fits, Op
  <2>2. Goal(Returned("already_absent")) /\ Goal(Returned("revision_conflict"))
    BY <1>1 DEF Codes
  <2> HIDE DEF Goal
  <2> QED
    BY <2>1, <2>2 DEF RemoveDecision
<1>5. o.kind = "import" => Goal(ImportDecision(o))
  <2>1. o.kind = "import" => Goal([o EXCEPT !.pc = "write", !.time = now])
    <3>1. [o EXCEPT !.pc = "write", !.time = now] \in Op
      BY DEF Op, PCs
    <3> QED
      BY <3>1 DEF Fits, Op
  <2> HIDE DEF Goal
  <2> QED
    BY <1>2, <2>1 DEF ImportDecision
<1>6. Goal(Returned("ok"))
  BY <1>1 DEF Codes
<1>7. Goal(LoadDecision(o))
  <2>1. SeenRevision(o) \in Nat
    BY DEF SeenRevision, Op, Record
  <2>2. Returned("ok") \in Op
    BY <1>6 DEF Fits
  <2>3. Ids(CurrentTurns(o.record)) \in SUBSET TurnIds
    <3>1. CurrentTurns(o.record) \in Seq(Turn)
      BY EmptySeq DEF CurrentTurns, Op, Record
    <3> QED
      BY <3>1, TurnsTyped DEF Ids
  <2>5. LoadDecision(o) \in Op
    <3> PICK seen \in SUBSET TurnIds : seen = Ids(CurrentTurns(o.record))
      BY <2>3
    <3> PICK rev \in Nat : rev = SeenRevision(o)
      BY <2>1
    <3>1. LoadDecision(o) = [Returned("ok") EXCEPT !.expected = rev, !.seen = seen]
      BY DEF LoadDecision
    <3> QED
      BY <2>2, <3>1 DEF Op
  <2>4. /\ LoadDecision(o).pc = "idle" /\ LoadDecision(o).record = None
        /\ LoadDecision(o).kind = "none"
    BY DEF LoadDecision, Returned
  <2> QED
    BY <2>4, <2>5 DEF Fits
<1> HIDE DEF Goal
<1>8. Goal(Decision(o))
  BY <1>2, <1>3, <1>4, <1>5, <1>6, <1>7 DEF Decision
<1> QED
  BY <1>8 DEF Goal

-----------------------------------------------------------------------------
(* One operation moves: the invariant holds after the step if it holds of    *)
(* the store and of the operation that moved.                                *)
LEMMA StepKeeps ==
    ASSUME IInv, NEW c \in Clients, NEW o,
           Typed', OneFace', Drawn',
           Evolves(records, nextRev, candidate, records', nextRev', candidate'),
           op' = [op EXCEPT ![c] = o],
           Fits(o, candidate'), Genuine(o, records', nextRev')
    PROVE  IInv'
<1>1. op' \in [Clients -> Op]
  BY DEF IInv, Fits
<1>2. \A d \in Clients : /\ Fits(op'[d], candidate')
                         /\ Genuine(op'[d], records', nextRev')
  <2> SUFFICES ASSUME NEW d \in Clients
               PROVE  /\ Fits(op'[d], candidate')
                      /\ Genuine(op'[d], records', nextRev')
    OBVIOUS
  <2>1. CASE d = c
    <3>1. op'[d] = o
      BY <2>1 DEF IInv
    <3> QED
      BY <3>1
  <2>2. CASE d # c
    <3>1. op'[d] = op[d]
      BY <2>2 DEF IInv
    <3>2. Fits(op[d], candidate) /\ Genuine(op[d], records, nextRev)
      BY DEF IInv
    <3>3. /\ records' \in [Threads -> Record \cup {None}]
          /\ nextRev \in [Threads -> Nat \ {0}]
          /\ nextRev' \in [Threads -> Nat \ {0}]
      BY DEF IInv, Typed
    <3>4. Fits(op[d], candidate') /\ Genuine(op[d], records', nextRev')
      BY <3>2, <3>3, OthersKeep
    <3> QED
      BY <3>1, <3>4
  <2> QED
    BY <2>1, <2>2
<1> QED
  BY <1>1, <1>2 DEF IInv

(* The store stays as it is.                                                 *)
LEMMA LocalStep ==
    ASSUME IInv, NEW c \in Clients, NEW o,
           UNCHANGED <<records, tombs, index, legacy, nextRev, candidate>>,
           now' \in Nat, started' \in Nat, lapsed' \in SUBSET Threads,
           op' = [op EXCEPT ![c] = o],
           Fits(o, candidate), Genuine(o, records, nextRev)
    PROVE  IInv'
<1>1. Typed'
  BY DEF IInv, Typed
<1>2. OneFace' /\ Drawn'
  BY DEF IInv, OneFace, Drawn
<1>3. Evolves(records, nextRev, candidate, records', nextRev', candidate')
  BY DEF Evolves, IInv, Typed
<1>4. Fits(o, candidate') /\ Genuine(o, records', nextRev')
  OBVIOUS
<1> QED
  BY <1>1, <1>2, <1>3, <1>4, StepKeeps

(* One thread is written or deleted, and an operation moves that holds no    *)
(* record afterwards.                                                        *)
LEMMA ThreadStep ==
    ASSUME IInv, NEW c \in Clients, NEW o, NEW t \in Threads,
           NEW r \in Record \cup {None}, NEW n \in Nat, NEW x \in Nat \cup {None},
           records' = [records EXCEPT ![t] = r],
           tombs' = [tombs EXCEPT ![t] = x],
           nextRev' = [nextRev EXCEPT ![t] = n], nextRev[t] <= n,
           r # None => x = None /\ r.rev = nextRev[t] /\ r.rev < n,
           index' \in SUBSET Threads, legacy' \in SUBSET Threads,
           lapsed' \in SUBSET Threads,
           UNCHANGED <<now, candidate, started>>,
           op' = [op EXCEPT ![c] = o],
           Fits(o, candidate), o.record = None
    PROVE  IInv'
<1>1. nextRev[t] \in Nat \ {0} /\ n \in Nat \ {0}
  BY DEF IInv, Typed
<1>2. Typed'
  BY <1>1 DEF IInv, Typed
<1>3. \A u \in Threads : /\ records'[u] = IF u = t THEN r ELSE records[u]
                         /\ tombs'[u] = IF u = t THEN x ELSE tombs[u]
                         /\ nextRev'[u] = IF u = t THEN n ELSE nextRev[u]
  BY DEF IInv, Typed
<1>4. OneFace'
  BY <1>3 DEF IInv, OneFace
<1>5. Drawn'
  BY <1>3 DEF IInv, Drawn
<1>6. Evolves(records, nextRev, candidate, records', nextRev', candidate')
  <2> SUFFICES ASSUME NEW u \in Threads
               PROVE  /\ nextRev[u] <= nextRev'[u]
                      /\ \/ records'[u] = records[u]
                         \/ records'[u] = None
                         \/ records'[u] # None /\ nextRev[u] <= records'[u].rev
    BY DEF Evolves
  <2>1. nextRev[u] \in Nat
    BY DEF IInv, Typed
  <2> QED
    BY <1>1, <1>3, <2>1
<1>7. Fits(o, candidate') /\ Genuine(o, records', nextRev')
  BY DEF Genuine
<1> QED
  BY <1>2, <1>4, <1>5, <1>6, <1>7, StepKeeps

(* An operation begins.                                                      *)
LEMMA BeginKeeps ==
    ASSUME IInv, NEW c \in Clients, NEW o, Begin(c, o),
           candidate' \in [TurnIds -> Candidate \cup {None}],
           \A u \in TurnIds : candidate[u] # None => candidate'[u] # None,
           Fits(o, candidate'), o.record = None
    PROVE  IInv'
<1>1. Typed'
  BY DEF IInv, Typed, Begin
<1>2. OneFace' /\ Drawn'
  BY DEF IInv, OneFace, Drawn, Begin
<1>3. Evolves(records, nextRev, candidate, records', nextRev', candidate')
  BY DEF Evolves, IInv, Typed, Begin
<1>4. Genuine(o, records', nextRev') /\ op' = [op EXCEPT ![c] = o]
  BY DEF Genuine, Begin
<1> QED
  BY <1>1, <1>2, <1>3, <1>4, StepKeeps

(* Every kind of operation begins.                                           *)
LEMMA StartKeeps ==
    ASSUME IInv, NEW c \in Clients, Start(c)
    PROVE  IInv'
<1>1. <<>> \in Seq(Sources)
  BY EmptySeq
<1>2. candidate \in [TurnIds -> Candidate \cup {None}]
  BY DEF IInv, Typed
<1>3. CASE StartLoad(c)
  <2>1. PICK t \in Threads :
          Begin(c, [Returned("none") EXCEPT !.pc = "read", !.kind = "load", !.at = t])
    BY <1>3 DEF StartLoad
  <2> DEFINE o == [Returned("none") EXCEPT !.pc = "read", !.kind = "load", !.at = t]
  <2>2. o \in Op
    BY <1>1 DEF Op, OpKinds, PCs, Codes, Returned
  <2>3. Fits(o, candidate') /\ o.record = None
    BY <1>1, <2>2 DEF Fits, Returned
  <2>4. candidate' = candidate
    BY <1>3 DEF StartLoad
  <2> HIDE DEF o
  <2> QED
    BY <1>2, <2>1, <2>3, <2>4, BeginKeeps DEF o
<1>4. CASE StartList(c)
  <2>1. PICK k \in Kinds \cap {"list", "inspect"} :
          Begin(c, [Returned("none") EXCEPT !.pc = "keys", !.kind = k])
    BY <1>4 DEF StartList
  <2> DEFINE o == [Returned("none") EXCEPT !.pc = "keys", !.kind = k]
  <2>2. o \in Op
    BY <1>1 DEF Op, OpKinds, PCs, Codes, Returned
  <2>3. Fits(o, candidate') /\ o.record = None
    BY <1>1, <2>2 DEF Fits, Returned
  <2>4. candidate' = candidate
    BY <1>4 DEF StartList
  <2> HIDE DEF o
  <2> QED
    BY <1>2, <2>1, <2>3, <2>4, BeginKeeps DEF o
<1>5. CASE StartRemove(c)
  <2>0. PICK t \in Threads : \E expected \in 0..(nextRev[t] - 1) :
          Begin(c, [Returned("none") EXCEPT
                      !.pc = "read", !.kind = "remove", !.at = t,
                      !.expected = expected])
    BY <1>5 DEF StartRemove
  <2>1. PICK expected \in 0..(nextRev[t] - 1) :
          Begin(c, [Returned("none") EXCEPT
                      !.pc = "read", !.kind = "remove", !.at = t,
                      !.expected = expected])
    BY <2>0
  <2> DEFINE o == [Returned("none") EXCEPT
                      !.pc = "read", !.kind = "remove", !.at = t,
                      !.expected = expected]
  <2>2. expected \in Nat
    BY DEF IInv, Typed
  <2>3. o \in Op
    BY <1>1, <2>2 DEF Op, OpKinds, PCs, Codes, Returned
  <2>4. Fits(o, candidate') /\ o.record = None
    BY <1>1, <2>3 DEF Fits, Returned
  <2>5. candidate' = candidate
    BY <1>5 DEF StartRemove
  <2> HIDE DEF o
  <2> QED
    BY <1>2, <2>1, <2>4, <2>5, BeginKeeps DEF o
<1>6. CASE StartImport(c)
  <2>1. PICK replace \in BOOLEAN :
          Begin(c, [Returned("none") EXCEPT
                      !.pc = "loop", !.kind = "import", !.replace = replace,
                      !.todo = Threads])
    BY <1>6 DEF StartImport
  <2> DEFINE o == [Returned("none") EXCEPT
                      !.pc = "loop", !.kind = "import", !.replace = replace,
                      !.todo = Threads]
  <2>2. o \in Op
    BY <1>1 DEF Op, OpKinds, PCs, Codes, Returned
  <2>3. Fits(o, candidate') /\ o.record = None
    BY <1>1, <2>2 DEF Fits, Returned
  <2>4. candidate' = candidate
    BY <1>6 DEF StartImport
  <2> HIDE DEF o
  <2> QED
    BY <1>2, <2>1, <2>3, <2>4, BeginKeeps DEF o
<1>7. CASE StartCommit(c)
  <2>1. PICK t \in Threads, u \in TurnIds, create \in BOOLEAN :
          /\ \E expected \in IF create THEN {0} ELSE 0..(nextRev[t] - 1) :
               Begin(c, [Returned("none") EXCEPT
                           !.pc = "read", !.kind = "commit", !.at = t, !.turn = u,
                           !.expected = expected, !.create = create,
                           !.supplied = TurnSources[u]])
          /\ candidate' = IF candidate[u] # None THEN candidate
                          ELSE [candidate EXCEPT
                                  ![u] = [thread |-> t, finishedAt |-> now]]
    BY <1>7 DEF StartCommit
  <2>2. PICK expected \in IF create THEN {0} ELSE 0..(nextRev[t] - 1) :
          Begin(c, [Returned("none") EXCEPT
                      !.pc = "read", !.kind = "commit", !.at = t, !.turn = u,
                      !.expected = expected, !.create = create,
                      !.supplied = TurnSources[u]])
    BY <2>1
  <2> DEFINE o == [Returned("none") EXCEPT
                      !.pc = "read", !.kind = "commit", !.at = t, !.turn = u,
                      !.expected = expected, !.create = create,
                      !.supplied = TurnSources[u]]
  <2>3. expected \in Nat /\ now \in Nat
    BY DEF IInv, Typed
  <2>4. o \in Op
    BY <1>1, <2>3, SourcesAssumption DEF Op, OpKinds, PCs, Codes, Returned
  <2>5. [thread |-> t, finishedAt |-> now] # None
    <3>1. [thread |-> t, finishedAt |-> now] \in Candidate
      BY <2>3 DEF Candidate
    <3> QED
      BY <3>1, BaseAssumption
  <2>6. /\ candidate' \in [TurnIds -> Candidate \cup {None}]
        /\ \A v \in TurnIds : candidate[v] # None => candidate'[v] # None
        /\ candidate'[u] # None
    BY <1>2, <2>1, <2>3, <2>5 DEF Candidate
  <2>7. Fits(o, candidate') /\ o.record = None
    <3>1. o.turn = u /\ o.at = t /\ o.record = None /\ o.pc = "read"
      BY <1>1 DEF Returned
    <3> HIDE DEF o
    <3> QED
      BY <2>4, <2>6, <3>1 DEF Fits
  <2> HIDE DEF o
  <2> QED
    BY <2>2, <2>6, <2>7, BeginKeeps DEF o
<1> QED
  BY <1>3, <1>4, <1>5, <1>6, <1>7 DEF Start

(* Expiry is settled and a decision taken, a walk goes on, or an operation   *)
(* is interrupted.                                                           *)
LEMMA SharedStepsKeep ==
    ASSUME IInv, NEW c \in Clients, Settle(c) \/ PickThread(c) \/ Interrupt(c)
    PROVE  IInv'
<1> DEFINE o == op[c]
<1>1. /\ o \in Op /\ Fits(o, candidate) /\ Genuine(o, records, nextRev)
      /\ now \in Nat /\ started \in Nat /\ lapsed \in SUBSET Threads
  BY DEF IInv, Typed
<1>2. ASSUME Settle(c) PROVE IInv'
  <2>1. /\ o.pc = "settle" /\ o.at \in Threads
        /\ UNCHANGED <<records, tombs, index, legacy, nextRev, candidate, now, started>>
    BY <1>1, <1>2 DEF Settle, Fits, storeVars
  <2>2. CASE /\ op' = [op EXCEPT ![c] = Returned("integrity_failure")]
             /\ UNCHANGED lapsed
    <3>1. /\ Fits(Returned("integrity_failure"), candidate)
          /\ Genuine(Returned("integrity_failure"), records, nextRev)
      BY ReturnedFits DEF Codes, Genuine
    <3> QED
      BY <1>1, <2>1, <2>2, <3>1, LocalStep
  <2>3. CASE /\ op' = [op EXCEPT ![c] = [o EXCEPT !.pc = "purge",
                                             !.record = None, !.tomb = None]]
             /\ lapsed' = lapsed \cup {o.at}
    <3> DEFINE p == [o EXCEPT !.pc = "purge", !.record = None, !.tomb = None]
    <3>1. p \in Op
      BY <1>1 DEF Op, PCs
    <3>2. Fits(p, candidate) /\ Genuine(p, records, nextRev)
      BY <1>1, <2>1, <3>1 DEF Fits, Genuine, Op
    <3>3. lapsed' \in SUBSET Threads
      BY <1>1, <2>1, <2>3
    <3> HIDE DEF p
    <3> QED
      BY <1>1, <2>1, <2>3, <3>2, <3>3, LocalStep DEF p
  <2>4. CASE /\ op' = [op EXCEPT ![c] = Decision(o)]
             /\ UNCHANGED lapsed
    <3>1. /\ Fits(Decision(o), candidate)
          /\ \/ Decision(o).record = None
             \/ Decision(o).record = o.record /\ Decision(o).at = o.at
      BY <1>1, <2>1, DecisionFits
    <3>2. Genuine(Decision(o), records, nextRev)
      BY <1>1, <3>1 DEF Genuine
    <3> QED
      BY <1>1, <2>1, <2>4, <3>1, <3>2, LocalStep
  <2> QED
    BY <1>2, <2>2, <2>3, <2>4 DEF Settle
<1>3. ASSUME PickThread(c) PROVE IInv'
  <2>1. /\ UNCHANGED <<records, tombs, index, legacy, nextRev, candidate>>
        /\ UNCHANGED <<now, started, lapsed>>
    BY <1>3 DEF PickThread, storeVars
  <2>2. CASE op' = [op EXCEPT ![c] = Returned("ok")]
    <3>1. /\ Fits(Returned("ok"), candidate)
          /\ Genuine(Returned("ok"), records, nextRev)
      BY ReturnedFits DEF Codes, Genuine
    <3> QED
      BY <1>1, <2>1, <2>2, <3>1, LocalStep
  <2>3. ASSUME NEW t \in o.todo,
               op' = [op EXCEPT ![c] = Reading([o EXCEPT !.at = t,
                                                  !.todo = o.todo \ {t}])]
        PROVE  IInv'
    <3> DEFINE q == Reading([o EXCEPT !.at = t, !.todo = o.todo \ {t}])
    <3>1. q \in Op /\ t \in Threads
      BY <1>1 DEF Op, PCs, Reading
    <3>2. q.at = t /\ q.record = None /\ q.pc = "read" /\ q.kind = o.kind /\ q.turn = o.turn
      BY <1>1 DEF Op, Reading
    <3> HIDE DEF q
    <3>3. Fits(q, candidate) /\ Genuine(q, records, nextRev)
      BY <1>1, <3>1, <3>2 DEF Fits, Genuine
    <3> QED
      BY <1>1, <2>1, <2>3, <3>3, LocalStep DEF q
  <2> QED
    BY <1>3, <2>2, <2>3 DEF PickThread
<1>4. ASSUME Interrupt(c) PROVE IInv'
  <2>1. /\ UNCHANGED <<records, tombs, index, legacy, nextRev, candidate>>
        /\ UNCHANGED <<now, started, lapsed>>
        /\ op' = [op EXCEPT ![c] = Returned("storage_unavailable")]
    BY <1>4 DEF Interrupt, storeVars
  <2>2. /\ Fits(Returned("storage_unavailable"), candidate)
        /\ Genuine(Returned("storage_unavailable"), records, nextRev)
    BY ReturnedFits DEF Codes, Genuine
  <2> QED
    BY <1>1, <2>1, <2>2, LocalStep
<1> QED
  BY <1>2, <1>3, <1>4

(* What follows a write that took place, and one that was refused.           *)
LEMMA AfterwardsFits ==
    ASSUME NEW o \in Op, NEW cand, Fits(o, cand), o.at \in Threads
    PROVE  /\ Fits(AfterWrite(o), cand) /\ AfterWrite(o).record = None
           /\ Fits(AfterRefusal(o), cand) /\ AfterRefusal(o).record = None
<1>1. Fits(NextThread(o), cand) /\ NextThread(o).record = None
  <2>1. NextThread(o) \in Op
    BY DEF NextThread, Op, PCs
  <2>2. /\ NextThread(o).pc = "loop" /\ NextThread(o).record = None
        /\ NextThread(o).kind = o.kind /\ NextThread(o).turn = o.turn
    BY DEF NextThread, Op
  <2> QED
    BY <2>1, <2>2 DEF Fits
<1>2. Fits(Returned("committed"), cand) /\ Returned("committed").record = None
  BY ReturnedFits DEF Codes
<1>3. /\ Fits(Reading([o EXCEPT !.again = TRUE]), cand)
      /\ Reading([o EXCEPT !.again = TRUE]).record = None
  <2> DEFINE q == Reading([o EXCEPT !.again = TRUE])
  <2>1. q \in Op
    BY DEF Reading, Op, PCs
  <2>2. /\ q.pc = "read" /\ q.record = None /\ q.kind = o.kind
        /\ q.turn = o.turn /\ q.at = o.at
    BY DEF Reading, Op
  <2> HIDE DEF q
  <2>3. Fits(q, cand) /\ q.record = None
    BY <2>1, <2>2 DEF Fits
  <2> QED
    BY <2>3 DEF q
<1> QED
  BY <1>1, <1>2, <1>3 DEF AfterWrite, AfterRefusal

(* The record a write puts in place is new and carries the next revision.    *)
LEMMA NewRecordType ==
    ASSUME IInv, NEW o \in Op, Fits(o, candidate), o.pc = "write"
    PROVE  NewRecord(o) \in Record /\ NewRecord(o).rev = nextRev[o.at]
<1>1. /\ o.at \in Threads /\ o.kind \in {"commit", "import"}
      /\ o.kind = "commit" => o.turn \in TurnIds /\ candidate[o.turn] # None
  BY DEF Fits
<1>2. nextRev[o.at] \in Nat \ {0}
  BY <1>1 DEF IInv, Typed
<1>3. CASE o.kind = "import"
  <2>1. ThreadExpiryAt(o.time) \in Nat
    BY RetentionAssumption DEF Op, ThreadExpiryAt
  <2>2. Backup[o.at] \in Thread
    BY <1>1, BaseAssumption
  <2> QED
    BY <1>2, <1>3, <2>1, <2>2 DEF NewRecord, Imported, Record, Thread, Op
<1>4. CASE o.kind = "commit"
  <2>1. candidate[o.turn].finishedAt \in Nat
    BY <1>1, <1>4 DEF IInv, Typed, Candidate
  <2>2. InputOf(o).turn \in Turn /\ InputOf(o).supplied \in Seq(Sources)
    BY <1>1, <1>4, <2>1 DEF InputOf, Turn, Op
  <2>3. Extended(o.record, InputOf(o), nextRev[o.at]) \in Record
    BY <1>2, <2>2, ExtendedType DEF Op
  <2>4. Extended(o.record, InputOf(o), nextRev[o.at]).rev = nextRev[o.at]
    BY DEF Extended
  <2> QED
    BY <1>4, <2>3, <2>4 DEF NewRecord
<1> QED
  BY <1>1, <1>3, <1>4

(* So does a converted legacy record.                                        *)
LEMMA ConvertedType ==
    ASSUME NEW t \in Threads, NEW rev \in Nat \ {0}
    PROVE  Converted(t, rev) \in Record /\ Converted(t, rev).rev = rev
<1>1. Legacy[t] \in Thread
  BY BaseAssumption
<1> QED
  BY <1>1, BaseAssumption DEF Converted, AsConverted, Record, Thread

(* A past turn has one time at which it finished.                            *)
LEMMA PastTurn ==
    ASSUME NEW t \in Threads,
           NEW e \in ToSet(Backup[t].turns) \cup ToSet(Legacy[t].turns)
    PROVE  /\ e.id \in TurnIds /\ e \in Past
           /\ PastCandidate(e.id) \in Candidate
           /\ PastCandidate(e.id).finishedAt = e.finishedAt
<1>1. \A v \in Threads : /\ Backup[v].turns \in Seq(Turn)
                         /\ Legacy[v].turns \in Seq(Turn)
  BY BaseAssumption DEF Thread
<1>2. \A a \in Past : a.id \in TurnIds /\ a.finishedAt \in Nat
  BY <1>1, TurnsTyped DEF Past
<1>3. e \in Past /\ e.id \in Held(t) \cup Migrated(t)
  BY DEF Past, Held, Migrated, Ids
<1>4. (CHOOSE turn \in Past : turn.id = e.id) = e
  BY <1>3, PastAssumption
<1>5. PastCandidate(e.id)
        = [thread |-> CHOOSE v \in Threads : e.id \in Held(v) \cup Migrated(v),
           finishedAt |-> e.finishedAt]
  BY <1>3, <1>4 DEF PastCandidate
<1>6. (CHOOSE v \in Threads : e.id \in Held(v) \cup Migrated(v)) \in Threads
  BY <1>3
<1> QED
  BY <1>2, <1>3, <1>5, <1>6 DEF Candidate

(* So initially only past turns are candidates.                              *)
LEMMA PastCandidateType ==
    ASSUME NEW u \in TurnIds
    PROVE  PastCandidate(u) \in Candidate \cup {None}
<1>1. CASE \E t \in Threads : u \in Held(t) \cup Migrated(t)
  <2>1. PICK t \in Threads : u \in Held(t) \cup Migrated(t)
    BY <1>1
  <2>2. PICK e \in ToSet(Backup[t].turns) \cup ToSet(Legacy[t].turns) : e.id = u
    BY <2>1 DEF Held, Migrated, Ids
  <2> QED
    BY <2>2, PastTurn
<1>2. CASE ~\E t \in Threads : u \in Held(t) \cup Migrated(t)
  BY <1>2 DEF PastCandidate
<1> QED
  BY <1>1, <1>2

(* The invariant holds initially.                                            *)
LEMMA InitHolds ==
    ASSUME Init
    PROVE  IInv
<1>2. Typed
  <2>1. candidate \in [TurnIds -> Candidate \cup {None}]
    BY PastCandidateType DEF Init
  <2> QED
    BY <2>1, BaseAssumption DEF Init, Typed
<1>3. OneFace /\ Drawn
  BY DEF Init, OneFace, Drawn
<1>4. \A c \in Clients : Fits(op[c], candidate) /\ op[c].record = None
  <2>1. "none" \in Codes
    BY DEF Codes
  <2>2. \A c \in Clients : op[c] = Returned("none")
    BY DEF Init
  <2> QED
    BY <2>1, <2>2, ReturnedFits
<1>5. op \in [Clients -> Op]
  BY <1>4 DEF Init, Fits
<1>6. \A c \in Clients : Genuine(op[c], records, nextRev)
  BY <1>4 DEF Genuine
<1> QED
  BY <1>2, <1>3, <1>4, <1>5, <1>6 DEF IInv

(* What a commit builds from a copy extends that copy.                       *)
LEMMA ExtendedExtends ==
    ASSUME NEW record \in Record, NEW input,
           input.turn \in Turn, input.supplied \in Seq(Sources), NEW rev
    PROVE  Extends(record, Extended(record, input, rev))
<1> DEFINE new == Extended(record, input, rev)
<1>1. /\ CurrentTurns(record) = record.turns /\ record.turns \in Seq(Turn)
      /\ CurrentCatalog(record) = record.catalog
      /\ record.catalog \in [Sources -> Nat]
  BY NoneAssumption DEF CurrentTurns, CurrentCatalog, Record
<1>2. /\ new.turns = InsertTurn(record.turns, input.turn)
      /\ new.catalog = AdmitSources(record.catalog, input.supplied)
  BY <1>1 DEF Extended
<1>3. ToSet(record.turns) \subseteq ToSet(new.turns)
  BY <1>1, <1>2, InsertTurnKeeps
<1>4. \A s \in Admitted(record.catalog) : new.catalog[s] = record.catalog[s]
  BY <1>1, <1>2, AdmitSourcesKeeps
<1> QED
  BY <1>3, <1>4 DEF Extends

(* What the invariant says of the properties.                                *)
LEMMA Consequences ==
    ASSUME IInv
    PROVE  TypeOK /\ OneFace /\ RevisionsIdentify
<1>1. TypeOK
  BY DEF IInv, Typed, TypeOK
<1>2. RevisionsIdentify
  BY DEF IInv, Genuine, RevisionsIdentify
<1> QED
  BY <1>1, <1>2 DEF IInv

-----------------------------------------------------------------------------
(* Soundness of what is stored and held: a second invariant, relative to the *)
(* first.                                                                    *)

(* A candidate, once set, stays.                                             *)
Stays(cand, cand2) == \A u \in TurnIds : cand[u] # None => cand2[u] = cand[u]

(* The turns are candidates, with the times they finished.                   *)
Attested(turns, cand) ==
    \A e \in ToSet(turns) : /\ cand[e.id] # None
                            /\ cand[e.id].finishedAt = e.finishedAt

(* A record the schema accepts, of candidates only.                          *)
Sound(record, cand) ==
    record # None => ValidThread(record) /\ Attested(record.turns, cand)

(* InputOf for given candidates.                                             *)
InputWith(o, cand) ==
    [turn |-> [id |-> o.turn, finishedAt |-> cand[o.turn].finishedAt],
     expected |-> o.expected, create |-> o.create, supplied |-> o.supplied]

(* The record an operation holds is sound, a commit that is about to write   *)
(* has been accepted by the policy, and an import by the schema.             *)
Good(o, cand) ==
    /\ Sound(o.record, cand)
    /\ (o.pc = "write" /\ o.kind = "commit")
       => Verdict(o.record, o.tomb # None, InputWith(o, cand)) = "committed"
    /\ (o.pc = "write" /\ o.kind = "import")
       => ValidThread([Backup[o.at] EXCEPT !.updatedAt = o.time])

(* The turns of a thread's past are candidates.                              *)
PastAttested(t, cand) ==
    Attested(Backup[t].turns, cand) /\ Attested(Legacy[t].turns, cand)

(* The second invariant: what is stored, kept from the past or held is       *)
(* sound.                                                                    *)
SInv ==
    /\ \A t \in Threads : Sound(records[t], candidate)
    /\ \A t \in Threads : PastAttested(t, candidate)
    /\ \A c \in Clients : Good(op[c], candidate)

(* Turns stay attested while candidates are only added.                      *)
LEMMA AttestedStays ==
    ASSUME NEW turns \in Seq(Turn), NEW cand, NEW cand2, Stays(cand, cand2),
           Attested(turns, cand)
    PROVE  Attested(turns, cand2)
<1> SUFFICES ASSUME NEW e \in ToSet(turns)
             PROVE  cand2[e.id] # None /\ cand2[e.id].finishedAt = e.finishedAt
  BY DEF Attested
<1>1. e.id \in TurnIds
  BY TurnsTyped
<1>2. cand[e.id] # None /\ cand[e.id].finishedAt = e.finishedAt
  BY DEF Attested
<1> QED
  BY <1>1, <1>2 DEF Stays

(* So does the soundness of a record.                                        *)
LEMMA SoundStays ==
    ASSUME NEW record \in Record \cup {None}, NEW cand, NEW cand2,
           Stays(cand, cand2), Sound(record, cand)
    PROVE  Sound(record, cand2)
<1>1. CASE record = None
  BY <1>1 DEF Sound
<1>2. CASE record # None
  <2>1. record.turns \in Seq(Turn)
    BY <1>2 DEF Record
  <2> QED
    BY <1>2, <2>1, AttestedStays DEF Sound
<1> QED
  BY <1>1, <1>2

(* And that of an operation that does not move: the candidate of its turn    *)
(* has been set before, so that the verdict it wrote down is still the same. *)
LEMMA GoodStays ==
    ASSUME NEW o, NEW cand, NEW cand2, Stays(cand, cand2), Fits(o, cand),
           Good(o, cand)
    PROVE  Good(o, cand2)
<1>1. o.record \in Record \cup {None}
  BY DEF Fits, Op
<1>2. Sound(o.record, cand2)
  BY <1>1, SoundStays DEF Good
<1>3. o.kind = "commit" => InputWith(o, cand2) = InputWith(o, cand)
  BY DEF Fits, Stays, InputWith
<1> QED
  BY <1>2, <1>3 DEF Good

(* What the policy has checked of an input that it accepts.                  *)
LEMMA CommittedMeans ==
    ASSUME NEW record, NEW deleted \in BOOLEAN, NEW input,
           Verdict(record, deleted, input) = "committed"
    PROVE  /\ ~deleted
           /\ record # None => SameTurn(record, input.turn) = {}
           /\ SourcesClosed(record, input)
           /\ ValidThread(Extended(record, input, 1))
<1>1. /\ Refusal(record, deleted, input) = "none" /\ SourcesClosed(record, input)
      /\ ValidThread(Extended(record, input, 1))
  <2>1. Refusal(record, deleted, input) # "committed"
    BY DEF Refusal
  <2> QED
    BY <2>1 DEF Verdict
<1>2. ~deleted /\ (record # None => SameTurn(record, input.turn) = {})
  BY <1>1 DEF Refusal
<1> QED
  BY <1>1, <1>2

(* The input of a commit, typed.                                             *)
LEMMA InputTyped ==
    ASSUME NEW o, NEW cand \in [TurnIds -> Candidate \cup {None}], Fits(o, cand),
           o.kind = "commit"
    PROVE  /\ InputWith(o, cand).turn \in Turn
           /\ InputWith(o, cand).supplied \in Seq(Sources)
           /\ InputWith(o, cand).turn.id = o.turn
           /\ InputWith(o, cand).turn.finishedAt = cand[o.turn].finishedAt
           /\ o.turn \in TurnIds /\ cand[o.turn] # None
<1>1. o \in Op /\ o.turn \in TurnIds /\ cand[o.turn] # None
  BY DEF Fits
<1>2. cand[o.turn].finishedAt \in Nat
  BY <1>1 DEF Candidate
<1> QED
  BY <1>1, <1>2 DEF InputWith, Turn, Op

(* The policy builds a thread that the schema refuses only if the new turn   *)
(* does not belong to it, and never finds a stored turn in contradiction to  *)
(* the one it is given.                                                      *)
LEMMA VerdictSound ==
    ASSUME NEW o, NEW cand \in [TurnIds -> Candidate \cup {None}], Fits(o, cand),
           o.kind = "commit", Sound(o.record, cand),
           NEW input, input = InputWith(o, cand),
           NEW verdict, verdict = Verdict(o.record, o.tomb # None, input)
    PROVE  /\ verdict # "integrity_failure"
           /\ verdict = "schema_rejected"
              => ~Belongs(input.turn, InsertTurn(CurrentTurns(o.record), input.turn))
<1> DEFINE record == o.record
           deleted == o.tomb # None
           refusal == Refusal(record, deleted, input)
           next == Extended(record, input, 1)
           fits == Belongs(input.turn, InsertTurn(CurrentTurns(record), input.turn))
<1>1. record \in Record \cup {None}
  BY DEF Fits, Op
<1>2. /\ input.turn \in Turn /\ input.supplied \in Seq(Sources)
      /\ input.turn.id = o.turn /\ input.turn.finishedAt = cand[o.turn].finishedAt
  BY InputTyped
<1>3. ASSUME record # None, SameTurn(record, input.turn) # {}
      PROVE  \E i \in DOMAIN record.turns : record.turns[i] = input.turn
  <2>1. PICK i \in DOMAIN record.turns : record.turns[i].id = input.turn.id
    BY <1>3 DEF SameTurn
  <2>2. record.turns[i] \in ToSet(record.turns)
    BY <2>1 DEF ToSet
  <2>3. record.turns \in Seq(Turn)
    BY <1>1, <1>3 DEF Record
  <2>4. record.turns[i] \in Turn
    BY <2>2, <2>3, TurnsTyped
  <2>5. record.turns[i].finishedAt = cand[o.turn].finishedAt
    BY <1>2, <1>3, <2>1, <2>2 DEF Sound, Attested
  <2>6. record.turns[i] = input.turn
    BY <1>2, <2>1, <2>4, <2>5 DEF Turn
  <2> QED
    BY <2>1, <2>6
<1>4. refusal \notin {"schema_rejected", "integrity_failure"}
  BY <1>3 DEF Refusal
<1>5. ASSUME refusal = "none", SourcesClosed(record, input), fits
      PROVE  ValidThread(next)
  <2>1. record # None => SameTurn(record, input.turn) = {}
    BY <1>5 DEF Refusal
  <2>2. record # None => ValidThread(record)
    BY DEF Sound
  <2> HIDE DEF record
  <2> QED
    BY <1>1, <1>2, <1>5, <2>1, <2>2, ExtendedValid
<1> HIDE DEF next, refusal, fits
<1>6. \/ verdict \in {refusal, "invalid_record", "committed"}
      \/ verdict = "schema_rejected" /\ ~fits
  BY <1>5 DEF Verdict, refusal, next
<1> QED
  BY <1>4, <1>6 DEF fits

(* What becomes of an operation that has read its thread's state.            *)
LEMMA DecisionGood ==
    ASSUME NEW o, Fits(o, candidate), Good(o, candidate),
           candidate \in [TurnIds -> Candidate \cup {None}]
    PROVE  /\ Good(Decision(o), candidate)
           /\ o.result # "integrity_failure"
              => Decision(o).result # "integrity_failure"
           /\ o.record = None \/ o.tomb = None
              => Decision(o).record = None \/ Decision(o).tomb = None
<1> DEFINE Goal(d) == /\ Good(d, candidate)
                      /\ o.result # "integrity_failure"
                         => d.result # "integrity_failure"
                      /\ o.record = None \/ o.tomb = None
                         => d.record = None \/ d.tomb = None
<1>1. o \in Op
  BY DEF Fits
<1>2. ASSUME NEW code \in Codes \ {"integrity_failure"}
      PROVE  Goal(Returned(code))
  BY DEF Returned, Good, Sound
<1>3. Goal(NextThread(o))
  <2>1. /\ NextThread(o).record = None /\ NextThread(o).result = o.result
        /\ NextThread(o).pc = "loop"
    BY <1>1 DEF NextThread, Op
  <2> QED
    BY <2>1 DEF Good, Sound
<1>4. Goal(LoadDecision(o))
  <2>1. /\ LoadDecision(o).record = None /\ LoadDecision(o).result = "ok"
        /\ LoadDecision(o).pc = "idle"
    BY DEF LoadDecision, Returned
  <2> QED
    BY <2>1 DEF Good, Sound
<1>5. ASSUME o.kind = "commit" PROVE Goal(CommitDecision(o))
  <2> DEFINE verdict == Verdict(o.record, o.tomb # None, InputOf(o))
             p == [o EXCEPT !.pc = "write"]
  <2>1. InputOf(o) = InputWith(o, candidate)
    BY DEF InputOf, InputWith
  <2>2. verdict \in Codes \ {"integrity_failure"}
    <3>1. verdict # "integrity_failure"
      BY <1>5, <2>1, VerdictSound DEF Good
    <3> QED
      BY <3>1, VerdictType
  <2>3. ASSUME verdict = "committed" PROVE Goal(p)
    <3>1. /\ p.record = o.record /\ p.tomb = o.tomb /\ p.result = o.result
          /\ p.kind = "commit" /\ InputWith(p, candidate) = InputWith(o, candidate)
      BY <1>1, <1>5 DEF Op, InputWith
    <3> HIDE DEF p
    <3> QED
      BY <2>1, <2>3, <3>1 DEF Good
  <2>4. Goal(Returned("revision_conflict")) /\ Goal(Returned(verdict))
    <3>1. "revision_conflict" \in Codes \ {"integrity_failure"}
      BY DEF Codes
    <3> HIDE DEF verdict, Goal
    <3> QED
      BY <1>2, <2>2, <3>1
  <2>5. \/ verdict = "committed" /\ CommitDecision(o) = p
        \/ CommitDecision(o) \in {Returned("revision_conflict"), Returned(verdict)}
    BY DEF CommitDecision
  <2> HIDE DEF Goal, verdict, p
  <2> QED
    BY <2>3, <2>4, <2>5
<1>6. Goal(RemoveDecision(o))
  <2> DEFINE p == [o EXCEPT !.pc = "bury", !.time = now]
  <2>1. /\ p.record = o.record /\ p.tomb = o.tomb /\ p.result = o.result
        /\ p.pc = "bury"
    BY <1>1 DEF Op
  <2> HIDE DEF p
  <2>2. Goal(p)
    BY <2>1 DEF Good
  <2>3. Goal(Returned("already_absent")) /\ Goal(Returned("revision_conflict"))
    <3>1. {"already_absent", "revision_conflict"}
             \subseteq Codes \ {"integrity_failure"}
      BY DEF Codes
    <3> HIDE DEF Goal
    <3> QED
      BY <1>2, <3>1
  <2>4. RemoveDecision(o) \in {p, Returned("already_absent"), Returned("revision_conflict")}
    BY DEF RemoveDecision, p
  <2> HIDE DEF Goal
  <2> QED
    BY <2>2, <2>3, <2>4
<1>7. ASSUME o.kind = "import" PROVE Goal(ImportDecision(o))
  <2> DEFINE p == [o EXCEPT !.pc = "write", !.time = now]
             valid == ValidThread([Backup[o.at] EXCEPT !.updatedAt = now])
  <2>1. /\ p.record = o.record /\ p.tomb = o.tomb /\ p.result = o.result
        /\ p.kind = "import" /\ p.at = o.at /\ p.time = now
    BY <1>1, <1>7 DEF Op
  <2>2. valid \/ ImportDecision(o) = NextThread(o)
    BY DEF ImportDecision
  <2>3. ImportDecision(o) \in {p, NextThread(o)}
    BY DEF ImportDecision
  <2> HIDE DEF p
  <2>4. valid => Goal(p)
    BY <2>1 DEF Good
  <2> HIDE DEF Goal, valid
  <2> QED
    BY <1>3, <2>2, <2>3, <2>4
<1> HIDE DEF Goal
<1>8. Goal(Decision(o))
  BY <1>3, <1>4, <1>5, <1>6, <1>7 DEF Decision
<1> QED
  BY <1>8 DEF Goal

(* One operation moves and a thread may be written: the invariant holds      *)
(* after the step if what is written and what moved are sound.               *)
LEMMA SoundStep ==
    ASSUME IInv, SInv, NEW c \in Clients, NEW o,
           Stays(candidate, candidate'),
           \A t \in Threads : \/ records'[t] = records[t]
                              \/ Sound(records'[t], candidate'),
           op' = [op EXCEPT ![c] = o], Good(o, candidate')
    PROVE  SInv'
<1>1. records \in [Threads -> Record \cup {None}] /\ op \in [Clients -> Op]
  BY DEF IInv, Typed
<1>2. \A t \in Threads : Sound(records'[t], candidate')
  <2> SUFFICES ASSUME NEW t \in Threads, records'[t] = records[t]
               PROVE  Sound(records[t], candidate')
    OBVIOUS
  <2>1. Sound(records[t], candidate) /\ records[t] \in Record \cup {None}
    BY <1>1 DEF SInv
  <2> QED
    BY <2>1, SoundStays
<1>3. \A t \in Threads : PastAttested(t, candidate')
  <2> SUFFICES ASSUME NEW t \in Threads PROVE PastAttested(t, candidate')
    OBVIOUS
  <2>1. /\ Backup[t].turns \in Seq(Turn) /\ Attested(Backup[t].turns, candidate)
        /\ Legacy[t].turns \in Seq(Turn) /\ Attested(Legacy[t].turns, candidate)
    BY BaseAssumption DEF SInv, Thread, PastAttested
  <2> QED
    BY <2>1, AttestedStays DEF PastAttested
<1>4. \A d \in Clients : Good(op'[d], candidate')
  <2> SUFFICES ASSUME NEW d \in Clients PROVE Good(op'[d], candidate')
    OBVIOUS
  <2>1. CASE d = c
    <3>1. op'[d] = o
      BY <1>1, <2>1
    <3> QED
      BY <3>1
  <2>2. CASE d # c
    <3>1. op'[d] = op[d]
      BY <1>1, <2>2
    <3>2. Fits(op[d], candidate) /\ Good(op[d], candidate)
      BY DEF IInv, SInv
    <3>3. Good(op[d], candidate')
      BY <3>2, GoodStays
    <3> QED
      BY <3>1, <3>3
  <2> QED
    BY <2>1, <2>2
<1> QED
  BY <1>2, <1>3, <1>4 DEF SInv

(* The same of a step that leaves the threads and the candidates alone.      *)
LEMMA SoundLocalStep ==
    ASSUME IInv, SInv, NEW c \in Clients, NEW o, UNCHANGED <<records, candidate>>,
           op' = [op EXCEPT ![c] = o], Good(o, candidate)
    PROVE  SInv'
<1>1. Stays(candidate, candidate') /\ Good(o, candidate')
  BY DEF Stays
<1> QED
  BY <1>1, SoundStep

(* The locals of an operation that has read nothing yet.                     *)
Fresh(o) ==
    /\ o.record = None /\ o.tomb = None /\ o.result = "none"
    /\ o.pc \in {"read", "keys", "loop"}

(* It is an import only where imports are made, and the only candidate it    *)
(* may change is that of its turn.                                           *)
Brings(o, cand, cand2) ==
    /\ o.kind = "import" => "import" \in Kinds
    /\ \A u \in TurnIds : u # o.turn => cand2[u] = cand[u]

(* Every operation begins with such locals, and builds at most a new turn.   *)
LEMMA StartBegins ==
    ASSUME NEW c \in Clients, Start(c),
           candidate \in [TurnIds -> Candidate \cup {None}]
    PROVE  /\ Stays(candidate, candidate')
           /\ \E o : Begin(c, o) /\ Fresh(o) /\ Brings(o, candidate, candidate')
<1>1. CASE StartLoad(c)
  <2>1. Stays(candidate, candidate')
    BY <1>1 DEF StartLoad, Stays
  <2>2. PICK t \in Threads :
          Begin(c, [Returned("none") EXCEPT !.pc = "read", !.kind = "load", !.at = t])
    BY <1>1 DEF StartLoad
  <2> DEFINE o == [Returned("none") EXCEPT !.pc = "read", !.kind = "load", !.at = t]
  <2>3. Fresh(o) /\ Brings(o, candidate, candidate')
    BY <1>1 DEF Fresh, Brings, Returned, StartLoad
  <2> HIDE DEF o
  <2> QED
    BY <2>1, <2>2, <2>3 DEF o
<1>2. CASE StartList(c)
  <2>1. Stays(candidate, candidate')
    BY <1>2 DEF StartList, Stays
  <2>2. PICK k \in Kinds \cap {"list", "inspect"} :
          Begin(c, [Returned("none") EXCEPT !.pc = "keys", !.kind = k])
    BY <1>2 DEF StartList
  <2> DEFINE o == [Returned("none") EXCEPT !.pc = "keys", !.kind = k]
  <2>3. Fresh(o) /\ Brings(o, candidate, candidate')
    BY <1>2 DEF Fresh, Brings, Returned, StartList
  <2> HIDE DEF o
  <2> QED
    BY <2>1, <2>2, <2>3 DEF o
<1>3. CASE StartRemove(c)
  <2>1. Stays(candidate, candidate')
    BY <1>3 DEF StartRemove, Stays
  <2>2. PICK t \in Threads : \E expected \in 0..(nextRev[t] - 1) :
          Begin(c, [Returned("none") EXCEPT
                      !.pc = "read", !.kind = "remove", !.at = t,
                      !.expected = expected])
    BY <1>3 DEF StartRemove
  <2>3. PICK expected \in 0..(nextRev[t] - 1) :
          Begin(c, [Returned("none") EXCEPT
                      !.pc = "read", !.kind = "remove", !.at = t,
                      !.expected = expected])
    BY <2>2
  <2> DEFINE o == [Returned("none") EXCEPT
                      !.pc = "read", !.kind = "remove", !.at = t,
                      !.expected = expected]
  <2>4. Fresh(o) /\ Brings(o, candidate, candidate')
    BY <1>3, <2>1 DEF Fresh, Brings, Returned, StartRemove
  <2> HIDE DEF o
  <2> QED
    BY <2>1, <2>3, <2>4 DEF o
<1>4. CASE StartImport(c)
  <2>1. Stays(candidate, candidate')
    BY <1>4 DEF StartImport, Stays
  <2>2. PICK replace \in BOOLEAN :
          Begin(c, [Returned("none") EXCEPT
                      !.pc = "loop", !.kind = "import", !.replace = replace,
                      !.todo = Threads])
    BY <1>4 DEF StartImport
  <2> DEFINE o == [Returned("none") EXCEPT
                      !.pc = "loop", !.kind = "import", !.replace = replace,
                      !.todo = Threads]
  <2>3. Fresh(o) /\ Brings(o, candidate, candidate')
    BY <1>4 DEF Fresh, Brings, Returned, StartImport
  <2> HIDE DEF o
  <2> QED
    BY <2>1, <2>2, <2>3 DEF o
<1>5. CASE StartCommit(c)
  <2>1. PICK t \in Threads, u \in TurnIds, create \in BOOLEAN :
          /\ \E expected \in IF create THEN {0} ELSE 0..(nextRev[t] - 1) :
               Begin(c, [Returned("none") EXCEPT
                           !.pc = "read", !.kind = "commit", !.at = t, !.turn = u,
                           !.expected = expected, !.create = create,
                           !.supplied = TurnSources[u]])
          /\ candidate' = IF candidate[u] # None THEN candidate
                          ELSE [candidate EXCEPT
                                  ![u] = [thread |-> t, finishedAt |-> now]]
    BY <1>5 DEF StartCommit
  <2>2. PICK expected \in IF create THEN {0} ELSE 0..(nextRev[t] - 1) :
          Begin(c, [Returned("none") EXCEPT
                      !.pc = "read", !.kind = "commit", !.at = t, !.turn = u,
                      !.expected = expected, !.create = create,
                      !.supplied = TurnSources[u]])
    BY <2>1
  <2>3. Stays(candidate, candidate')
    BY <2>1 DEF Stays
  <2> DEFINE o == [Returned("none") EXCEPT
                      !.pc = "read", !.kind = "commit", !.at = t, !.turn = u,
                      !.expected = expected, !.create = create,
                      !.supplied = TurnSources[u]]
  <2>4. Fresh(o) /\ Brings(o, candidate, candidate')
    BY <1>5, <2>1 DEF Fresh, Brings, Returned, StartCommit
  <2> HIDE DEF o
  <2> QED
    BY <2>2, <2>3, <2>4 DEF o
<1> QED
  BY <1>1, <1>2, <1>3, <1>4, <1>5 DEF Start

(* An operation begins: the second invariant holds afterwards.               *)
LEMMA StartSound ==
    ASSUME IInv, SInv, NEW c \in Clients, Start(c)
    PROVE  SInv'
<1>1. candidate \in [TurnIds -> Candidate \cup {None}]
  BY DEF IInv, Typed
<1>2. PICK o : Begin(c, o) /\ Fresh(o)
  BY <1>1, StartBegins
<1>3. Stays(candidate, candidate')
  BY <1>1, StartBegins
<1>4. UNCHANGED records /\ op' = [op EXCEPT ![c] = o]
  BY <1>2 DEF Begin
<1>5. Good(o, candidate')
  BY <1>2 DEF Fresh, Good, Sound
<1> QED
  BY <1>3, <1>4, <1>5, SoundStep

(* What an operation holds is not torn and it has met no corruption.         *)
Clean(o) ==
    /\ o.record = None \/ o.tomb = None
    /\ o.result # "integrity_failure"

(* The operation a shared step moves stays sound, and stays clean if it was. *)
LEMMA SharedStepsMove ==
    ASSUME IInv, SInv, NEW c \in Clients, Settle(c) \/ PickThread(c) \/ Interrupt(c)
    PROVE  \E p : /\ op' = [op EXCEPT ![c] = p] /\ Good(p, candidate)
                  /\ Clean(op[c]) => Clean(p)
<1> DEFINE o == op[c]
           Moves(p) == /\ op' = [op EXCEPT ![c] = p] /\ Good(p, candidate)
                       /\ Clean(o) => Clean(p)
<1>1. /\ o \in Op /\ Fits(o, candidate) /\ Good(o, candidate)
      /\ candidate \in [TurnIds -> Candidate \cup {None}]
  BY DEF IInv, SInv, Typed
<1>2. ASSUME NEW code \in Codes \ {"integrity_failure"},
             op' = [op EXCEPT ![c] = Returned(code)]
      PROVE  Moves(Returned(code))
  BY <1>2 DEF Returned, Good, Sound, Clean
<1>3. ASSUME Settle(c) PROVE \E p : Moves(p)
  <2>1. CASE /\ o.record # None /\ o.tomb # None
             /\ op' = [op EXCEPT ![c] = Returned("integrity_failure")]
    <3>1. ~Clean(o) /\ Good(Returned("integrity_failure"), candidate)
      BY <2>1 DEF Clean, Good, Sound, Returned
    <3> QED
      BY <2>1, <3>1
  <2>2. CASE op' = [op EXCEPT ![c] = [o EXCEPT !.pc = "purge",
                                         !.record = None, !.tomb = None]]
    <3> DEFINE p == [o EXCEPT !.pc = "purge", !.record = None, !.tomb = None]
    <3>1. p.record = None /\ p.result = o.result /\ p.pc = "purge"
      BY <1>1 DEF Op
    <3> HIDE DEF p
    <3>2. Good(p, candidate) /\ (Clean(o) => Clean(p))
      BY <1>1, <3>1 DEF Good, Sound, Clean
    <3> QED
      BY <2>2, <3>2 DEF p
  <2>3. CASE op' = [op EXCEPT ![c] = Decision(o)]
    <3>1. Good(Decision(o), candidate) /\ (Clean(o) => Clean(Decision(o)))
      BY <1>1, DecisionGood DEF Clean
    <3> QED
      BY <2>3, <3>1
  <2> QED
    BY <1>3, <2>1, <2>2, <2>3 DEF Settle
<1>4. ASSUME PickThread(c) PROVE \E p : Moves(p)
  <2>1. CASE op' = [op EXCEPT ![c] = Returned("ok")]
    BY <1>2, <2>1 DEF Codes
  <2>2. ASSUME NEW t \in o.todo,
               op' = [op EXCEPT ![c] = Reading([o EXCEPT !.at = t,
                                                  !.todo = o.todo \ {t}])]
        PROVE  \E p : Moves(p)
    <3> DEFINE p == Reading([o EXCEPT !.at = t, !.todo = o.todo \ {t}])
    <3>1. p.record = None /\ p.result = o.result /\ p.pc = "read"
      BY <1>1 DEF Op, Reading
    <3> HIDE DEF p
    <3>2. Good(p, candidate) /\ (Clean(o) => Clean(p))
      BY <1>1, <3>1 DEF Good, Sound, Clean
    <3> QED
      BY <2>2, <3>2 DEF p
  <2> QED
    BY <1>4, <2>1, <2>2 DEF PickThread
<1>5. ASSUME Interrupt(c) PROVE \E p : Moves(p)
  <2>1. op' = [op EXCEPT ![c] = Returned("storage_unavailable")]
    BY <1>5 DEF Interrupt
  <2> QED
    BY <1>2, <2>1 DEF Codes
<1> QED
  BY <1>3, <1>4, <1>5

(* The steps both adapters share keep the second invariant.                  *)
LEMMA SharedStepsSound ==
    ASSUME IInv, SInv, NEW c \in Clients, Settle(c) \/ PickThread(c) \/ Interrupt(c)
    PROVE  SInv'
<1>1. PICK p : op' = [op EXCEPT ![c] = p] /\ Good(p, candidate)
  BY SharedStepsMove
<1>2. UNCHANGED <<records, candidate>>
  BY DEF Settle, PickThread, Interrupt, storeVars
<1> QED
  BY <1>1, <1>2, SoundLocalStep

(* What follows a write that took place, and one that was refused.           *)
LEMMA AfterwardsGood ==
    ASSUME NEW o \in Op, NEW cand, Good(o, cand)
    PROVE  /\ Good(AfterWrite(o), cand) /\ (Clean(o) => Clean(AfterWrite(o)))
           /\ Good(AfterRefusal(o), cand) /\ (Clean(o) => Clean(AfterRefusal(o)))
<1>1. Good(NextThread(o), cand) /\ (Clean(o) => Clean(NextThread(o)))
  <2>1. /\ NextThread(o).pc = "loop" /\ NextThread(o).record = None
        /\ NextThread(o).result = o.result
    BY DEF NextThread, Op
  <2> QED
    BY <2>1 DEF Good, Sound, Clean
<1>2. Good(Returned("committed"), cand) /\ Clean(Returned("committed"))
  BY DEF Returned, Good, Sound, Clean
<1>3. /\ Good(Reading([o EXCEPT !.again = TRUE]), cand)
      /\ Clean(o) => Clean(Reading([o EXCEPT !.again = TRUE]))
  <2> DEFINE q == Reading([o EXCEPT !.again = TRUE])
  <2>1. q.pc = "read" /\ q.record = None /\ q.result = o.result
    BY DEF Reading, Op
  <2> HIDE DEF q
  <2>2. Good(q, cand) /\ (Clean(o) => Clean(q))
    BY <2>1 DEF Good, Sound, Clean
  <2> QED
    BY <2>2 DEF q
<1> QED
  BY <1>1, <1>2, <1>3 DEF AfterWrite, AfterRefusal

(* What a write puts in place is sound.                                      *)
LEMMA NewRecordSound ==
    ASSUME IInv, SInv, NEW c \in Clients, op[c].pc = "write"
    PROVE  Sound(NewRecord(op[c]), candidate)
<1> DEFINE o == op[c]
           new == NewRecord(o)
<1>1. /\ o \in Op /\ Fits(o, candidate) /\ Good(o, candidate)
      /\ candidate \in [TurnIds -> Candidate \cup {None}]
      /\ o.at \in Threads /\ o.kind \in {"commit", "import"}
  BY DEF IInv, SInv, Typed, Fits
<1>2. CASE o.kind = "import"
  <2> DEFINE kept == [Backup[o.at] EXCEPT !.updatedAt = o.time]
  <2>1. /\ new.turns = Backup[o.at].turns /\ new.catalog = Backup[o.at].catalog
        /\ new.updatedAt = o.time /\ new.createdAt = Backup[o.at].createdAt
        /\ new.archive = Backup[o.at].archive
    BY <1>2 DEF NewRecord, Imported
  <2>2. Backup[o.at] \in Thread
    BY <1>1, BaseAssumption
  <2>3. /\ kept.turns = new.turns /\ kept.catalog = new.catalog
        /\ kept.updatedAt = new.updatedAt /\ kept.createdAt = new.createdAt
        /\ kept.archive = new.archive
    BY <2>1, <2>2 DEF Thread
  <2>4. ValidThread(kept)
    BY <1>1, <1>2 DEF Good
  <2> HIDE DEF new, kept
  <2>5. ValidThread(new)
    BY <2>3, <2>4, SameThread
  <2>6. Attested(new.turns, candidate)
    BY <1>1, <2>1 DEF SInv, PastAttested
  <2> QED
    BY <2>5, <2>6 DEF Sound, new
<1>3. CASE o.kind = "commit"
  <2> DEFINE input == InputWith(o, candidate)
  <2>1. new = Extended(o.record, input, nextRev[o.at])
    BY <1>3 DEF NewRecord, InputOf, InputWith
  <2>2. /\ input.turn \in Turn /\ input.supplied \in Seq(Sources)
        /\ input.turn.id = o.turn /\ candidate[o.turn] # None
        /\ input.turn.finishedAt = candidate[o.turn].finishedAt
    BY <1>1, <1>3, InputTyped
  <2>3. /\ o.record # None => SameTurn(o.record, input.turn) = {}
        /\ ValidThread(Extended(o.record, input, 1))
    <3>1. Verdict(o.record, o.tomb # None, input) = "committed"
      BY <1>1, <1>3 DEF Good
    <3> HIDE DEF input
    <3> QED
      BY <3>1, CommittedMeans
  <2>4. /\ o.record \in Record \cup {None}
        /\ o.record # None => ValidThread(o.record) /\ Attested(o.record.turns, candidate)
    BY <1>1 DEF Op, Good, Sound
  <2> HIDE DEF input, o
  <2>5. ValidThread(new)
    <3> DEFINE next == Extended(o.record, input, 1)
    <3>1. /\ new.createdAt = next.createdAt /\ new.updatedAt = next.updatedAt
          /\ new.turns = next.turns /\ new.archive = next.archive
          /\ new.catalog = next.catalog
      BY <2>1 DEF Extended
    <3> HIDE DEF next, new
    <3> QED
      BY <2>3, <3>1, SameThread DEF next
  <2>6. CurrentTurns(o.record) \in Seq(Turn)
    BY <2>4, EmptySeq DEF CurrentTurns, Record
  <2>7. ToSet(new.turns) = ToSet(CurrentTurns(o.record)) \cup {input.turn}
    BY <2>1, <2>2, <2>6, InsertTurnKeeps DEF Extended
  <2>8. Attested(CurrentTurns(o.record), candidate)
    <3>1. CASE o.record = None
      BY <3>1 DEF CurrentTurns, Attested, ToSet
    <3>2. CASE o.record # None
      BY <2>4, <3>2 DEF CurrentTurns
    <3> QED
      BY <3>1, <3>2
  <2>9. Attested(new.turns, candidate)
    BY <2>2, <2>7, <2>8 DEF Attested
  <2> QED
    BY <2>5, <2>9 DEF Sound, o
<1> QED
  BY <1>1, <1>2, <1>3

(* A converted legacy record is sound.                                       *)
LEMMA ConvertedSound ==
    ASSUME NEW t \in Threads, NEW rev, NEW cand, PastAttested(t, cand)
    PROVE  Sound(Converted(t, rev), cand)
<1> DEFINE r == Converted(t, rev)
<1>1. /\ r.createdAt = Legacy[t].createdAt /\ r.updatedAt = Legacy[t].updatedAt
      /\ r.turns = Legacy[t].turns /\ r.archive = Legacy[t].archive
      /\ r.catalog = Legacy[t].catalog
  BY DEF Converted, AsConverted
<1>2. ValidThread(Legacy[t])
  BY BaseAssumption
<1> HIDE DEF r
<1>3. ValidThread(r)
  BY <1>1, <1>2, SameThread
<1>4. Attested(r.turns, cand)
  BY <1>1 DEF PastAttested
<1> QED
  BY <1>3, <1>4 DEF Sound, r

(* The second invariant holds initially.                                     *)
LEMMA InitSound ==
    ASSUME Init
    PROVE  SInv /\ \A c \in Clients : Clean(op[c])
<1>1. \A t \in Threads : Sound(records[t], candidate)
  BY DEF Init, Sound
<1>2. \A t \in Threads : PastAttested(t, candidate)
  <2>1. ASSUME NEW t \in Threads,
               NEW e \in ToSet(Backup[t].turns) \cup ToSet(Legacy[t].turns)
        PROVE  candidate[e.id] # None /\ candidate[e.id].finishedAt = e.finishedAt
    <3>1. /\ e.id \in TurnIds /\ PastCandidate(e.id) \in Candidate
          /\ PastCandidate(e.id).finishedAt = e.finishedAt
      BY PastTurn
    <3>2. candidate[e.id] = PastCandidate(e.id)
      BY <3>1 DEF Init
    <3> QED
      BY <3>1, <3>2, BaseAssumption
  <2> QED
    BY <2>1 DEF PastAttested, Attested
<1>3. \A c \in Clients : Good(op[c], candidate) /\ Clean(op[c])
  BY DEF Init, Returned, Good, Sound, Clean
<1> QED
  BY <1>1, <1>2, <1>3 DEF SInv

(* What the invariant says of the property.                                  *)
LEMMA SoundConsequence ==
    ASSUME IInv, SInv
    PROVE  BuildsValidThreads
<1> SUFFICES ASSUME NEW c \in Clients, op[c].kind = "commit",
                    Verdict(op[c].record, op[c].tomb # None, InputOf(op[c]))
                      = "schema_rejected"
             PROVE  ~Belongs(InputOf(op[c]).turn,
                             InsertTurn(CurrentTurns(op[c].record), InputOf(op[c]).turn))
  BY DEF BuildsValidThreads
<1>1. /\ Fits(op[c], candidate) /\ Sound(op[c].record, candidate)
      /\ candidate \in [TurnIds -> Candidate \cup {None}]
  BY DEF IInv, SInv, Good, Typed
<1>2. InputOf(op[c]) = InputWith(op[c], candidate)
  BY DEF InputOf, InputWith
<1> QED
  BY <1>1, <1>2, VerdictSound

(* What the decision of an operation leaves it to do.                         *)
LEMMA DecisionPc ==
    ASSUME NEW o \in Op
    PROVE  Decision(o).pc \in {"idle", "loop", "write", "bury"}
<1>1. NextThread(o).pc = "loop" /\ LoadDecision(o).pc = "idle"
  BY DEF NextThread, LoadDecision, Returned, Op
<1>2. \A code : Returned(code).pc = "idle"
  BY DEF Returned
<1>3. [o EXCEPT !.pc = "write"].pc = "write"
  BY DEF Op
<1>4. CommitDecision(o).pc \in {"idle", "write"}
  BY <1>2, <1>3 DEF CommitDecision
<1>5. RemoveDecision(o).pc \in {"idle", "bury"}
  <2>1. [o EXCEPT !.pc = "bury", !.time = now].pc = "bury"
    BY DEF Op
  <2> QED
    BY <1>2, <2>1 DEF RemoveDecision
<1>6. ImportDecision(o).pc \in {"loop", "write"}
  <2>1. [o EXCEPT !.pc = "write", !.time = now].pc = "write"
    BY DEF Op
  <2> QED
    BY <1>1, <2>1 DEF ImportDecision
<1>7. \/ Decision(o) = NextThread(o) \/ Decision(o) = LoadDecision(o)
      \/ Decision(o) = CommitDecision(o) \/ Decision(o) = RemoveDecision(o)
      \/ Decision(o) = ImportDecision(o)
  BY DEF Decision
<1> QED
  BY <1>1, <1>4, <1>5, <1>6, <1>7

-----------------------------------------------------------------------------
(* Steps of the adapters, seen as steps of ThreadHistory.  Each lemma gives  *)
(* one action its condition in terms of the stored values of a thread.       *)

(* The state of a thread, as ThreadHistory sees it.                          *)
LEMMA StateCases ==
    ASSUME NEW t
    PROVE  /\ records[t] # None => StateOf(t) = "live"
           /\ records[t] = None /\ tombs[t] # None => StateOf(t) = "deleted"
           /\ records[t] = None /\ tombs[t] = None => StateOf(t) = "absent"
           /\ records'[t] # None => StateOf(t)' = "live"
           /\ records'[t] = None /\ tombs'[t] # None => StateOf(t)' = "deleted"
           /\ records'[t] = None /\ tombs'[t] = None => StateOf(t)' = "absent"
           /\ (records'[t] = records[t] /\ tombs'[t] = tombs[t])
                => StateOf(t)' = StateOf(t)
<1>1. /\ records[t] # None => StateOf(t) = "live"
      /\ records[t] = None /\ tombs[t] # None => StateOf(t) = "deleted"
      /\ records[t] = None /\ tombs[t] = None => StateOf(t) = "absent"
  BY DEF StateOf
<1>2. /\ records'[t] # None => StateOf(t)' = "live"
      /\ records'[t] = None /\ tombs'[t] # None => StateOf(t)' = "deleted"
      /\ records'[t] = None /\ tombs'[t] = None => StateOf(t)' = "absent"
  BY DEF StateOf
<1> QED
  BY <1>1, <1>2

(* Every thread but t stays as it is.                                        *)
OthersStay(t) == \A u \in Threads \ {t} : records'[u] = records[u] /\ tombs'[u] = tombs[u]

(* A record that gives way to a tombstone is a removal.                      *)
LEMMA MapsRemove ==
    ASSUME NEW t \in Threads, OthersStay(t), UNCHANGED lapsed,
           records[t] # None, records'[t] = None, tombs'[t] # None
    PROVE  History!Remove(t)
<1>1. StateOf(t) = "live" /\ StateOf(t)' = "deleted"
  BY StateCases
<1>2. \A u \in Threads \ {t} : StateOf(u)' = StateOf(u)
  BY StateCases DEF OthersStay
<1>3. CurrentTurns(records'[t]) = <<>> /\ CurrentCatalog(records'[t]) = EmptyCatalog
  BY DEF CurrentTurns, CurrentCatalog
<1>4. ToSet(<<>>) = {}
  BY DEF ToSet
<1>5. History!Others(t)
  BY <1>2 DEF History!Others, OthersStay
<1> QED
  BY <1>1, <1>3, <1>4, <1>5 DEF History!Remove, EmptyCatalog, Ids

(* A record with the turns and sources of the backup is an import.           *)
LEMMA MapsImport ==
    ASSUME NEW t \in Threads, OthersStay(t), UNCHANGED lapsed,
           records'[t] # None, records'[t].turns = Backup[t].turns,
           records'[t].catalog = Backup[t].catalog
    PROVE  History!Import(t)
<1>1. StateOf(t)' = "live"
  BY StateCases
<1>2. \A u \in Threads \ {t} : StateOf(u)' = StateOf(u)
  BY StateCases DEF OthersStay
<1>3. /\ CurrentTurns(records'[t]) = Backup[t].turns
      /\ CurrentCatalog(records'[t]) = Backup[t].catalog
  BY DEF CurrentTurns, CurrentCatalog
<1>4. History!Others(t)
  BY <1>2 DEF History!Others, OthersStay
<1> QED
  BY <1>1, <1>3, <1>4 DEF History!Import, Held

(* A record with the turns and sources of the legacy record, where nothing   *)
(* was stored, is a migration.                                               *)
LEMMA MapsMigrate ==
    ASSUME NEW t \in Threads, OthersStay(t), UNCHANGED lapsed,
           records[t] = None, tombs[t] = None,
           records'[t] # None, records'[t].turns = Legacy[t].turns,
           records'[t].catalog = Legacy[t].catalog
    PROVE  History!Migrate(t)
<1>1. StateOf(t) = "absent" /\ StateOf(t)' = "live"
  BY StateCases
<1>2. \A u \in Threads \ {t} : StateOf(u)' = StateOf(u)
  BY StateCases DEF OthersStay
<1>3. /\ CurrentTurns(records'[t]) = Legacy[t].turns
      /\ CurrentCatalog(records'[t]) = Legacy[t].catalog
  BY DEF CurrentTurns, CurrentCatalog
<1>4. History!Others(t)
  BY <1>2 DEF History!Others, OthersStay
<1> QED
  BY <1>1, <1>3, <1>4 DEF History!Migrate, Migrated

(* A step that leaves every thread alone, or forgets some whose expiry was   *)
(* seen, retires them.                                                       *)
LEMMA MapsRetire ==
    ASSUME lapsed \subseteq lapsed', lapsed' \subseteq Threads,
           \A t \in Threads :
              \/ records'[t] = records[t] /\ tombs'[t] = tombs[t]
              \/ t \in lapsed' /\ records'[t] = None /\ tombs'[t] = None
    PROVE  History!Retire
<1> DEFINE Same(t) == /\ StateOf(t)' = StateOf(t)
                      /\ records'[t] = records[t]
           Gone(t) == /\ t \in lapsed' /\ StateOf(t)' = "absent"
                      /\ CurrentTurns(records'[t]) = <<>>
                      /\ CurrentCatalog(records'[t]) = EmptyCatalog
<1>1. ASSUME NEW t \in Threads PROVE Same(t) \/ Gone(t)
  <2>1. CASE records'[t] = records[t] /\ tombs'[t] = tombs[t]
    BY <2>1, StateCases
  <2>2. CASE t \in lapsed' /\ records'[t] = None /\ tombs'[t] = None
    BY <2>2, StateCases DEF CurrentTurns, CurrentCatalog
  <2> QED
    BY <2>1, <2>2
<1>2. ToSet(<<>>) = {}
  BY DEF ToSet
<1> QED
  BY <1>1, <1>2 DEF History!Retire, EmptyCatalog, Ids

(* The record that the terminal commit policy accepted admits one turn, and  *)
(* numbers new sources after those the thread had (commit-terminal-          *)
(* turn.ts:79-136).                                                          *)
LEMMA MapsAdmit ==
    ASSUME NEW t \in Threads, OthersStay(t), UNCHANGED lapsed,
           records[t] \in Record \cup {None},
           records[t] = None => tombs[t] = None,
           records[t] # None => ValidThread(records[t]),
           NEW input, input.turn \in Turn, input.supplied \in Seq(Sources),
           records[t] # None => SameTurn(records[t], input.turn) = {},
           SourcesClosed(records[t], input), NEW rev,
           records'[t] # None, records'[t] = Extended(records[t], input, rev)
    PROVE  History!Admit(t)
<1> DEFINE turns == CurrentTurns(records[t])
           catalog == CurrentCatalog(records[t])
           turns2 == InsertTurn(turns, input.turn)
           catalog2 == AdmitSources(catalog, input.supplied)
<1>1. StateOf(t) \in {"absent", "live"} /\ StateOf(t)' = "live"
  BY StateCases
<1>2. \A u \in Threads \ {t} : StateOf(u)' = StateOf(u)
  BY StateCases DEF OthersStay
<1>3. History!Others(t)
  BY <1>2 DEF History!Others, OthersStay
<1>4. CurrentTurns(records'[t]) = turns2 /\ CurrentCatalog(records'[t]) = catalog2
  BY DEF CurrentTurns, CurrentCatalog, Extended
<1>5. turns \in Seq(Turn) /\ catalog \in [Sources -> Nat]
  BY EmptySeq DEF CurrentTurns, CurrentCatalog, EmptyCatalog, Record
<1>6. Contiguous(catalog)
  BY CurrentWhole
<1>7. /\ input.turn.id \in TurnIds
      /\ \A e \in ToSet(turns) : e.id # input.turn.id
  <2>1. CASE records[t] = None
    BY <2>1 DEF CurrentTurns, ToSet, Turn
  <2>2. CASE records[t] # None
    BY <2>2 DEF CurrentTurns, ToSet, Turn, SameTurn
  <2> QED
    BY <2>1, <2>2
<1>8. ToSet(turns2) = ToSet(turns) \cup {input.turn}
  BY <1>5, InsertTurnKeeps
<1>9. Cardinality(ToSet(input.supplied)) = Len(input.supplied) /\ Contiguous(catalog)
  BY <1>6 DEF SourcesClosed
<1> HIDE DEF turns, catalog, turns2
<1>10. /\ \A s \in Admitted(catalog2) \ Admitted(catalog) :
             catalog2[s] > Cardinality(Admitted(catalog))
       /\ \A s \in Admitted(catalog) : catalog2[s] = catalog[s]
       /\ catalog2 \in [Sources -> Nat]
  <2>1. catalog2 = AdmitSources(catalog, input.supplied)
    OBVIOUS
  <2> HIDE DEF catalog2
  <2> QED
    BY <1>5, <1>9, <2>1, AdmitSourcesNumbers, AdmitSourcesKeeps
<1> HIDE DEF catalog2
<1>11. ASSUME NEW s \in Sources, catalog[s] = 0, catalog2[s] # 0, NEW r \in Sources
       PROVE  catalog[r] < catalog2[s]
  <2> DEFINE m == Cardinality(Admitted(catalog))
  <2>1. m \in Nat
    <3>1. Admitted(catalog) \in SUBSET Sources
      BY DEF Admitted
    <3> QED
      BY <3>1, SourcesAssumption, FS_Subset, FS_CardinalityType
  <2>2. catalog2[s] > m /\ catalog2[s] \in Nat
    BY <1>10, <1>11 DEF Admitted
  <2>3. catalog[r] <= m /\ catalog[r] \in Nat
    <3>1. CASE catalog[r] = 0
      BY <2>1, <3>1
    <3>2. CASE catalog[r] # 0
      <4>1. catalog[r] \in 1..m
        BY <1>9, <3>2 DEF Contiguous, Admitted
      <4> QED
        BY <2>1, <4>1
    <3> QED
      BY <3>1, <3>2
  <2> HIDE DEF m
  <2> QED
    BY <2>1, <2>2, <2>3
<1>12. \A s \in Sources :
         IF catalog[s] # 0 THEN catalog2[s] = catalog[s]
         ELSE \A r \in Sources : catalog2[s] # 0 => catalog[r] < catalog2[s]
  BY <1>10, <1>11 DEF Admitted
<1>13. /\ input.turn.id \in TurnIds \ {e.id : e \in ToSet(turns)}
       /\ {e.id : e \in ToSet(turns2)} = {e.id : e \in ToSet(turns)} \cup {input.turn.id}
  BY <1>7, <1>8
<1> QED
  BY <1>1, <1>3, <1>4, <1>12, <1>13 DEF History!Admit, turns, catalog, Ids
=============================================================================
