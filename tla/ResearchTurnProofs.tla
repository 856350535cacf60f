------------------------- MODULE ResearchTurnProofs -------------------------
(***************************************************************************)
(* The two ends of a research turn: the answer that is parsed from a       *)
(* stream, however it is cut into chunks, and the context that the thread  *)
(* contributes, whatever its turns are.                                    *)
(***************************************************************************)
EXTENDS KnowledgeProofs

-----------------------------------------------------------------------------
(* The parser.  What it makes of a place of a text.                          *)
Parts == [kind : {"text", "citation"}, at : Int]
Outs == [parts : Seq(Parts), buffer : Seq(Int)]

MarkerAt(t, p) == p + 2 <= Len(t) /\ t[p] = Open /\ t[p + 1] = Open /\ t[p + 2] = Cite
ClosedAt(t, p) == p + 1 <= Len(t) /\ t[p] = Close /\ t[p + 1] = Close

Step(buffer, final, allowed, from, i) ==
    LET n == Len(buffer)
        Source(start, end) ==
            IF end = start + Len(Marker) + 1 /\ buffer[end - 1] \in allowed
            THEN <<Citation(buffer[end - 1])>>
            ELSE AsText(SubSeq(buffer, start, end + 1))
        start == IndexOf(buffer, Marker, i)
        end == IndexOf(buffer, <<Close, Close>>, start + Len(Marker))
        kept == IF final THEN 0 ELSE Held(SubSeq(buffer, i, n))
        before == AsText(SubSeq(buffer, i, start - 1))
    IN IF start = 0
       THEN [parts |-> AsText(SubSeq(buffer, i, n - kept)),
             buffer |-> SubSeq(buffer, n - kept + 1, n)]
       ELSE IF end = 0
       THEN [parts |-> IF final THEN before \o AsText(SubSeq(buffer, i, n))
                                ELSE before,
             buffer |-> IF final THEN <<>> ELSE SubSeq(buffer, start, n)]
       ELSE [parts |-> before \o Source(start, end) \o from[end + 2].parts,
             buffer |-> from[end + 2].buffer]

Drained(buffer, final, allowed) ==
    CHOOSE from : from = [i \in 1..(Len(buffer) + 1) |-> Step(buffer, final, allowed, from, i)]

(* Drain is the first value of the function that its loop computes, from the *)
(* last place of the buffer to the first.                                    *)
LEMMA DrainUnfolds ==
    ASSUME NEW buffer, NEW final, NEW allowed
    PROVE  Drain(buffer, final, allowed) = Drained(buffer, final, allowed)[1]
BY DEF Drain, Drained, Step

(* The first place of a pattern, if any, from a place on.                    *)
LEMMA IndexIs ==
    ASSUME NEW t, NEW pattern, NEW m \in Nat, NEW n \in Nat, n = Len(t), m # 0
    PROVE  \/ /\ IndexOf(t, pattern, m) = 0
              /\ \A p \in m..n : ~IsAt(t, pattern, p)
           \/ /\ IndexOf(t, pattern, m) \in m..n
              /\ IsAt(t, pattern, IndexOf(t, pattern, m))
              /\ \A p \in m..(IndexOf(t, pattern, m) - 1) : ~IsAt(t, pattern, p)
<1> DEFINE P == {p \in m..n : IsAt(t, pattern, p)}
           Good(i) == IsAt(t, pattern, i) /\ \A j \in m..(i - 1) : ~IsAt(t, pattern, j)
<1>1. CASE P = {}
  BY <1>1 DEF IndexOf
<1>2. CASE P # {}
  <2>1. P \in SUBSET Nat
    OBVIOUS
  <2>2. PICK i \in P : \A k \in P : i <= k
    <3> HIDE DEF P
    <3> QED BY <1>2, <2>1, HasLeast
  <2>3. i \in m..n /\ Good(i)
    <3> SUFFICES ASSUME NEW j \in m..(i - 1) PROVE j \notin P
      BY <2>2
    <3> QED
      BY <2>1, <2>2
  <2>4. IndexOf(t, pattern, m) = CHOOSE j \in m..n : Good(j)
    BY <2>3 DEF IndexOf
  <2> HIDE DEF Good
  <2>5. IndexOf(t, pattern, m) \in m..n /\ Good(IndexOf(t, pattern, m))
    BY <2>3, <2>4
  <2> QED
    BY <2>5 DEF Good
<1> QED
  BY <1>1, <1>2

(* Where a marker is, and where it is closed.                                *)
LEMMA MarkerIs ==
    ASSUME NEW t \in Seq(Int), NEW p \in Nat, p # 0
    PROVE  /\ IsAt(t, Marker, p) <=> MarkerAt(t, p)
           /\ IsAt(t, <<Close, Close>>, p) <=> ClosedAt(t, p)
<1>1. Len(Marker) = 3 /\ Marker[1] = Open /\ Marker[2] = Open /\ Marker[3] = Cite
      /\ Marker \in Seq(Int)
  BY DEF Marker, Open, Cite
<1>2. ASSUME p + 2 <= Len(t)
      PROVE  SubSeq(t, p, p + 2) = Marker <=> MarkerAt(t, p)
  <2> PICK u : u = SubSeq(t, p, p + 2)
    OBVIOUS
  <2>1. u \in Seq(Int) /\ Len(u) = 3 /\ u[1] = t[p] /\ u[2] = t[p + 1] /\ u[3] = t[p + 2]
    BY <1>2
  <2>2. u = Marker <=> u[1] = Marker[1] /\ u[2] = Marker[2] /\ u[3] = Marker[3]
    <3>1. ASSUME u[1] = Marker[1], u[2] = Marker[2], u[3] = Marker[3]
          PROVE  u = Marker
      <4>1. ASSUME NEW i \in 1..3 PROVE u[i] = Marker[i]
        <5>1. i = 1 \/ i = 2 \/ i = 3
          OBVIOUS
        <5> HIDE DEF Marker
        <5> QED
          BY ONLY <3>1, <5>1
      <4> QED
        BY <1>1, <2>1, <4>1, SeqEqual
    <3> QED
      BY <3>1
  <2> QED
    BY <1>1, <1>2, <2>1, <2>2 DEF MarkerAt
<1>3. IsAt(t, Marker, p) <=> p + 2 <= Len(t) /\ SubSeq(t, p, p + 2) = Marker
  <2>1. p + Len(Marker) - 1 = p + 2
    BY <1>1
  <2> QED
    BY <2>1 DEF IsAt
<1>4. ASSUME p + 1 <= Len(t)
      PROVE  SubSeq(t, p, p + 1) = <<Close, Close>> <=> ClosedAt(t, p)
  <2> PICK u : u = SubSeq(t, p, p + 1)
    OBVIOUS
  <2>1. u \in Seq(Int) /\ Len(u) = 2
    BY <1>4
  <2>2. u[1] = t[p] /\ u[2] = t[p + 1]
    <3>1. \A i \in p..(p + 1) : t[i] \in Int
      BY <1>4
    <3>2. \A i \in 1..((p + 1) - p + 1) : u[i] = t[p + i - 1]
      BY <3>1, SubSeqProperties
    <3>3. u[1] = t[p + 1 - 1] /\ u[2] = t[p + 2 - 1]
      BY <3>2
    <3> QED
      BY <3>3
  <2>3. u = <<Close, Close>> <=> u[1] = Close /\ u[2] = Close
    <3> PICK v, c : c = Close /\ v = <<c, c>>
      OBVIOUS
    <3>1. v \in Seq(Int) /\ Len(v) = 2 /\ v[1] = c /\ v[2] = c
      BY DEF Close
    <3> SUFFICES ASSUME u[1] = c, u[2] = c
                 PROVE  u = v
      BY <3>1
    <3>2. \A i \in 1..2 : u[i] = v[i]
      BY <3>1
    <3> QED
      BY <2>1, <3>1, <3>2, SeqEqual
  <2> QED
    BY <1>4, <2>2, <2>3 DEF ClosedAt
<1>5. IsAt(t, <<Close, Close>>, p) <=> p + 1 <= Len(t) /\ SubSeq(t, p, p + 1) = <<Close, Close>>
  <2>1. p + Len(<<Close, Close>>) - 1 = p + 1
    OBVIOUS
  <2> QED
    BY <2>1 DEF IsAt
<1> QED
  BY <1>2, <1>3, <1>4, <1>5 DEF MarkerAt, ClosedAt

(* What is held back of a text is the open brackets that it ends with, two   *)
(* at most.                                                                  *)
Brackets(u, n) ==
    IF n >= 2 /\ u[n - 1] = Open /\ u[n] = Open THEN 2
    ELSE IF n >= 1 /\ u[n] = Open THEN 1 ELSE 0

(* The first two characters of a text.                                       *)
LEMMA FirstTwo ==
    ASSUME NEW m \in Seq(Int), Len(m) = 3
    PROVE  /\ SubSeq(m, 1, 2) \in Seq(Int) /\ Len(SubSeq(m, 1, 2)) = 2
           /\ SubSeq(m, 1, 2)[1] = m[1] /\ SubSeq(m, 1, 2)[2] = m[2]
OBVIOUS

(* The last characters of a text compared with the beginning of a marker,    *)
(* one by one.                                                               *)
LEMMA EndingIs ==
    ASSUME NEW u \in Seq(Int), NEW n \in Nat, n = Len(u)
    PROVE  /\ SubSeq(u, n - 0 + 1, n) = SubSeq(Marker, 1, 0)
           /\ n >= 1 => (SubSeq(u, n - 1 + 1, n) = SubSeq(Marker, 1, 1) <=> u[n] = Open)
           /\ n >= 2 => (SubSeq(u, n - 2 + 1, n) = SubSeq(Marker, 1, 2)
                             <=> u[n - 1] = Open /\ u[n] = Open)
<1>1. SubSeq(u, n - 0 + 1, n) = <<>> /\ SubSeq(Marker, 1, 0) = <<>>
  BY SubSeqEmpty
<1> PICK m : m = Marker
  OBVIOUS
<1>2. m \in Seq(Int) /\ Len(m) = 3 /\ m[1] = Open /\ m[2] = Open
  BY DEF Marker, Open, Cite
<1>3. ASSUME n >= 1
      PROVE  SubSeq(u, n - 1 + 1, n) = SubSeq(m, 1, 1) <=> u[n] = Open
  <2> PICK a, b : a = SubSeq(u, n - 1 + 1, n) /\ b = SubSeq(m, 1, 1)
    OBVIOUS
  <2>1. a \in Seq(Int) /\ Len(a) = 1 /\ a[1] = u[n]
    BY <1>3
  <2>2. b \in Seq(Int) /\ Len(b) = 1 /\ b[1] = Open
    BY <1>2
  <2>3. a = b <=> a[1] = b[1]
    <3> SUFFICES ASSUME a[1] = b[1] PROVE a = b
      OBVIOUS
    <3>1. \A i \in 1..1 : a[i] = b[i]
      OBVIOUS
    <3> QED
      BY <2>1, <2>2, <3>1, SeqEqual
  <2> QED
    BY <2>1, <2>2, <2>3
<1>4. ASSUME n >= 2
      PROVE  SubSeq(u, n - 2 + 1, n) = SubSeq(m, 1, 2) <=> u[n - 1] = Open /\ u[n] = Open
  <2> PICK a, b : a = SubSeq(u, n - 2 + 1, n) /\ b = SubSeq(m, 1, 2)
    OBVIOUS
  <2>1. a \in Seq(Int) /\ Len(a) = 2 /\ a[1] = u[n - 1] /\ a[2] = u[n]
    BY <1>4
  <2>2. b \in Seq(Int) /\ Len(b) = 2 /\ b[1] = Open /\ b[2] = Open
    BY <1>2, FirstTwo
  <2>3. a = b <=> a[1] = b[1] /\ a[2] = b[2]
    <3> SUFFICES ASSUME a[1] = b[1], a[2] = b[2] PROVE a = b
      OBVIOUS
    <3>1. \A i \in 1..2 : a[i] = b[i]
      OBVIOUS
    <3> QED
      BY <2>1, <2>2, <3>1, SeqEqual
  <2> QED
    BY <2>1, <2>2, <2>3
<1> QED
  BY <1>1, <1>3, <1>4

(* What is held back at the end of a text are its last open brackets, two at *)
(* most.                                                                     *)
LEMMA HeldIs ==
    ASSUME NEW u \in Seq(Int), NEW n \in Nat, n = Len(u)
    PROVE  Held(u) = Brackets(u, n)
<1> DEFINE Ending(k) == SubSeq(u, n - k + 1, n) = SubSeq(Marker, 1, k)
           most == Shortest(n)
           Good(k) == Ending(k) /\ \A m \in (k + 1)..most : ~Ending(m)
<1>1. Held(u) = CHOOSE k \in 0..most : Good(k)
  BY DEF Held
<1>2. /\ Ending(0)
      /\ n >= 1 => (Ending(1) <=> u[n] = Open)
      /\ n >= 2 => (Ending(2) <=> u[n - 1] = Open /\ u[n] = Open)
  BY EndingIs
<1>3. most \in {0, 1, 2} /\ (most = 0 <=> n = 0) /\ (most = 1 <=> n = 1)
  <2>1. Len(Marker) = 3
    BY DEF Marker
  <2> QED
    BY <2>1 DEF Shortest
<1> HIDE DEF Ending, most
<1> PICK b : b = Brackets(u, n)
  OBVIOUS
<1>4. b \in 0..most /\ Good(b)
  BY <1>2, <1>3 DEF Brackets
<1>5. ASSUME NEW k \in 0..most, Good(k) PROVE k = b
  BY <1>2, <1>3, <1>5 DEF Brackets
<1> HIDE DEF Good
<1> QED
  BY <1>1, <1>4, <1>5

(* Of the end of a text, from a place on.                                    *)
HeldFrom(t, i) ==
    IF i + 1 <= Len(t) /\ t[Len(t) - 1] = Open /\ t[Len(t)] = Open THEN 2
    ELSE IF i <= Len(t) /\ t[Len(t)] = Open THEN 1 ELSE 0

(* The same for the end of a text read from a place on.                      *)
LEMMA HeldFromIs ==
    ASSUME NEW t \in Seq(Int), NEW i \in 1..(Len(t) + 1)
    PROVE  Held(SubSeq(t, i, Len(t))) = HeldFrom(t, i)
<1> PICK n \in Nat : n = Len(t)
  OBVIOUS
<1> PICK u : u = SubSeq(t, i, n)
  OBVIOUS
<1>1. u \in Seq(Int) /\ Len(u) = n - i + 1 /\ n - i + 1 \in Nat
  OBVIOUS
<1>2. \A k \in 1..(n - i + 1) : u[k] = t[i + k - 1]
  OBVIOUS
<1>3. i <= n => u[n - i + 1] = t[n]
  BY <1>2
<1>4. i + 1 <= n => u[(n - i + 1) - 1] = t[n - 1]
  <2> HAVE i + 1 <= n
  <2> PICK k : k = n - i
    OBVIOUS
  <2>1. k \in 1..(n - i + 1) /\ i + k - 1 = n - 1 /\ (n - i + 1) - 1 = k
    OBVIOUS
  <2>2. u[k] = t[i + k - 1]
    BY <1>2, <2>1
  <2> QED
    BY <2>1, <2>2
<1>5. Held(u) = Brackets(u, n - i + 1)
  BY <1>1, HeldIs
<1> QED
  BY <1>3, <1>4, <1>5 DEF Brackets, HeldFrom

(* A step of the loop, with the next marker at s and its end at e, or 0.     *)
NextMarker(t, i, s) ==
    \/ s = 0 /\ \A p \in i..Len(t) : ~MarkerAt(t, p)
    \/ s \in i..Len(t) /\ MarkerAt(t, s) /\ \A p \in i..(s - 1) : ~MarkerAt(t, p)
NextClose(t, i, e) ==
    \/ e = 0 /\ \A p \in i..Len(t) : ~ClosedAt(t, p)
    \/ e \in i..Len(t) /\ ClosedAt(t, e) /\ \A p \in i..(e - 1) : ~ClosedAt(t, p)

Token(t, allowed, s, e) ==
    IF e = s + 4 /\ t[e - 1] \in allowed THEN <<Citation(t[e - 1])>>
    ELSE AsText(SubSeq(t, s, e + 1))

StepAt(t, final, allowed, from, i, s, e) ==
    LET n == Len(t)
        kept == IF final THEN 0 ELSE HeldFrom(t, i)
        before == AsText(SubSeq(t, i, s - 1))
    IN IF s = 0
       THEN [parts |-> AsText(SubSeq(t, i, n - kept)), buffer |-> SubSeq(t, n - kept + 1, n)]
       ELSE IF e = 0
       THEN [parts |-> IF final THEN before \o AsText(SubSeq(t, i, n)) ELSE before,
             buffer |-> IF final THEN <<>> ELSE SubSeq(t, s, n)]
       ELSE [parts |-> before \o Token(t, allowed, s, e) \o from[e + 2].parts,
             buffer |-> from[e + 2].buffer]

(* A step of the loop depends on the next marker and on where it closes.     *)
LEMMA Stepping ==
    ASSUME NEW t \in Seq(Int), NEW final, NEW allowed, NEW i \in 1..(Len(t) + 1)
    PROVE  \E s, e \in Nat :
              /\ NextMarker(t, i, s) /\ (s # 0 => NextClose(t, s + 3, e))
              /\ \A from : Step(t, final, allowed, from, i)
                               = StepAt(t, final, allowed, from, i, s, e)
<1> PICK n \in Nat : n = Len(t)
  OBVIOUS
<1> PICK s : s = IndexOf(t, Marker, i)
  OBVIOUS
<1>1. s \in Nat /\ NextMarker(t, i, s)
  <2>1. \A p \in i..n : IsAt(t, Marker, p) <=> MarkerAt(t, p)
    BY MarkerIs
  <2>2. \/ s = 0 /\ \A p \in i..n : ~IsAt(t, Marker, p)
        \/ s \in i..n /\ IsAt(t, Marker, s) /\ \A p \in i..(s - 1) : ~IsAt(t, Marker, p)
    BY IndexIs
  <2>3. s \in i..n => \A p \in i..(s - 1) : p \in i..n
    OBVIOUS
  <2> QED
    BY <2>1, <2>2, <2>3 DEF NextMarker
<1>2. Len(Marker) = 3
  BY DEF Marker
<1> PICK e : e = IndexOf(t, <<Close, Close>>, s + 3)
  OBVIOUS
<1>3. e \in Nat /\ NextClose(t, s + 3, e)
  <2> PICK m \in Nat : m = s + 3 /\ m # 0
    BY <1>1
  <2> PICK pattern : pattern = <<Close, Close>>
    OBVIOUS
  <2>1. \A p \in m..n : IsAt(t, pattern, p) <=> ClosedAt(t, p)
    <3> SUFFICES ASSUME NEW p \in m..n
                 PROVE  IsAt(t, <<Close, Close>>, p) <=> ClosedAt(t, p)
      OBVIOUS
    <3>1. p \in Nat /\ p # 0
      OBVIOUS
    <3> QED
      BY <3>1, MarkerIs
  <2>2. \/ e = 0 /\ \A p \in m..n : ~IsAt(t, pattern, p)
        \/ e \in m..n /\ IsAt(t, pattern, e) /\ \A p \in m..(e - 1) : ~IsAt(t, pattern, p)
    BY IndexIs
  <2>3. e \in m..n => \A p \in m..(e - 1) : p \in m..n
    OBVIOUS
  <2>4. NextClose(t, m, e)
    BY ONLY n = Len(t), <2>1, <2>2, <2>3 DEF NextClose
  <2>5. e \in Nat
    BY <2>2
  <2> QED
    BY <2>4, <2>5
<1>4. Held(SubSeq(t, i, n)) = HeldFrom(t, i)
  BY HeldFromIs
<1>5. ASSUME NEW from
      PROVE  Step(t, final, allowed, from, i) = StepAt(t, final, allowed, from, i, s, e)
  <2>1. s + Len(Marker) + 1 = s + 4 /\ s + Len(Marker) = s + 3
    BY <1>1, <1>2
  <2> HIDE DEF Marker
  <2> QED
    BY <1>4, <2>1 DEF Step, StepAt, Token
<1> QED
  BY <1>1, <1>3, <1>5

Regroups(a, b, c, d) ==
    /\ (a \o b) \o c = a \o (b \o c)
    /\ ((a \o b) \o c) \o d = a \o ((b \o c) \o d)

Joined(a, b) == a \o b

(* Joining sequences is associative,                                         *)
LEMMA Associative ==
    \A T : \A s, t, u \in Seq(T) : Joined(Joined(s, t), u) = Joined(s, Joined(t, u))
BY ConcatAssociative DEF Joined

(* so four sequences joined in either grouping are the same.                 *)
LEMMA Regrouped ==
    ASSUME NEW S, NEW a \in Seq(S), NEW b \in Seq(S), NEW c \in Seq(S), NEW d \in Seq(S)
    PROVE  Regroups(a, b, c, d)
<1>1. Joined(b, c) \in Seq(S)
  BY DEF Joined
<1>2. Joined(Joined(a, b), c) = Joined(a, Joined(b, c))
  BY Associative
<1>3. Joined(Joined(a, Joined(b, c)), d) = Joined(a, Joined(Joined(b, c), d))
  BY <1>1, Associative
<1>4. Joined(Joined(Joined(a, b), c), d) = Joined(a, Joined(Joined(b, c), d))
  BY ONLY <1>2, <1>3
<1> QED
  BY ONLY <1>2, <1>4 DEF Regroups, Joined

(* A text of characters that are all text,                                   *)
LEMMA AsTextIs ==
    ASSUME NEW s \in Seq(Int)
    PROVE  /\ AsText(s) \in Seq(Parts) /\ Len(AsText(s)) = Len(s)
           /\ \A i \in 1..Len(s) : AsText(s)[i] = Text(s[i])
<1> PICK n \in Nat : n = Len(s)
  OBVIOUS
<1>1. DOMAIN s = 1..n /\ \A i \in 1..n : s[i] \in Int
  OBVIOUS
<1>2. \A x \in Int : Text(x) \in Parts
  BY DEF Text, Parts
<1>3. AsText(s) = [i \in 1..n |-> Text(s[i])]
  BY <1>1 DEF AsText
<1> HIDE DEF Text
<1> QED
  BY <1>1, <1>2, <1>3

(* in two pieces.                                                            *)
LEMMA AsTextSplits ==
    ASSUME NEW a \in Seq(Int), NEW b \in Seq(Int)
    PROVE  AsText(a \o b) = AsText(a) \o AsText(b)
<1> PICK m \in Nat, n \in Nat : m = Len(a) /\ n = Len(b)
  OBVIOUS
<1>1. a \o b \in Seq(Int) /\ Len(a \o b) = m + n
      /\ \A i \in 1..(m + n) : (a \o b)[i] = IF i <= m THEN a[i] ELSE b[i - m]
  BY ConcatProperties
<1> PICK c, x, y, z : c = a \o b /\ x = AsText(a) /\ y = AsText(b) /\ z = AsText(c)
  OBVIOUS
<1>2. /\ x \in Seq(Parts) /\ Len(x) = m /\ \A i \in 1..m : x[i] = Text(a[i])
      /\ y \in Seq(Parts) /\ Len(y) = n /\ \A i \in 1..n : y[i] = Text(b[i])
      /\ z \in Seq(Parts) /\ Len(z) = m + n /\ \A i \in 1..(m + n) : z[i] = Text(c[i])
  BY <1>1, AsTextIs
<1>3. x \o y \in Seq(Parts) /\ Len(x \o y) = m + n
      /\ \A i \in 1..(m + n) : (x \o y)[i] = IF i <= m THEN x[i] ELSE y[i - m]
  <2>1. x \in Seq(Parts) /\ y \in Seq(Parts) /\ Len(x) = m /\ Len(y) = n
    BY <1>2
  <2> QED
    BY ONLY <2>1, ConcatProperties
<1>4. ASSUME NEW i \in 1..(m + n) PROVE (x \o y)[i] = z[i]
  <2>1. CASE i <= m
    BY <1>1, <1>2, <1>3, <2>1
  <2>2. CASE ~(i <= m)
    <3> PICK j : j = i - m
      OBVIOUS
    <3>1. j \in 1..n
      BY ONLY <2>2, i \in 1..(m + n), m \in Nat, n \in Nat, j = i - m
    <3>2. (x \o y)[i] = y[j] /\ c[i] = b[j]
      BY <1>1, <1>3, <2>2
    <3>3. y[j] = Text(b[j]) /\ z[i] = Text(c[i])
      BY <1>2, <3>1
    <3> QED
      BY ONLY <3>2, <3>3
  <2> QED
    BY <2>1, <2>2
<1> QED
  BY <1>2, <1>3, <1>4, SeqEqual

(* Two adjacent stretches of a text joined are the one stretch.              *)
LEMMA SubText ==
    ASSUME NEW t \in Seq(Int), NEW i \in 1..(Len(t) + 1), NEW k \in i..(Len(t) + 1),
           NEW j \in (k - 1)..Len(t)
    PROVE  /\ SubSeq(t, i, k - 1) \in Seq(Int) /\ SubSeq(t, k, j) \in Seq(Int)
           /\ SubSeq(t, i, j) \in Seq(Int)
           /\ SubSeq(t, i, k - 1) \o SubSeq(t, k, j) = SubSeq(t, i, j)
           /\ AsText(SubSeq(t, i, k - 1)) \o AsText(SubSeq(t, k, j)) = AsText(SubSeq(t, i, j))
<1> PICK n \in Nat : n = Len(t)
  OBVIOUS
<1>1. SubSeq(t, i, k - 1) \in Seq(Int) /\ SubSeq(t, k, j) \in Seq(Int)
      /\ SubSeq(t, i, j) \in Seq(Int)
  OBVIOUS
<1>2. SubSeq(t, i, k - 1) \o SubSeq(t, k, j) = SubSeq(t, i, j)
  <2> PICK m : m = k - 1
    OBVIOUS
  <2>1. m \in (i - 1)..n /\ j \in m..n /\ m + 1 = k
    OBVIOUS
  <2>2. SubSeq(t, i, m) \o SubSeq(t, m + 1, j) = SubSeq(t, i, j)
    BY <2>1, ConcatAdjacentSubSeq
  <2> QED
    BY <2>1, <2>2
<1> QED
  BY <1>1, <1>2, AsTextSplits

(* A step goes on behind what it reads,                                      *)
LEMMA StepGoes ==
    ASSUME NEW t \in Seq(Int), NEW i \in 1..(Len(t) + 1), NEW s \in Nat, NEW e \in Nat,
           NextMarker(t, i, s), s # 0 => NextClose(t, s + 3, e)
    PROVE  /\ s # 0 => s \in i..Len(t) /\ s + 2 <= Len(t) /\ MarkerAt(t, s)
           /\ s # 0 /\ e # 0 => /\ e \in (s + 3)..Len(t) /\ e + 1 <= Len(t)
                                /\ e + 2 \in (i + 1)..(Len(t) + 1) /\ ClosedAt(t, e)
<1> PICK n \in Nat : n = Len(t)
  OBVIOUS
<1>1. s # 0 => s \in i..n /\ s + 2 <= n /\ MarkerAt(t, s)
  BY DEF NextMarker, MarkerAt
<1>2. ASSUME s # 0, e # 0 PROVE e \in (s + 3)..n /\ e + 1 <= n /\ ClosedAt(t, e)
  BY <1>2 DEF NextClose, ClosedAt
<1>3. ASSUME s # 0, e # 0 PROVE e + 2 \in (i + 1)..(n + 1)
  BY <1>1, <1>2, <1>3
<1> QED
  BY <1>1, <1>2, <1>3

(* and makes parts and characters.                                           *)
LEMMA TokenType ==
    ASSUME NEW t \in Seq(Int), NEW allowed, NEW s \in 1..Len(t), NEW e \in s..Len(t),
           e + 1 <= Len(t)
    PROVE  Token(t, allowed, s, e) \in Seq(Parts)
<1>1. SubSeq(t, s, e + 1) \in Seq(Int)
  OBVIOUS
<1>2. AsText(SubSeq(t, s, e + 1)) \in Seq(Parts)
  BY <1>1, AsTextIs
<1>3. ASSUME e = s + 4 PROVE <<Citation(t[e - 1])>> \in Seq(Parts)
  <2>1. t[e - 1] \in Int
    BY <1>3
  <2>2. Citation(t[e - 1]) \in Parts
    BY <2>1 DEF Citation, Parts
  <2> QED
    BY <2>2
<1> QED
  BY <1>2, <1>3 DEF Token

(* A step of the loop makes parts and leaves characters.                     *)
LEMMA StepType ==
    ASSUME NEW t \in Seq(Int), NEW i \in 1..(Len(t) + 1), NEW s \in Nat, NEW e \in Nat,
           NextMarker(t, i, s), s # 0 => NextClose(t, s + 3, e),
           NEW final, NEW allowed, NEW from,
           s # 0 /\ e # 0 => from[e + 2] \in Outs
    PROVE  StepAt(t, final, allowed, from, i, s, e) \in Outs
<1> PICK n \in Nat : n = Len(t)
  OBVIOUS
<1>1. \A x \in Seq(Parts), y \in Seq(Int) : [parts |-> x, buffer |-> y] \in Outs
  BY DEF Outs
<1>2. /\ s # 0 => s \in i..n
      /\ s # 0 /\ e # 0 => e \in (s + 3)..n /\ e + 1 <= n
  BY StepGoes
<1>3. \A j \in Int, k \in 0..n : j >= 1 => SubSeq(t, j, k) \in Seq(Int)
  OBVIOUS
<1>4. <<>> \in Seq(Int) /\ SubSeq(t, i, n) \in Seq(Int)
      /\ AsText(SubSeq(t, i, n)) \in Seq(Parts)
  <2>1. <<>> \in Seq(Int) /\ SubSeq(t, i, n) \in Seq(Int)
    BY <1>3
  <2> QED
    BY <2>1, AsTextIs
<1>5. CASE s = 0
  <2> PICK kept : kept = IF final THEN 0 ELSE HeldFrom(t, i)
    OBVIOUS
  <2>1. kept \in 0..(n - i + 1) /\ n - kept \in 0..n /\ n - kept + 1 \in Int /\ n - kept + 1 >= 1
    BY DEF HeldFrom
  <2>2. SubSeq(t, i, n - kept) \in Seq(Int) /\ SubSeq(t, n - kept + 1, n) \in Seq(Int)
    <3> PICK r, f : r = n - kept /\ f = n - kept + 1
      OBVIOUS
    <3>1. r \in 0..n /\ f \in Int /\ f >= 1 /\ i \in Int /\ i >= 1 /\ n \in 0..n
      BY <2>1
    <3>2. SubSeq(t, i, r) \in Seq(Int) /\ SubSeq(t, f, n) \in Seq(Int)
      BY ONLY <1>3, <3>1
    <3> QED
      BY ONLY <3>2, r = n - kept, f = n - kept + 1
  <2>3. AsText(SubSeq(t, i, n - kept)) \in Seq(Parts)
    BY ONLY <2>2, AsTextIs
  <2>4. StepAt(t, final, allowed, from, i, s, e)
            = [parts |-> AsText(SubSeq(t, i, n - kept)), buffer |-> SubSeq(t, n - kept + 1, n)]
    BY <1>5 DEF StepAt
  <2> QED
    BY <1>1, <2>2, <2>3, <2>4
<1>6. CASE s # 0
  <2>1. SubSeq(t, i, s - 1) \in Seq(Int) /\ SubSeq(t, s, n) \in Seq(Int)
    BY <1>2, <1>3, <1>6
  <2> PICK before : before = AsText(SubSeq(t, i, s - 1))
    OBVIOUS
  <2>2. before \in Seq(Parts)
    BY <2>1, AsTextIs
  <2>3. CASE e = 0
    <3>1. before \o AsText(SubSeq(t, i, n)) \in Seq(Parts)
      BY <1>4, <2>2, ConcatProperties
    <3> QED
      BY <1>1, <1>4, <1>6, <2>1, <2>2, <2>3, <3>1 DEF StepAt
  <2>4. CASE e # 0
    <3> PICK x, y : x = Token(t, allowed, s, e) /\ y = from[e + 2]
      OBVIOUS
    <3>1. x \in Seq(Parts)
      BY <1>2, <1>6, <2>4, TokenType
    <3>2. y.parts \in Seq(Parts) /\ y.buffer \in Seq(Int)
      BY <1>6, <2>4 DEF Outs
    <3>3. before \o x \o y.parts \in Seq(Parts)
      BY <2>2, <3>1, <3>2, ConcatProperties
    <3>4. StepAt(t, final, allowed, from, i, s, e)
              = [parts |-> before \o x \o y.parts, buffer |-> y.buffer]
      BY <1>6, <2>4 DEF StepAt
    <3> QED
      BY <1>1, <3>2, <3>3, <3>4
  <2> QED
    BY <2>3, <2>4
<1> QED
  BY <1>5, <1>6

(* The loop from the end of the text on.                                     *)
Loops(t, final, allowed, k, from) ==
    /\ from \in [k..(Len(t) + 1) -> Outs]
    /\ \A i \in k..(Len(t) + 1) : from[i] = Step(t, final, allowed, from, i)

(* A step of the loop depends only on the steps from later places.           *)
LEMMA StepKeeps ==
    ASSUME NEW t \in Seq(Int), NEW i \in 1..(Len(t) + 1), NEW final, NEW allowed,
           NEW f, NEW g, \A j \in (i + 1)..(Len(t) + 1) : f[j] = g[j]
    PROVE  /\ Step(t, final, allowed, f, i) = Step(t, final, allowed, g, i)
           /\ (\A j \in (i + 1)..(Len(t) + 1) : f[j] \in Outs)
                  => Step(t, final, allowed, f, i) \in Outs
<1>1. PICK s, e \in Nat :
              /\ NextMarker(t, i, s) /\ (s # 0 => NextClose(t, s + 3, e))
              /\ \A from : Step(t, final, allowed, from, i)
                               = StepAt(t, final, allowed, from, i, s, e)
  BY Stepping
<1>2. s # 0 /\ e # 0 => e + 2 \in (i + 1)..(Len(t) + 1)
  BY <1>1, StepGoes
<1>3. s # 0 /\ e # 0 => f[e + 2] = g[e + 2]
  BY <1>2
<1>4. StepAt(t, final, allowed, f, i, s, e) = StepAt(t, final, allowed, g, i, s, e)
  BY <1>3 DEF StepAt
<1>5. (\A j \in (i + 1)..(Len(t) + 1) : f[j] \in Outs)
          => StepAt(t, final, allowed, f, i, s, e) \in Outs
  BY <1>1, <1>2, StepType
<1> QED
  BY <1>1, <1>4, <1>5

(* A loop done from a place on can be done from the place before it.         *)
LEMMA LoopsOn ==
    ASSUME NEW t \in Seq(Int), NEW final, NEW allowed, NEW k \in 1..(Len(t) + 1),
           NEW f, k = Len(t) + 1 \/ Loops(t, final, allowed, k + 1, f)
    PROVE  \E g : Loops(t, final, allowed, k, g)
<1> PICK n \in Nat : n = Len(t)
  OBVIOUS
<1> PICK out : out = Step(t, final, allowed, f, k)
  OBVIOUS
<1> DEFINE g == [i \in k..(n + 1) |-> IF i = k THEN out ELSE f[i]]
<1>1. \A j \in (k + 1)..(n + 1) : g[j] = f[j] /\ f[j] \in Outs
  <2>1. \A j \in (k + 1)..(n + 1) : g[j] = f[j]
    OBVIOUS
  <2>2. ASSUME NEW j \in (k + 1)..(n + 1) PROVE f[j] \in Outs
    <3>1. f \in [(k + 1)..(n + 1) -> Outs]
      BY DEF Loops
    <3> QED
      BY <3>1
  <2> QED
    BY <2>1, <2>2
<1>2. g[k] = out /\ DOMAIN g = k..(n + 1) /\ g = [i \in k..(n + 1) |-> g[i]]
  OBVIOUS
<1> HIDE DEF g
<1>3. out = Step(t, final, allowed, g, k) /\ out \in Outs
  BY <1>1, StepKeeps
<1>4. ASSUME NEW i \in k..(n + 1) PROVE g[i] = Step(t, final, allowed, g, i) /\ g[i] \in Outs
  <2>1. CASE i = k
    BY <1>2, <1>3, <2>1
  <2>2. CASE i # k
    <3>1. i \in (k + 1)..(n + 1) /\ k # n + 1
      BY <2>2
    <3>2. f[i] = Step(t, final, allowed, f, i)
      BY <3>1 DEF Loops
    <3>3. \A j \in (i + 1)..(n + 1) : j \in (k + 1)..(n + 1)
      BY <3>1
    <3>4. Step(t, final, allowed, f, i) = Step(t, final, allowed, g, i)
      <4>1. \A j \in (i + 1)..(n + 1) : f[j] = g[j]
        BY <1>1, <3>3
      <4>2. i \in 1..(n + 1)
        BY <3>1
      <4> QED
        BY <4>1, <4>2, StepKeeps
    <3> QED
      BY <1>1, <3>1, <3>2, <3>4
  <2> QED
    BY <2>1, <2>2
<1>5. g \in [k..(n + 1) -> Outs]
  BY <1>2, <1>4
<1> QED
  BY <1>4, <1>5 DEF Loops

(* What holds of a place if it holds of all behind it holds of all.          *)
LEMMA Backwards ==
    ASSUME NEW n \in Nat, NEW P \in SUBSET (1..(n + 1)),
           \A i \in 1..(n + 1) : (\A j \in (i + 1)..(n + 1) : j \in P) => i \in P
    PROVE  P = 1..(n + 1)
<1> DEFINE Q == {m \in Nat : m <= n /\ (n + 1 - m) \notin P}
<1>1. Q = {}
  <2> SUFFICES ASSUME Q # {} PROVE FALSE
    OBVIOUS
  <2>1. Q \in SUBSET Nat
    OBVIOUS
  <2>2. PICK m \in Q : \A k \in Q : m <= k
    <3> HIDE DEF Q
    <3> QED BY <2>1, HasLeast
  <2>3. n + 1 - m \in 1..(n + 1) /\ n + 1 - m \notin P
    BY <2>2
  <2>4. ASSUME NEW j \in ((n + 1 - m) + 1)..(n + 1) PROVE j \in P
    <3>1. n + 1 - j \in Nat /\ n + 1 - j < m /\ n + 1 - j <= n
      BY <2>2
    <3>2. n + 1 - j \notin Q
      BY <2>2, <3>1
    <3>3. n + 1 - (n + 1 - j) = j
      BY <2>2
    <3> QED
      BY <3>1, <3>2, <3>3
  <2> QED
    BY <2>3, <2>4
<1>2. ASSUME NEW i \in 1..(n + 1) PROVE i \in P
  <2>1. n + 1 - i \in Nat /\ n + 1 - i <= n /\ n + 1 - (n + 1 - i) = i
    OBVIOUS
  <2> QED
    BY <1>1, <2>1
<1> QED
  BY <1>2

(* Drained is what the loop computes.                                        *)
LEMMA DrainedIs ==
    ASSUME NEW t \in Seq(Int), NEW final, NEW allowed
    PROVE  Loops(t, final, allowed, 1, Drained(t, final, allowed))
<1> PICK n \in Nat : n = Len(t)
  OBVIOUS
<1> DEFINE P == {k \in 1..(n + 1) : \E f : Loops(t, final, allowed, k, f)}
<1>1. ASSUME NEW i \in 1..(n + 1), \A j \in (i + 1)..(n + 1) : j \in P
      PROVE  i \in P
  <2>1. i = n + 1 \/ i + 1 \in P
    BY <1>1
  <2>2. PICK f : i = n + 1 \/ Loops(t, final, allowed, i + 1, f)
    BY <2>1
  <2>3. \E g : Loops(t, final, allowed, i, g)
    BY <2>2, LoopsOn
  <2> QED
    BY <2>3
<1>2. P = 1..(n + 1)
  <2>1. P \in SUBSET (1..(n + 1))
    OBVIOUS
  <2> HIDE DEF P
  <2> QED
    BY <1>1, <2>1, Backwards
<1>3. PICK f : Loops(t, final, allowed, 1, f)
  <2>1. 1 \in 1..(n + 1)
    OBVIOUS
  <2>2. 1 \in P
    <3> HIDE DEF P
    <3> QED BY <1>2, <2>1
  <2>3. \E f : Loops(t, final, allowed, 1, f)
    BY <2>2
  <2> QED
    BY <2>3
<1>4. f = [i \in 1..(Len(t) + 1) |-> Step(t, final, allowed, f, i)]
  <2>1. f = [i \in 1..(n + 1) |-> f[i]]
    BY <1>3 DEF Loops
  <2> QED
    BY <1>3, <2>1 DEF Loops
<1> DEFINE IsLoop(g) == g = [i \in 1..(Len(t) + 1) |-> Step(t, final, allowed, g, i)]
<1> PICK d : d = CHOOSE g : IsLoop(g)
  OBVIOUS
<1>5. IsLoop(d)
  <2>1. IsLoop(f)
    BY <1>4
  <2> HIDE DEF IsLoop
  <2> QED
    BY <2>1
<1>6. d = Drained(t, final, allowed)
  BY DEF Drained
<1>7. \A i \in 1..(n + 1) : d[i] = Step(t, final, allowed, d, i)
  BY <1>5
<1>8. \A i \in 1..(n + 1) : d[i] \in Outs
  <2> DEFINE R == {i \in 1..(n + 1) : d[i] \in Outs}
  <2>1. ASSUME NEW i \in 1..(n + 1), \A j \in (i + 1)..(n + 1) : j \in R
        PROVE  i \in R
    <3>1. \A j \in (i + 1)..(n + 1) : d[j] \in Outs
      BY <2>1
    <3>2. Step(t, final, allowed, d, i) \in Outs
      BY <3>1, StepKeeps
    <3> QED
      BY <1>7, <3>2
  <2>2. R \in SUBSET (1..(n + 1))
    OBVIOUS
  <2>3. R = 1..(n + 1)
    <3> HIDE DEF R
    <3> QED BY <2>1, <2>2, Backwards
  <2> QED
    BY <2>3
<1>9. d \in [1..(n + 1) -> Outs]
  BY <1>5, <1>8
<1> QED
  BY <1>6, <1>7, <1>9 DEF Loops

(* While the stream goes on, what a step makes of a place:                   *)
Makes(t, allowed, f, i, s, e) ==
    /\ NextMarker(t, i, s) /\ (s # 0 => NextClose(t, s + 3, e))
    /\ s = 0 => /\ f[i].parts = AsText(SubSeq(t, i, Len(t) - HeldFrom(t, i)))
                /\ f[i].buffer = SubSeq(t, Len(t) - HeldFrom(t, i) + 1, Len(t))
    /\ s # 0 /\ e = 0 => /\ f[i].parts = AsText(SubSeq(t, i, s - 1))
                         /\ f[i].buffer = SubSeq(t, s, Len(t))
    /\ s # 0 /\ e # 0 => /\ f[i].parts = AsText(SubSeq(t, i, s - 1))
                                             \o Token(t, allowed, s, e) \o f[e + 2].parts
                         /\ f[i].buffer = f[e + 2].buffer

(* What the loop makes at a place, by the next marker there and where it     *)
(* closes.                                                                   *)
LEMMA LoopMakes ==
    ASSUME NEW t \in Seq(Int), NEW allowed, NEW f, Loops(t, FALSE, allowed, 1, f),
           NEW i \in 1..(Len(t) + 1)
    PROVE  \E s, e \in Nat : Makes(t, allowed, f, i, s, e)
<1>1. PICK s, e \in Nat :
              /\ NextMarker(t, i, s) /\ (s # 0 => NextClose(t, s + 3, e))
              /\ \A from : Step(t, FALSE, allowed, from, i)
                               = StepAt(t, FALSE, allowed, from, i, s, e)
  BY Stepping
<1>2. f[i] = StepAt(t, FALSE, allowed, f, i, s, e)
  BY <1>1 DEF Loops
<1>3. s = 0 => f[i] = [parts |-> AsText(SubSeq(t, i, Len(t) - HeldFrom(t, i))),
                       buffer |-> SubSeq(t, Len(t) - HeldFrom(t, i) + 1, Len(t))]
  BY <1>2 DEF StepAt
<1>4. s # 0 /\ e = 0 => f[i] = [parts |-> AsText(SubSeq(t, i, s - 1)),
                                buffer |-> SubSeq(t, s, Len(t))]
  BY <1>2 DEF StepAt
<1>5. s # 0 /\ e # 0 =>
          f[i] = [parts |-> AsText(SubSeq(t, i, s - 1))
                                \o Token(t, allowed, s, e) \o f[e + 2].parts,
                  buffer |-> f[e + 2].buffer]
  BY <1>2 DEF StepAt
<1> PICK out : out = f[i]
  OBVIOUS
<1>6. s = 0 => /\ out.parts = AsText(SubSeq(t, i, Len(t) - HeldFrom(t, i)))
               /\ out.buffer = SubSeq(t, Len(t) - HeldFrom(t, i) + 1, Len(t))
  BY <1>3
<1>7. s # 0 /\ e = 0 => /\ out.parts = AsText(SubSeq(t, i, s - 1))
                        /\ out.buffer = SubSeq(t, s, Len(t))
  BY <1>4
<1>8. s # 0 /\ e # 0 =>
          /\ out.parts = AsText(SubSeq(t, i, s - 1)) \o Token(t, allowed, s, e) \o f[e + 2].parts
          /\ out.buffer = f[e + 2].buffer
  <2> PICK x, y : /\ x = AsText(SubSeq(t, i, s - 1)) \o Token(t, allowed, s, e) \o f[e + 2].parts
                  /\ y = f[e + 2].buffer
    OBVIOUS
  <2>1. s # 0 /\ e # 0 => out = [parts |-> x, buffer |-> y]
    BY <1>5
  <2>2. s # 0 /\ e # 0 => out.parts = x /\ out.buffer = y
    BY ONLY <2>1
  <2> QED
    BY <2>2
<1>9. Makes(t, allowed, f, i, s, e)
  BY ONLY <1>1, <1>6, <1>7, <1>8, out = f[i] DEF Makes
<1> QED
  BY <1>9

(* Text before the next marker is passed over,                               *)
Passable(t, i, k) ==
    /\ \A p \in i..(k - 1) : ~MarkerAt(t, p)
    /\ (\A p \in i..Len(t) : ~MarkerAt(t, p)) => k <= Len(t) - HeldFrom(t, i) + 1
Passed(t, f, i, k) ==
    /\ f[i].parts = AsText(SubSeq(t, i, k - 1)) \o f[k].parts
    /\ f[i].buffer = f[k].buffer

(* A stretch in which no marker begins is passed on as text, wherever it is  *)
(* cut.                                                                      *)
LEMMA Passing ==
    ASSUME NEW t \in Seq(Int), NEW allowed, NEW f, Loops(t, FALSE, allowed, 1, f),
           NEW i \in 1..(Len(t) + 1), NEW k \in i..(Len(t) + 1), Passable(t, i, k)
    PROVE  Passed(t, f, i, k)
<1> USE DEF Passable, Passed
<1> PICK n \in Nat : n = Len(t)
  OBVIOUS
<1>0. i \in 1..(n + 1) /\ k \in 1..(n + 1) /\ k \in i..(n + 1)
  OBVIOUS
<1>1. PICK s, e \in Nat : Makes(t, allowed, f, i, s, e)
  BY LoopMakes
<1>2. PICK s2, e2 \in Nat : Makes(t, allowed, f, k, s2, e2)
  BY <1>0, LoopMakes
<1>3. NextMarker(t, i, s) /\ NextMarker(t, k, s2)
  BY <1>1, <1>2 DEF Makes
<1>4. s = s2 /\ (s # 0 => s \in k..n)
  <2>1. \A p \in i..n : p \in k..n \/ p \in i..(k - 1)
    OBVIOUS
  <2>2. s # 0 => s \in k..n /\ \A p \in k..(s - 1) : ~MarkerAt(t, p)
    BY <1>3, <2>1 DEF NextMarker
  <2>3. s2 # 0 => s2 \in k..n /\ MarkerAt(t, s2) /\ \A p \in k..(s2 - 1) : ~MarkerAt(t, p)
    BY <1>3 DEF NextMarker
  <2>4. s = 0 => \A p \in k..n : ~MarkerAt(t, p)
    BY <1>3 DEF NextMarker
  <2>5. s2 = 0 => \A p \in k..n : ~MarkerAt(t, p)
    BY <1>3 DEF NextMarker
  <2>6. s # 0 => MarkerAt(t, s)
    BY <1>3 DEF NextMarker
  <2>7. s # 0 /\ s2 # 0 => ~(s < s2) /\ ~(s2 < s)
    BY <2>2, <2>3, <2>6
  <2> QED
    BY <2>2, <2>3, <2>4, <2>5, <2>6, <2>7
<1>5. s # 0 => e = e2
  <2> SUFFICES ASSUME s # 0 PROVE e = e2
    OBVIOUS
  <2>1. NextClose(t, s + 3, e) /\ NextClose(t, s + 3, e2)
    BY <1>1, <1>2, <1>4 DEF Makes
  <2> PICK m : m = s + 3
    OBVIOUS
  <2> HIDE DEF ClosedAt
  <2>2. e # 0 => e \in m..n /\ ClosedAt(t, e) /\ \A p \in m..(e - 1) : ~ClosedAt(t, p)
    BY <2>1 DEF NextClose
  <2>3. e2 # 0 => e2 \in m..n /\ ClosedAt(t, e2) /\ \A p \in m..(e2 - 1) : ~ClosedAt(t, p)
    BY <2>1 DEF NextClose
  <2>4. /\ e = 0 => \A p \in m..n : ~ClosedAt(t, p)
        /\ e2 = 0 => \A p \in m..n : ~ClosedAt(t, p)
    BY <2>1 DEF NextClose
  <2>5. e # 0 /\ e2 # 0 => ~(e < e2) /\ ~(e2 < e)
    BY <2>2, <2>3
  <2> QED
    BY <2>2, <2>3, <2>4, <2>5
<1> PICK before : before = AsText(SubSeq(t, i, k - 1))
  OBVIOUS
<1>6. before \in Seq(Parts)
  <2>1. SubSeq(t, i, k - 1) \in Seq(Int)
    OBVIOUS
  <2> QED
    BY <2>1, AsTextIs
<1>7. ASSUME NEW j \in (k - 1)..n
      PROVE  before \o AsText(SubSeq(t, k, j)) = AsText(SubSeq(t, i, j))
             /\ AsText(SubSeq(t, k, j)) \in Seq(Parts)
  <2>1. SubSeq(t, k, j) \in Seq(Int)
    OBVIOUS
  <2> QED
    BY <1>0, <2>1, SubText, AsTextIs
<1>8. CASE s = 0
  <2>1. \A p \in i..n : ~MarkerAt(t, p)
    BY <1>3, <1>8 DEF NextMarker
  <2>2. HeldFrom(t, k) = HeldFrom(t, i) /\ n - HeldFrom(t, i) \in (k - 1)..n
    <3>1. k <= n - HeldFrom(t, i) + 1
      BY <2>1
    <3> QED
      BY <3>1 DEF HeldFrom
  <2> PICK j : j = n - HeldFrom(t, i)
    OBVIOUS
  <2>3. f[i].parts = AsText(SubSeq(t, i, j)) /\ f[i].buffer = SubSeq(t, j + 1, n)
    BY <1>1, <1>8 DEF Makes
  <2>4. f[k].parts = AsText(SubSeq(t, k, j)) /\ f[k].buffer = SubSeq(t, j + 1, n)
    BY <1>2, <1>4, <1>8, <2>2 DEF Makes
  <2> QED
    BY <1>7, <2>2, <2>3, <2>4
<1>9. CASE s # 0
  <2>1. s - 1 \in (k - 1)..n
    BY <1>4, <1>9
  <2>2. before \o AsText(SubSeq(t, k, s - 1)) = AsText(SubSeq(t, i, s - 1))
        /\ AsText(SubSeq(t, k, s - 1)) \in Seq(Parts)
    BY <1>7, <2>1
  <2>3. CASE e = 0
    BY <1>1, <1>2, <1>4, <1>5, <1>9, <2>2, <2>3 DEF Makes
  <2>4. CASE e # 0
    <3> PICK x, y, z : /\ x = Token(t, allowed, s, e) /\ y = f[e + 2].parts
                       /\ z = AsText(SubSeq(t, k, s - 1))
      OBVIOUS
    <3>1. x \in Seq(Parts) /\ y \in Seq(Parts)
      <4>1. /\ s \in i..n /\ e \in (s + 3)..n /\ e + 1 <= n /\ e + 2 \in 1..(n + 1)
        <5>1. NextMarker(t, i, s) /\ (s # 0 => NextClose(t, s + 3, e))
          BY <1>1 DEF Makes
        <5> QED
          BY <1>9, <2>4, <5>1, StepGoes
      <4>2. x \in Seq(Parts)
        BY <4>1, TokenType
      <4>3. f[e + 2] \in Outs
        BY <4>1 DEF Loops
      <4> QED
        BY <4>2, <4>3 DEF Outs
    <3>2. f[i].parts = (before \o z) \o x \o y
      BY <1>1, <1>9, <2>2, <2>4 DEF Makes
    <3>3. f[k].parts = z \o x \o y /\ f[i].buffer = f[k].buffer
      BY <1>1, <1>2, <1>4, <1>5, <1>9, <2>4 DEF Makes
    <3>4. z \in Seq(Parts)
      BY <2>2
    <3>5. ((before \o z) \o x) \o y = before \o ((z \o x) \o y)
      <4>1. Regroups(before, z, x, y)
        BY ONLY <1>6, <3>1, <3>4, Regrouped
      <4> QED
        BY <4>1 DEF Regroups
    <3> QED
      BY <3>2, <3>3, <3>5
  <2> QED
    BY <2>3, <2>4
<1> QED
  BY <1>8, <1>9

(* A text that holds another, from the place behind d on.                    *)
Extends(t, b, d) ==
    d + Len(b) <= Len(t) /\ \A p \in 1..Len(b) : t[d + p] = b[p]

(* A stretch of a text, character by character.                              *)
LEMMA SubIs ==
    ASSUME NEW t \in Seq(Int), NEW x \in 1..(Len(t) + 1), NEW y \in 0..Len(t), y + 1 >= x
    PROVE  /\ SubSeq(t, x, y) \in Seq(Int) /\ Len(SubSeq(t, x, y)) = y - x + 1
           /\ \A q \in 1..(y - x + 1) : SubSeq(t, x, y)[q] = t[x + q - 1]
<1>1. \A i \in x..y : t[i] \in Int
  OBVIOUS
<1>2. /\ SubSeq(t, x, y) \in Seq(Int) /\ Len(SubSeq(t, x, y)) = IF x <= y THEN y - x + 1 ELSE 0
      /\ \A i \in 1..(y - x + 1) : SubSeq(t, x, y)[i] = t[x + i - 1]
  BY <1>1, SubSeqProperties
<1> QED
  BY <1>2

(* A text that goes on from another reads the same where the other does.     *)
LEMMA ExtendsReads ==
    ASSUME NEW t \in Seq(Int), NEW b \in Seq(Int), NEW d \in Nat, Extends(t, b, d)
    PROVE  /\ \A p \in 1..Len(b) : p + 2 <= Len(b) => (MarkerAt(t, d + p) <=> MarkerAt(b, p))
           /\ \A p \in 1..Len(b) : p + 1 <= Len(b) => (ClosedAt(t, d + p) <=> ClosedAt(b, p))
           /\ \A i \in 1..(Len(b) + 1), j \in 0..Len(b) : j >= i - 1 =>
                 SubSeq(t, d + i, d + j) = SubSeq(b, i, j)
<1> PICK n \in Nat : n = Len(b)
  OBVIOUS
<1>0. d + n <= Len(t) /\ \A p \in 1..n : t[d + p] = b[p]
  BY DEF Extends
<1>1. ASSUME NEW p \in 1..n, p + 2 <= n
      PROVE  MarkerAt(t, d + p) <=> MarkerAt(b, p)
  <2>1. p + 1 \in 1..n /\ p + 2 \in 1..n
    BY <1>1
  <2>2. t[d + p] = b[p] /\ t[d + (p + 1)] = b[p + 1] /\ t[d + (p + 2)] = b[p + 2]
    BY <1>0, <2>1
  <2>3. d + (p + 1) = (d + p) + 1 /\ d + (p + 2) = (d + p) + 2 /\ (d + p) + 2 <= Len(t)
    BY <1>0, <1>1
  <2> QED
    BY <1>1, <2>2, <2>3 DEF MarkerAt
<1>2. ASSUME NEW p \in 1..n, p + 1 <= n
      PROVE  ClosedAt(t, d + p) <=> ClosedAt(b, p)
  <2>1. p + 1 \in 1..n
    BY <1>2
  <2>2. t[d + p] = b[p] /\ t[d + (p + 1)] = b[p + 1]
    BY <1>0, <2>1
  <2>3. d + (p + 1) = (d + p) + 1 /\ (d + p) + 1 <= Len(t)
    BY <1>0, <1>2
  <2> QED
    BY <1>2, <2>2, <2>3 DEF ClosedAt
<1>3. ASSUME NEW i \in 1..(n + 1), NEW j \in 0..n, j >= i - 1
      PROVE  SubSeq(t, d + i, d + j) = SubSeq(b, i, j)
  <2> PICK u, v : u = SubSeq(t, d + i, d + j) /\ v = SubSeq(b, i, j)
    OBVIOUS
  <2> PICK m : m = j - i + 1
    OBVIOUS
  <2>1. m \in Nat
    BY <1>3
  <2>2. v \in Seq(Int) /\ Len(v) = m /\ \A q \in 1..m : v[q] = b[i + q - 1]
    BY <1>3, SubIs
  <2>3. u \in Seq(Int) /\ Len(u) = m /\ \A q \in 1..m : u[q] = t[(d + i) + q - 1]
    <3> PICK x, y : x = d + i /\ y = d + j
      OBVIOUS
    <3>1. x \in 1..(Len(t) + 1) /\ y \in 0..Len(t) /\ y - x + 1 = m
      BY <1>0
    <3>2. SubSeq(t, x, y) \in Seq(Int) /\ Len(SubSeq(t, x, y)) = m
          /\ \A q \in 1..m : SubSeq(t, x, y)[q] = t[x + q - 1]
      BY <2>1, <3>1, SubIs
    <3> QED
      BY <3>2
  <2>4. ASSUME NEW q \in 1..m PROVE u[q] = v[q]
    <3>1. i + q - 1 \in 1..n /\ (d + i) + q - 1 = d + (i + q - 1)
      BY <1>3
    <3> QED
      BY <1>0, <2>2, <2>3, <3>1
  <2> QED
    BY <2>2, <2>3, <2>4, SeqEqual
<1> QED
  BY <1>1, <1>2, <1>3

(* What stays in the buffer waits for what may follow: the open brackets at  *)
(* the end, or a marker without its end.                                     *)
Lingers(b, k) ==
    \/ k + 1 >= Len(b) /\ \A p \in k..Len(b) : b[p] = Open
    \/ k <= Len(b) /\ MarkerAt(b, k) /\ \A p \in (k + 3)..Len(b) : ~ClosedAt(b, p)

(* What follows is read as it would be behind all of the text: the loop over *)
(* the longer text makes of a place what it makes of it in the shorter one,  *)
(* and goes on with what waits.                                              *)
Carries(t, b, d, ft, fb, i, k) ==
    /\ fb[i].buffer = SubSeq(b, k, Len(b)) /\ Lingers(b, k)
    /\ ft[d + i].parts = fb[i].parts \o ft[d + k].parts
    /\ ft[d + i].buffer = ft[d + k].buffer

(* No marker is read in the text that is passed before what waits.           *)
LEMMA NoneBefore ==
    ASSUME NEW t \in Seq(Int), NEW b \in Seq(Int), NEW d \in Nat, Extends(t, b, d),
           NEW i \in 1..(Len(b) + 1), NEW k \in i..(Len(b) + 1),
           \A p \in i..(k - 1) : ~MarkerAt(b, p),
           k <= Len(b) - HeldFrom(b, i) + 1 \/ (k <= Len(b) /\ MarkerAt(b, k)),
           NEW p \in (d + i)..(d + k - 1)
    PROVE  ~MarkerAt(t, p)
<1> PICK n \in Nat, N \in Nat : n = Len(b) /\ N = Len(t)
  OBVIOUS
<1>0. n \in Nat /\ i \in Nat /\ k \in Nat /\ 1 <= i /\ i <= k /\ k <= n + 1 /\ p \in Nat
      /\ p >= d + i /\ p < d + k
  OBVIOUS
<1> PICK q : q = p - d
  OBVIOUS
<1>1. q \in Nat /\ i <= q /\ q < k /\ 1 <= q /\ q <= n /\ p = d + q
      /\ q \in i..(k - 1) /\ q \in 1..n
  BY ONLY <1>0, q = p - d, d \in Nat
<1>2. ~MarkerAt(b, q)
  BY <1>1
<1>3. \A x \in 1..n : t[d + x] = b[x]
  BY DEF Extends
<1>4. CASE q + 2 <= n
  <2>1. MarkerAt(t, d + q) <=> MarkerAt(b, q)
    BY <1>1, <1>4, ExtendsReads
  <2> QED
    BY ONLY <1>1, <1>2, <2>1
<1>5. CASE q + 2 > n
  <2> SUFFICES ASSUME MarkerAt(t, p) PROVE FALSE
    OBVIOUS
  <2>1. t[p] = Open /\ t[p + 1] = Open
    BY DEF MarkerAt
  <2>2. b[q] = Open
    BY <1>1, <1>3, <2>1
  <2>3. q + 1 \in 1..n => b[q + 1] = Open
    <3>1. q + 1 \in 1..n => t[d + (q + 1)] = b[q + 1]
      BY <1>3
    <3>2. d + (q + 1) = p + 1
      BY <1>1
    <3> QED
      BY <2>1, <3>1, <3>2
  <2>4. CASE k <= n /\ MarkerAt(b, k)
    <3>1. k + 2 <= n
      BY <2>4 DEF MarkerAt
    <3> QED
      BY <1>1, <1>5, <3>1
  <2>5. CASE k <= n - HeldFrom(b, i) + 1
    <3>1. q = n \/ (q = n - 1 /\ q + 1 = n /\ q + 1 \in 1..n)
      BY ONLY <1>0, <1>1, <1>5
    <3>2. CASE q = n
      <4>0. i <= n /\ b[n] = Open
        BY ONLY <1>0, <1>1, <2>2, <3>2
      <4>1. HeldFrom(b, i) >= 1
        BY ONLY <4>0, n = Len(b) DEF HeldFrom
      <4>2. HeldFrom(b, i) \in {1, 2}
        BY <4>1 DEF HeldFrom
      <4> QED
        BY <1>1, <2>5, <3>2, <4>2
    <3>3. CASE q = n - 1 /\ q + 1 = n /\ q + 1 \in 1..n
      <4>1. b[n - 1] = Open /\ b[n] = Open /\ i + 1 <= n
        BY ONLY <1>0, <1>1, <2>2, <2>3, <3>3
      <4>2. HeldFrom(b, i) = 2
        BY <4>1 DEF HeldFrom
      <4> QED
        BY <1>1, <2>5, <3>3, <4>2
    <3> QED
      BY <3>1, <3>2, <3>3
  <2> QED
    BY <2>4, <2>5
<1>6. q + 2 <= n \/ q + 2 > n
  BY ONLY <1>0, <1>1
<1> QED
  BY <1>4, <1>5, <1>6

(* What a longer text holds back begins no earlier than what the shorter one *)
(* does.                                                                     *)
LEMMA HeldBehind ==
    ASSUME NEW t \in Seq(Int), NEW b \in Seq(Int), NEW d \in Nat, Extends(t, b, d),
           NEW i \in 1..(Len(b) + 1)
    PROVE  d + (Len(b) - HeldFrom(b, i) + 1) <= Len(t) - HeldFrom(t, d + i) + 1
<1> PICK n \in Nat, N \in Nat : n = Len(b) /\ N = Len(t)
  OBVIOUS
<1>0. n \in Nat /\ N \in Nat /\ d \in Nat /\ i \in Nat /\ 1 <= i /\ i <= n + 1
  OBVIOUS
<1>1. d + n <= N /\ \A x \in 1..n : t[d + x] = b[x]
  BY DEF Extends
<1> PICK x, y : x = HeldFrom(b, i) /\ y = HeldFrom(t, d + i)
  OBVIOUS
<1>2. x \in 0..2 /\ y \in 0..2
  BY DEF HeldFrom
<1> SUFFICES d + (n - x + 1) <= N - y + 1
  OBVIOUS
<1>3. CASE N >= d + n + 2
  BY ONLY <1>0, <1>2, <1>3
<1>4. CASE N = d + n + 1
  <2>a. ASSUME y = 2 => x >= 1 PROVE d + (n - x + 1) <= N - y + 1
    BY ONLY <1>0, <1>2, <1>4, <2>a
  <2> SUFFICES ASSUME y = 2 PROVE x >= 1
    BY <2>a
  <2>1. (d + i) + 1 <= N /\ t[N - 1] = Open
    BY DEF HeldFrom
  <2>2. i <= n /\ N - 1 = d + n /\ n \in 1..n
    BY ONLY <1>0, <1>4, <2>1, N = Len(t)
  <2>3. b[n] = Open
    BY <1>1, <2>1, <2>2
  <2> QED
    BY ONLY <2>2, <2>3, n = Len(b), x = HeldFrom(b, i) DEF HeldFrom
<1>5. CASE N = d + n
  <2>1. i <= n => n \in 1..n /\ t[N] = b[n]
    BY <1>1, <1>5
  <2>2. i + 1 <= n => t[N - 1] = b[n - 1]
    <3> SUFFICES ASSUME i + 1 <= n PROVE t[N - 1] = b[n - 1]
      OBVIOUS
    <3>1. n - 1 \in 1..n /\ d + (n - 1) = N - 1
      BY <1>5
    <3> QED
      BY <1>1, <3>1
  <2>3. (d + i <= N <=> i <= n) /\ ((d + i) + 1 <= N <=> i + 1 <= n) /\ (i + 1 <= n => i <= n)
    BY ONLY <1>0, <1>5
  <2>4. y = x
    <3> DEFINE Two(u, m, j) == j + 1 <= m /\ u[m - 1] = Open /\ u[m] = Open
               One(u, m, j) == j <= m /\ u[m] = Open
    <3>1. x = IF Two(b, n, i) THEN 2 ELSE IF One(b, n, i) THEN 1 ELSE 0
      BY DEF HeldFrom
    <3>2. y = IF Two(t, N, d + i) THEN 2 ELSE IF One(t, N, d + i) THEN 1 ELSE 0
      BY DEF HeldFrom
    <3>3. Two(b, n, i) <=> Two(t, N, d + i)
      BY ONLY <2>1, <2>2, <2>3
    <3>4. One(b, n, i) <=> One(t, N, d + i)
      BY ONLY <2>1, <2>3
    <3> HIDE DEF Two, One
    <3> QED
      BY ONLY <3>1, <3>2, <3>3, <3>4
  <2> QED
    BY ONLY <1>0, <1>2, <1>5, <2>4
<1>6. N = d + n \/ N = d + n + 1 \/ N >= d + n + 2
  BY ONLY <1>0, <1>1
<1> QED
  BY <1>3, <1>4, <1>5, <1>6

(* The next marker is one, and so is its end.                                *)
LEMMA NextUnique ==
    ASSUME NEW t, NEW n \in Nat, n = Len(t), NEW m \in Nat, m # 0, NEW x \in Nat, NEW y \in Nat
    PROVE  /\ NextMarker(t, m, x) /\ NextMarker(t, m, y) => x = y
           /\ NextClose(t, m, x) /\ NextClose(t, m, y) => x = y
<1>1. ASSUME NextMarker(t, m, x), NextMarker(t, m, y) PROVE x = y
  <2>1. /\ \/ x = 0 /\ \A p \in m..n : ~MarkerAt(t, p)
           \/ x \in m..n /\ MarkerAt(t, x) /\ \A p \in m..(x - 1) : ~MarkerAt(t, p)
        /\ \/ y = 0 /\ \A p \in m..n : ~MarkerAt(t, p)
           \/ y \in m..n /\ MarkerAt(t, y) /\ \A p \in m..(y - 1) : ~MarkerAt(t, p)
    BY <1>1 DEF NextMarker
  <2>2. x # 0 /\ y # 0 => ~(x < y) /\ ~(y < x)
    BY <2>1
  <2> QED
    BY <2>1, <2>2
<1>2. ASSUME NextClose(t, m, x), NextClose(t, m, y) PROVE x = y
  <2>1. /\ \/ x = 0 /\ \A p \in m..n : ~ClosedAt(t, p)
           \/ x \in m..n /\ ClosedAt(t, x) /\ \A p \in m..(x - 1) : ~ClosedAt(t, p)
        /\ \/ y = 0 /\ \A p \in m..n : ~ClosedAt(t, p)
           \/ y \in m..n /\ ClosedAt(t, y) /\ \A p \in m..(y - 1) : ~ClosedAt(t, p)
    BY <1>2 DEF NextClose
  <2>2. x # 0 /\ y # 0 => ~(x < y) /\ ~(y < x)
    BY <2>1
  <2> QED
    BY <2>1, <2>2
<1> QED
  BY <1>1, <1>2

(* What a longer text makes of a whole marker.                               *)
LEMMA TokenCarries ==
    ASSUME NEW t \in Seq(Int), NEW b \in Seq(Int), NEW d \in Nat, Extends(t, b, d),
           NEW allowed, NEW s \in 1..Len(b), NEW e \in (s + 3)..Len(b), e + 1 <= Len(b)
    PROVE  Token(t, allowed, d + s, d + e) = Token(b, allowed, s, e)
<1> PICK n \in Nat : n = Len(b)
  OBVIOUS
<1>0. s \in Nat /\ e \in Nat /\ 1 <= s /\ s + 3 <= e /\ e + 1 <= n /\ d \in Nat
  OBVIOUS
<1>1. SubSeq(t, d + s, d + (e + 1)) = SubSeq(b, s, e + 1)
  <2>1. s \in 1..(n + 1) /\ e + 1 \in 0..n /\ e + 1 >= s - 1
    BY ONLY <1>0
  <2> QED
    BY <2>1, ExtendsReads
<1>2. t[d + (e - 1)] = b[e - 1]
  <2>1. e - 1 \in 1..n
    BY ONLY <1>0
  <2> QED
    BY <2>1 DEF Extends
<1>3. (d + e) - 1 = d + (e - 1) /\ (d + e) + 1 = d + (e + 1) /\ (d + e = (d + s) + 4 <=> e = s + 4)
  BY ONLY <1>0
<1> QED
  BY <1>1, <1>2, <1>3 DEF Token

(* If the parts made of the shorter text carry over from every later place,  *)
(* they do from this one.                                                    *)
LEMMA CarriesOn ==
    ASSUME NEW t \in Seq(Int), NEW b \in Seq(Int), NEW d \in Nat, Extends(t, b, d),
           NEW allowed, NEW ft, Loops(t, FALSE, allowed, 1, ft),
           NEW fb, Loops(b, FALSE, allowed, 1, fb), NEW i \in 1..(Len(b) + 1),
           \A j \in (i + 1)..(Len(b) + 1) : \E k \in j..(Len(b) + 1) :
              Carries(t, b, d, ft, fb, j, k)
    PROVE  \E k \in i..(Len(b) + 1) : Carries(t, b, d, ft, fb, i, k)
<1> PICK n \in Nat, N \in Nat : n = Len(b) /\ N = Len(t)
  OBVIOUS
<1>0. /\ n \in Nat /\ N \in Nat /\ d \in Nat /\ i \in Nat /\ 1 <= i /\ i <= n + 1 /\ d + n <= N
  BY DEF Extends
<1>1. PICK s, e \in Nat : Makes(b, allowed, fb, i, s, e)
  BY LoopMakes
<1>2. NextMarker(b, i, s) /\ (s # 0 => NextClose(b, s + 3, e))
  BY <1>1 DEF Makes
<1>3. /\ s # 0 => s \in i..n /\ s + 2 <= n /\ MarkerAt(b, s)
      /\ s # 0 /\ e # 0 => /\ e \in (s + 3)..n /\ e + 1 <= n
                           /\ e + 2 \in (i + 1)..(n + 1) /\ ClosedAt(b, e)
  BY <1>2, StepGoes
<1>4. s # 0 => /\ 1 <= s /\ i <= s /\ s + 2 <= n
               /\ e # 0 => s + 3 <= e /\ e + 1 <= n /\ i < e
  BY <1>0, <1>3
<1>5. s # 0 => \A p \in i..(s - 1) : ~MarkerAt(b, p)
  BY <1>2 DEF NextMarker
<1>6. ASSUME NEW k \in i..(n + 1), \A p \in i..(k - 1) : ~MarkerAt(b, p),
             k <= n - HeldFrom(b, i) + 1 \/ (k <= n /\ MarkerAt(b, k)),
             (\A p \in (d + i)..N : ~MarkerAt(t, p)) => d + k <= N - HeldFrom(t, d + i) + 1
      PROVE  /\ ft[d + i].parts = AsText(SubSeq(b, i, k - 1)) \o ft[d + k].parts
             /\ ft[d + i].buffer = ft[d + k].buffer
  <2>0. k \in Nat /\ i <= k /\ k <= n + 1
    BY <1>0
  <2>1. \A p \in (d + i)..(d + k - 1) : ~MarkerAt(t, p)
    BY <1>6, NoneBefore
  <2> PICK x, y : x = d + i /\ y = d + k
    OBVIOUS
  <2>2. x \in 1..(N + 1) /\ y \in x..(N + 1)
    BY ONLY <1>0, <2>0, x = d + i, y = d + k
  <2>3. ft[x].parts = AsText(SubSeq(t, x, y - 1)) \o ft[y].parts /\ ft[x].buffer = ft[y].buffer
    <3>1. \A p \in x..(y - 1) : ~MarkerAt(t, p)
      BY <2>1
    <3>2. (\A p \in x..N : ~MarkerAt(t, p)) => y <= N - HeldFrom(t, x) + 1
      BY <1>6
    <3>3. x \in 1..(Len(t) + 1) /\ y \in x..(Len(t) + 1)
      BY <2>2
    <3>4. (\A p \in x..Len(t) : ~MarkerAt(t, p)) => y <= Len(t) - HeldFrom(t, x) + 1
      BY <3>2
    <3> QED
      <4>1. Passable(t, x, y)
        BY <3>1, <3>4 DEF Passable
      <4>2. Passed(t, ft, x, y)
        BY <3>3, <4>1, Passing
      <4> QED
        BY <4>2 DEF Passed
  <2>4. SubSeq(t, d + i, d + (k - 1)) = SubSeq(b, i, k - 1)
    <3> PICK r : r = k - 1
      OBVIOUS
    <3>1. i \in 1..(n + 1) /\ r \in 0..n /\ r >= i - 1
      BY ONLY <1>0, <2>0, r = k - 1
    <3>2. SubSeq(t, d + i, d + r) = SubSeq(b, i, r)
      BY <3>1, ExtendsReads
    <3> QED
      BY ONLY <3>2, r = k - 1
  <2>5. y - 1 = d + (k - 1)
    BY ONLY <1>0, <2>0, y = d + k
  <2> QED
    BY <2>3, <2>4, <2>5
<1>7. CASE s = 0
  <2> PICK h : h = HeldFrom(b, i)
    OBVIOUS
  <2>1. /\ h \in 0..2 /\ h <= n - i + 1
        /\ h = 2 => b[n - 1] = Open /\ b[n] = Open
        /\ h = 1 => b[n] = Open
    BY ONLY <1>0, n = Len(b), h = HeldFrom(b, i) DEF HeldFrom
  <2> PICK k : k = n - h + 1
    OBVIOUS
  <2>2. k \in i..(n + 1) /\ k \in Nat /\ k - 1 = n - h /\ i <= k /\ k <= n - h + 1
    BY ONLY <1>0, <2>1, k = n - h + 1
  <2>3. \A p \in i..n : ~MarkerAt(b, p)
    BY <1>2, <1>7 DEF NextMarker
  <2>4. \A p \in i..(k - 1) : ~MarkerAt(b, p)
    <3>1. \A p \in i..(k - 1) : p \in i..n
      BY ONLY <1>0, <2>1, <2>2
    <3> QED
      BY <2>3, <3>1
  <2>5. d + k <= N - HeldFrom(t, d + i) + 1
    BY HeldBehind
  <2>6. /\ ft[d + i].parts = AsText(SubSeq(b, i, k - 1)) \o ft[d + k].parts
        /\ ft[d + i].buffer = ft[d + k].buffer
    BY <1>6, <2>2, <2>4, <2>5
  <2>7. fb[i].parts = AsText(SubSeq(b, i, k - 1)) /\ fb[i].buffer = SubSeq(b, k, n)
    BY <1>1, <1>7, <2>2 DEF Makes
  <2>8. Lingers(b, k)
    <3>1. k + 1 >= n
      BY ONLY <1>0, <2>1, k = n - h + 1
    <3>2. ASSUME NEW p \in k..n PROVE b[p] = Open
      <4>1. (h = 1 /\ p = n) \/ (h = 2 /\ (p = n \/ p = n - 1))
        BY ONLY <1>0, <2>1, k = n - h + 1, p \in k..n
      <4> QED
        BY <2>1, <4>1
    <3> QED
      BY <3>1, <3>2 DEF Lingers
  <2> QED
    BY <2>2, <2>6, <2>7, <2>8 DEF Carries
<1>8. CASE s # 0 /\ e = 0
  <2>1. s \in i..(n + 1) /\ s <= n /\ MarkerAt(b, s)
    BY <1>0, <1>3, <1>4, <1>8
  <2>2. MarkerAt(t, d + s) /\ d + s \in (d + i)..N
    <3>1. s \in 1..n /\ s + 2 <= n
      BY <1>0, <1>4, <1>8
    <3>2. MarkerAt(t, d + s)
      BY <2>1, <3>1, ExtendsReads
    <3>3. d + s \in (d + i)..N
      BY ONLY <1>0, <1>4, <1>8, <3>1
    <3> QED
      BY <3>2, <3>3
  <2>3. /\ ft[d + i].parts = AsText(SubSeq(b, i, s - 1)) \o ft[d + s].parts
        /\ ft[d + i].buffer = ft[d + s].buffer
    BY <1>5, <1>6, <1>8, <2>1, <2>2
  <2>4. fb[i].parts = AsText(SubSeq(b, i, s - 1)) /\ fb[i].buffer = SubSeq(b, s, n)
    BY <1>1, <1>8 DEF Makes
  <2>5. Lingers(b, s)
    <3>1. \A p \in (s + 3)..n : ~ClosedAt(b, p)
      BY <1>2, <1>8 DEF NextClose
    <3> QED
      BY <2>1, <3>1 DEF Lingers
  <2> QED
    BY <2>1, <2>3, <2>4, <2>5 DEF Carries
<1>9. CASE s # 0 /\ e # 0
  <2>1. PICK k \in (e + 2)..(n + 1) : Carries(t, b, d, ft, fb, e + 2, k)
    BY <1>3, <1>9
  <2>2. k \in i..(n + 1) /\ k \in Nat
    BY <1>0, <1>4, <1>9
  <2> PICK x, y, z : x = d + i /\ y = d + s /\ z = d + e
    OBVIOUS
  <2>3. /\ x \in 1..(N + 1) /\ y \in x..N /\ y \in Nat /\ z \in Nat
        /\ y # 0 /\ z # 0 /\ x \in Nat /\ x # 0
        /\ z \in (y + 3)..N
    BY ONLY <1>0, <1>4, <1>9, x = d + i, y = d + s, z = d + e, s \in Nat, e \in Nat
  <2>4. NextMarker(t, x, y)
    <3>1. s \in i..(n + 1) /\ s \in 1..n /\ s <= n /\ s + 2 <= n /\ MarkerAt(b, s)
      BY <1>0, <1>3, <1>4, <1>9
    <3>2. MarkerAt(t, d + s)
      BY <3>1, ExtendsReads
    <3>3. \A p \in (d + i)..(d + s - 1) : ~MarkerAt(t, p)
      BY <1>5, <1>9, <3>1, NoneBefore
    <3> QED
      BY <2>3, <3>2, <3>3 DEF NextMarker
  <2>5. NextClose(t, y + 3, z)
    <3>0. s \in Nat /\ e \in Nat /\ s + 3 <= e /\ e + 1 <= n /\ 1 <= s
      BY <1>4, <1>9
    <3>1. ClosedAt(b, e) /\ \A p \in (s + 3)..(e - 1) : ~ClosedAt(b, p)
      BY <1>2, <1>9 DEF NextClose
    <3>2. e \in 1..n
      BY ONLY <1>0, <3>0
    <3>3. ClosedAt(t, d + e)
      BY <3>0, <3>1, <3>2, ExtendsReads
    <3>4. ASSUME NEW p \in (y + 3)..(z - 1) PROVE ~ClosedAt(t, p)
      <4> PICK q : q = p - d
        OBVIOUS
      <4>1. q \in (s + 3)..(e - 1) /\ q \in 1..n /\ q + 1 <= n /\ p = d + q
        BY ONLY <1>0, <3>0, p \in (y + 3)..(z - 1), q = p - d, y = d + s, z = d + e
      <4>2. ClosedAt(t, d + q) <=> ClosedAt(b, q)
        BY <4>1, ExtendsReads
      <4>3. ~ClosedAt(b, q)
        BY <3>1, <4>1
      <4> QED
        BY ONLY <4>1, <4>2, <4>3
    <3> QED
      BY <2>3, <3>3, <3>4 DEF NextClose
  <2>6. PICK s2, e2 \in Nat : Makes(t, allowed, ft, x, s2, e2)
    BY <2>3, LoopMakes
  <2>7. s2 = y /\ e2 = z
    <3>1. NextMarker(t, x, s2) /\ (s2 # 0 => NextClose(t, s2 + 3, e2))
      BY <2>6 DEF Makes
    <3>2. s2 = y
      BY <2>3, <2>4, <3>1, NextUnique
    <3> PICK m : m = y + 3
      OBVIOUS
    <3>3. m \in Nat /\ m # 0
      BY <2>3
    <3>4. NextClose(t, m, e2) /\ NextClose(t, m, z)
      BY <2>3, <2>5, <3>1, <3>2
    <3>5. e2 = z
      BY <2>3, <3>3, <3>4, NextUnique
    <3> QED
      BY <3>2, <3>5
  <2> PICK A, B, C, D : /\ A = AsText(SubSeq(b, i, s - 1)) /\ B = Token(b, allowed, s, e)
                        /\ C = fb[e + 2].parts /\ D = ft[d + k].parts
    OBVIOUS
  <2>8. fb[i].parts = A \o B \o C /\ fb[i].buffer = fb[e + 2].buffer
    BY <1>1, <1>9 DEF Makes
  <2>9. ft[x].parts = AsText(SubSeq(t, x, y - 1)) \o Token(t, allowed, y, z) \o ft[z + 2].parts
        /\ ft[x].buffer = ft[z + 2].buffer
    BY <2>3, <2>6, <2>7 DEF Makes
  <2>10. SubSeq(t, x, y - 1) = SubSeq(b, i, s - 1) /\ Token(t, allowed, y, z) = B
    <3> PICK r \in Int : r = s - 1
      OBVIOUS
    <3>1. /\ i \in 1..(n + 1) /\ r \in 0..n /\ r >= i - 1 /\ s \in 1..n /\ e \in (s + 3)..n
          /\ e + 1 <= n /\ y - 1 = d + r
      BY ONLY <1>0, <1>4, <1>9, y = d + s, s \in Nat, e \in Nat, r = s - 1
    <3>7. i \in 1..(n + 1) /\ r \in 0..n /\ r >= i - 1
      BY ONLY <3>1
    <3>8. \A p \in 1..(n + 1), q \in 0..n : q >= p - 1 =>
             SubSeq(t, d + p, d + q) = SubSeq(b, p, q)
      <4>1. \A p \in 1..(Len(b) + 1), q \in 0..Len(b) : q >= p - 1 =>
               SubSeq(t, d + p, d + q) = SubSeq(b, p, q)
        BY ExtendsReads
      <4> QED
        BY ONLY <4>1, n = Len(b)
    <3>2. SubSeq(t, d + i, d + r) = SubSeq(b, i, r)
      BY ONLY <3>7, <3>8
    <3>3. Token(t, allowed, d + s, d + e) = B
      BY <3>1, TokenCarries
    <3>4. x = d + i /\ y = d + s /\ z = d + e
      OBVIOUS
    <3>5. Token(t, allowed, y, z) = B
      BY ONLY <3>3, <3>4
    <3>6. SubSeq(t, x, y - 1) = SubSeq(b, i, s - 1)
      BY ONLY <3>1, <3>2, <3>4, r = s - 1
    <3> QED
      BY ONLY <3>5, <3>6
  <2>11. /\ ft[z + 2].parts = C \o D /\ ft[z + 2].buffer = ft[d + k].buffer
         /\ fb[e + 2].buffer = SubSeq(b, k, n) /\ Lingers(b, k)
    <3>1. z + 2 = d + (e + 2)
      BY ONLY <1>0, z = d + e, e \in Nat
    <3> QED
      BY <2>1, <3>1 DEF Carries
  <2>12. A \in Seq(Parts) /\ B \in Seq(Parts) /\ C \in Seq(Parts) /\ D \in Seq(Parts)
    <3>1. /\ s \in 1..n /\ s - 1 \in 0..n /\ s - 1 + 1 >= i /\ e \in s..n
          /\ e + 1 <= n /\ i \in 1..(n + 1)
      BY ONLY <1>0, <1>4, <1>9, s \in Nat, e \in Nat
    <3>2. SubSeq(b, i, s - 1) \in Seq(Int)
      BY <3>1, SubIs
    <3>3. A \in Seq(Parts)
      BY <3>2, AsTextIs
    <3>4. B \in Seq(Parts)
      BY <3>1, TokenType
    <3>5. fb[e + 2] \in Outs
      <4>1. e + 2 \in 1..(n + 1)
        BY ONLY <1>0, <1>4, <1>9, e \in Nat
      <4> QED
        BY <4>1 DEF Loops
    <3>6. d + k \in 1..(N + 1)
      BY ONLY <1>0, <2>2
    <3>7. ft[d + k] \in Outs
      BY <3>6 DEF Loops
    <3> QED
      BY <3>3, <3>4, <3>5, <3>7 DEF Outs
  <2>13. ft[x].parts = fb[i].parts \o D
    <3>1. A \o B \in Seq(Parts)
      BY <2>12, ConcatProperties
    <3> PICK E : E = A \o B
      OBVIOUS
    <3>2. Regroups(E, C, D, D)
      BY ONLY <2>12, <3>1, E = A \o B, Regrouped
    <3>3. (E \o C) \o D = E \o (C \o D)
      BY <3>2 DEF Regroups
    <3> QED
      BY <2>8, <2>9, <2>10, <2>11, <3>3
  <2>14. Carries(t, b, d, ft, fb, i, k)
    BY <2>8, <2>9, <2>11, <2>13 DEF Carries
  <2> QED
    BY <2>2, <2>14
<1> QED
  BY <1>7, <1>8, <1>9

(* What waits in a text waits in what the text is continued from,            *)
LEMMA LingersMoves ==
    ASSUME NEW t \in Seq(Int), NEW b \in Seq(Int), NEW d \in Nat, Extends(t, b, d),
           Len(t) = d + Len(b), NEW k \in 1..(Len(b) + 1)
    PROVE  Lingers(t, d + k) <=> Lingers(b, k)
<1> PICK n \in Nat, N \in Nat : n = Len(b) /\ N = Len(t)
  OBVIOUS
<1>0. n \in Nat /\ N \in Nat /\ d \in Nat /\ k \in Nat /\ 1 <= k /\ k <= n + 1 /\ N = d + n
  OBVIOUS
<1>1. \A x \in 1..n : t[d + x] = b[x]
  BY DEF Extends
<1>2. (d + k) + 1 >= N <=> k + 1 >= n
  BY ONLY <1>0
<1>3. (\A p \in (d + k)..N : t[p] = Open) <=> (\A q \in k..n : b[q] = Open)
  <2>1. ASSUME \A p \in (d + k)..N : t[p] = Open, NEW q \in k..n PROVE b[q] = Open
    <3>1. q \in 1..n /\ d + q \in (d + k)..N
      BY ONLY <1>0, q \in k..n
    <3> QED
      BY <1>1, <2>1, <3>1
  <2>2. ASSUME \A q \in k..n : b[q] = Open, NEW p \in (d + k)..N PROVE t[p] = Open
    <3> PICK q : q = p - d
      OBVIOUS
    <3>1. q \in 1..n /\ q \in k..n /\ p = d + q
      BY ONLY <1>0, p \in (d + k)..N, q = p - d
    <3> QED
      BY <1>1, <2>2, <3>1
  <2> QED
    BY <2>1, <2>2
<1>4. d + k <= N /\ MarkerAt(t, d + k) <=> k <= n /\ MarkerAt(b, k)
  <2>1. ASSUME k + 2 <= n PROVE MarkerAt(t, d + k) <=> MarkerAt(b, k)
    <3>1. k \in 1..n
      BY ONLY <1>0, <2>1
    <3> QED
      BY <2>1, <3>1, ExtendsReads
  <2>2. MarkerAt(t, d + k) => (d + k) + 2 <= N
    BY DEF MarkerAt
  <2>3. MarkerAt(b, k) => k + 2 <= n
    BY DEF MarkerAt
  <2>4. ((d + k) + 2 <= N <=> k + 2 <= n) /\ (d + k <= N <=> k <= n)
    BY ONLY <1>0
  <2> QED
    BY ONLY <2>1, <2>2, <2>3, <2>4
<1>5. (\A p \in ((d + k) + 3)..N : ~ClosedAt(t, p)) <=> (\A q \in (k + 3)..n : ~ClosedAt(b, q))
  <2>0. ASSUME NEW q \in (k + 3)..n PROVE ClosedAt(t, d + q) <=> ClosedAt(b, q)
    <3>1. q \in 1..n /\ (q + 1 <= n <=> (d + q) + 1 <= N)
      BY ONLY <1>0, q \in (k + 3)..n
    <3>2. q + 1 <= n => (ClosedAt(t, d + q) <=> ClosedAt(b, q))
      BY <3>1, ExtendsReads
    <3>3. (ClosedAt(t, d + q) => (d + q) + 1 <= N) /\ (ClosedAt(b, q) => q + 1 <= n)
      BY DEF ClosedAt
    <3> QED
      BY ONLY <3>1, <3>2, <3>3
  <2>1. ASSUME \A p \in ((d + k) + 3)..N : ~ClosedAt(t, p), NEW q \in (k + 3)..n
        PROVE  ~ClosedAt(b, q)
    <3>1. d + q \in ((d + k) + 3)..N
      BY ONLY <1>0, q \in (k + 3)..n
    <3> QED
      BY <2>0, <2>1, <3>1
  <2>2. ASSUME \A q \in (k + 3)..n : ~ClosedAt(b, q), NEW p \in ((d + k) + 3)..N
        PROVE  ~ClosedAt(t, p)
    <3> PICK q : q = p - d
      OBVIOUS
    <3>1. q \in (k + 3)..n /\ p = d + q
      BY ONLY <1>0, p \in ((d + k) + 3)..N, q = p - d
    <3> QED
      BY <2>0, <2>2, <3>1
  <2> QED
    BY <2>1, <2>2
<1> QED
  BY <1>2, <1>3, <1>4, <1>5 DEF Lingers

(* and nothing is made of it yet.                                            *)
LEMMA LingersStays ==
    ASSUME NEW t \in Seq(Int), NEW allowed, NEW f, Loops(t, FALSE, allowed, 1, f),
           NEW k \in 1..(Len(t) + 1), Lingers(t, k)
    PROVE  f[k].parts = <<>> /\ f[k].buffer = SubSeq(t, k, Len(t))
<1> PICK n \in Nat : n = Len(t)
  OBVIOUS
<1>0. n \in Nat /\ k \in Nat /\ 1 <= k /\ k <= n + 1
  OBVIOUS
<1>1. PICK s, e \in Nat : Makes(t, allowed, f, k, s, e)
  BY LoopMakes
<1>2. NextMarker(t, k, s) /\ (s # 0 => NextClose(t, s + 3, e))
  BY <1>1 DEF Makes
<1>3. AsText(SubSeq(t, k, k - 1)) = <<>>
  <2>1. SubSeq(t, k, k - 1) = <<>>
    BY <1>0, SubSeqEmpty
  <2>2. AsText(<<>>) \in Seq(Parts) /\ Len(AsText(<<>>)) = 0
    <3>1. <<>> \in Seq(Int) /\ Len(<<>>) = 0
      OBVIOUS
    <3> QED
      BY <3>1, AsTextIs
  <2> QED
    BY <2>1, <2>2, EmptySeq
<1>4. CASE k + 1 >= n /\ \A p \in k..n : t[p] = Open
  <2>1. ASSUME NEW p \in k..n PROVE ~MarkerAt(t, p)
    <3>1. MarkerAt(t, p) => p + 2 <= n
      BY DEF MarkerAt
    <3>2. ~(p + 2 <= n)
      BY ONLY <1>0, <1>4, p \in k..n
    <3> QED
      BY <3>1, <3>2
  <2>2. s = 0
    BY <1>2, <2>1 DEF NextMarker
  <2> PICK h : h = HeldFrom(t, k)
    OBVIOUS
  <2>3. h = n - k + 1
    <3>1. k + 1 <= n => n = k + 1 /\ n - 1 = k
      BY ONLY <1>0, <1>4
    <3>2. k + 1 <= n => t[n - 1] = Open /\ t[n] = Open /\ n - k + 1 = 2
      BY <1>0, <1>4, <3>1
    <3>3. ~(k + 1 <= n) /\ k <= n => k = n /\ n - k + 1 = 1
      BY ONLY <1>0
    <3>4. k <= n => t[n] = Open
      BY <1>0, <1>4
    <3>5. ~(k <= n) => n - k + 1 = 0
      BY ONLY <1>0
    <3>6. k + 1 <= n => k <= n
      BY ONLY <1>0
    <3> QED
      BY ONLY <3>2, <3>3, <3>4, <3>5, <3>6, n = Len(t), h = HeldFrom(t, k) DEF HeldFrom
  <2>4. n - h = k - 1 /\ n - h + 1 = k
    BY ONLY <1>0, <2>3
  <2> QED
    BY <1>1, <1>3, <2>2, <2>4 DEF Makes
<1>5. CASE k <= n /\ MarkerAt(t, k) /\ \A p \in (k + 3)..n : ~ClosedAt(t, p)
  <2>1. NextMarker(t, k, k)
    <3>1. k \in k..n /\ \A p \in k..(k - 1) : FALSE
      BY ONLY <1>0, <1>5
    <3> QED
      BY <1>5, <3>1 DEF NextMarker
  <2>2. s = k
    <3>1. k # 0
      BY <1>0
    <3> QED
      BY <1>0, <1>2, <2>1, <3>1, NextUnique
  <2>3. e = 0
    <3>1. k # 0
      BY <1>0
    <3> QED
      BY <1>2, <1>5, <2>2, <3>1 DEF NextClose
  <2>4. s # 0
    BY <1>0, <2>2
  <2> QED
    BY <1>1, <1>3, <2>2, <2>3, <2>4 DEF Makes
<1> QED
  BY <1>4, <1>5 DEF Lingers

-----------------------------------------------------------------------------
(* What parts render.  A flattened sequence grows piece by piece,            *)
LEMMA FlattenGrows ==
    ASSUME NEW T, NEW seqs \in Seq(Seq(T))
    PROVE  \E g \in [0..Len(seqs) -> Seq(T)] :
              /\ g[0] = <<>> /\ \A i \in 1..Len(seqs) : g[i] = g[i - 1] \o seqs[i]
              /\ g[Len(seqs)] = FlattenSeq(seqs)
<1> PICK n \in Nat : n = Len(seqs)
  OBVIOUS
<1> PICK flat : flat = Flat(seqs)
  OBVIOUS
<1>1. /\ flat \in [1..n -> Seq(T)]
      /\ \A i \in 1..n : flat[i] = IF i = 1 THEN seqs[i] ELSE flat[i - 1] \o seqs[i]
      /\ FlattenSeq(seqs) = IF n = 0 THEN <<>> ELSE flat[n]
  BY FlatIs
<1>2. \A i \in 1..n : seqs[i] \in Seq(T)
  OBVIOUS
<1> DEFINE g == [i \in 0..n |-> IF i = 0 THEN <<>> ELSE flat[i]]
<1>3. g[0] = <<>> /\ \A i \in 1..n : g[i] = flat[i]
  OBVIOUS
<1>4. g \in [0..n -> Seq(T)]
  <2>1. <<>> \in Seq(T)
    OBVIOUS
  <2>2. \A i \in 1..n : flat[i] \in Seq(T)
    BY <1>1
  <2> QED
    BY <2>1, <2>2
<1>5. g[n] = FlattenSeq(seqs)
  BY <1>1
<1> HIDE DEF g
<1>6. ASSUME NEW i \in 1..n PROVE g[i] = g[i - 1] \o seqs[i]
  <2>1. CASE i = 1
    <3>1. flat[i] = seqs[i]
      BY <1>1, <2>1
    <3>0. i - 1 = 0
      BY <2>1
    <3>4. g[i - 1] = <<>>
      BY <1>3, <3>0
    <3>2. <<>> \o seqs[i] = seqs[i]
      BY <1>2, ConcatEmptySeq
    <3> QED
      BY <1>3, <3>1, <3>2, <3>4
  <2>2. CASE i # 1
    <3>1. i - 1 \in 1..n
      BY <2>2
    <3> QED
      BY <1>1, <1>3, <2>2, <3>1
  <2> QED
    BY <2>1, <2>2
<1> QED
  BY <1>3, <1>4, <1>5, <1>6

(* in one way only,                                                          *)
LEMMA FlattenOnly ==
    ASSUME NEW T, NEW seqs \in Seq(Seq(T)), NEW g,
           g[0] = <<>>, \A i \in 1..Len(seqs) : g[i] = g[i - 1] \o seqs[i]
    PROVE  g[Len(seqs)] = FlattenSeq(seqs)
<1> PICK n \in Nat : n = Len(seqs)
  OBVIOUS
<1>1. PICK h \in [0..n -> Seq(T)] :
              /\ h[0] = <<>> /\ \A i \in 1..n : h[i] = h[i - 1] \o seqs[i]
              /\ h[n] = FlattenSeq(seqs)
  BY FlattenGrows
<1> DEFINE P == {i \in Nat : i <= n => g[i] = h[i]}
<1>2. 0 \in P
  BY <1>1
<1>3. ASSUME NEW i \in Nat, i \in P PROVE i + 1 \in P
  <2> SUFFICES ASSUME i + 1 <= n PROVE g[i + 1] = h[i + 1]
    OBVIOUS
  <2>1. i + 1 \in 1..n /\ (i + 1) - 1 = i
    OBVIOUS
  <2>2. g[i] = h[i]
    BY <1>3
  <2>3. g[i + 1] = g[(i + 1) - 1] \o seqs[i + 1] /\ h[i + 1] = h[(i + 1) - 1] \o seqs[i + 1]
    BY <1>1, <2>1
  <2> QED
    BY <2>1, <2>2, <2>3
<1> HIDE DEF P
<1>4. n \in P
  BY <1>2, <1>3, Induction
<1>5. g[n] = h[n]
  BY <1>4 DEF P
<1> QED
  BY <1>1, <1>5

(* so that a sequence in two pieces flattens to two.                         *)
LEMMA FlattenSplits ==
    ASSUME NEW T, NEW a \in Seq(Seq(T)), NEW b \in Seq(Seq(T))
    PROVE  FlattenSeq(a \o b) = FlattenSeq(a) \o FlattenSeq(b)
<1> PICK m \in Nat, n \in Nat : m = Len(a) /\ n = Len(b)
  OBVIOUS
<1>1. PICK f \in [0..m -> Seq(T)] :
              /\ f[0] = <<>> /\ \A i \in 1..m : f[i] = f[i - 1] \o a[i]
              /\ f[m] = FlattenSeq(a)
  BY FlattenGrows
<1>2. PICK g \in [0..n -> Seq(T)] :
              /\ g[0] = <<>> /\ \A i \in 1..n : g[i] = g[i - 1] \o b[i]
              /\ g[n] = FlattenSeq(b)
  BY FlattenGrows
<1> PICK c : c = a \o b
  OBVIOUS
<1>3. c \in Seq(Seq(T)) /\ Len(c) = m + n
      /\ \A i \in 1..(m + n) : c[i] = IF i <= m THEN a[i] ELSE b[i - m]
  BY ConcatProperties
<1> DEFINE h == [i \in 0..(m + n) |-> IF i <= m THEN f[i] ELSE f[m] \o g[i - m]]
<1>4. /\ \A i \in 0..m : h[i] = f[i]
      /\ \A j \in 1..n : h[m + j] = f[m] \o g[j]
  <2>1. \A i \in 0..m : h[i] = f[i]
    OBVIOUS
  <2>2. ASSUME NEW j \in 1..n PROVE h[m + j] = f[m] \o g[j]
    <3> PICK i : i = m + j
      OBVIOUS
    <3>1. i \in 0..(m + n) /\ ~(i <= m) /\ i - m = j
      BY ONLY j \in 1..n, i = m + j, m \in Nat, n \in Nat
    <3>2. h[i] = f[m] \o g[i - m]
      BY <3>1
    <3> HIDE DEF h
    <3> QED
      BY <3>1, <3>2
  <2> HIDE DEF h
  <2> QED
    BY <2>1, <2>2
<1> HIDE DEF h
<1>5. f[m] \in Seq(T)
  BY <1>1
<1>6. h[0] = <<>> /\ h[m] = f[m]
  BY <1>1, <1>4
<1>7. ASSUME NEW i \in 1..(m + n) PROVE h[i] = h[i - 1] \o c[i]
  <2>1. CASE i <= m
    <3>1. i \in 1..m /\ i \in 0..m /\ i - 1 \in 0..m
      BY <2>1
    <3>2. c[i] = a[i]
      BY <1>3, <2>1
    <3> QED
      BY <1>1, <1>4, <3>1, <3>2
  <2>2. CASE ~(i <= m)
    <3> PICK j : j = i - m
      OBVIOUS
    <3>1. j \in 1..n /\ i = m + j /\ j \in 0..n /\ j - 1 \in 0..n
      BY ONLY <2>2, i \in 1..(m + n), j = i - m, m \in Nat, n \in Nat
    <3>2. c[i] = b[j] /\ h[i] = f[m] \o g[j] /\ g[j] = g[j - 1] \o b[j]
      BY <1>2, <1>3, <1>4, <2>2, <3>1
    <3>3. h[i - 1] = f[m] \o g[j - 1]
      <4>1. CASE j = 1
        <5>0. i - 1 = m /\ j - 1 = 0
          BY ONLY <3>1, <4>1, m \in Nat
        <5>1. g[j - 1] = <<>>
          BY <1>2, <5>0
        <5>2. f[m] \o <<>> = f[m]
          BY <1>5, ConcatEmptySeq
        <5> QED
          BY <1>6, <5>0, <5>1, <5>2
      <4>2. CASE j # 1
        <5>1. j - 1 \in 1..n /\ i - 1 = m + (j - 1)
          BY ONLY <3>1, <4>2, j \in 1..n, m \in Nat, n \in Nat
        <5> QED
          BY <1>4, <5>1
      <4> QED
        BY <4>1, <4>2
    <3>4. g[j - 1] \in Seq(T) /\ b[j] \in Seq(T)
      <4>1. g[j - 1] \in Seq(T)
        BY <1>2, <3>1
      <4>2. b[j] \in Seq(T)
        BY <3>1
      <4> QED
        BY <4>1, <4>2
    <3>5. (f[m] \o g[j - 1]) \o b[j] = f[m] \o (g[j - 1] \o b[j])
      <4> PICK x, y, z : x = f[m] /\ y = g[j - 1] /\ z = b[j]
        OBVIOUS
      <4>1. Regroups(x, y, z, z)
        BY <1>5, <3>4, Regrouped
      <4> QED
        BY <4>1 DEF Regroups
    <3> QED
      BY <3>2, <3>3, <3>5
  <2> QED
    BY <2>1, <2>2
<1>8. h[m + n] = FlattenSeq(c)
  <2>1. \A i \in 1..Len(c) : h[i] = h[i - 1] \o c[i]
    BY <1>3, <1>7
  <2> QED
    BY <1>3, <1>6, <2>1, FlattenOnly
<1>9. h[m + n] = f[m] \o g[n]
  <2>1. CASE n = 0
    <3>1. g[n] = <<>> /\ m + n = m
      BY <1>2, <2>1
    <3>2. f[m] \o <<>> = f[m]
      BY <1>5, ConcatEmptySeq
    <3> QED
      BY <1>6, <3>1, <3>2
  <2>2. CASE n # 0
    <3>1. n \in 1..n
      BY <2>2
    <3> QED
      BY <1>4, <3>1
  <2> QED
    BY <2>1, <2>2
<1> QED
  BY <1>1, <1>2, <1>8, <1>9

(* One sequence flattened is that sequence.                                  *)
LEMMA FlattenOne ==
    ASSUME NEW T, NEW x \in Seq(T)
    PROVE  FlattenSeq(<<x>>) = x
<1> PICK s : s = <<x>>
  OBVIOUS
<1>1. s \in Seq(Seq(T)) /\ Len(s) = 1 /\ s[1] = x
  OBVIOUS
<1>2. PICK g \in [0..1 -> Seq(T)] :
              /\ g[0] = <<>> /\ \A i \in 1..1 : g[i] = g[i - 1] \o s[i]
              /\ g[1] = FlattenSeq(s)
  BY <1>1, FlattenGrows
<1>3. g[1] = g[0] \o x
  <2>1. 1 \in 1..1 /\ 1 - 1 = 0
    OBVIOUS
  <2> QED
    BY <1>1, <1>2, <2>1
<1>4. <<>> \o x = x
  BY ConcatEmptySeq
<1> QED
  BY <1>2, <1>3, <1>4

(* A sequence cut into single values flattens to itself.                     *)
LEMMA FlattenUnits ==
    ASSUME NEW S, NEW s \in Seq(S), NEW r \in Seq(Seq(S)), Len(r) = Len(s),
           \A i \in 1..Len(s) : r[i] = <<s[i]>>
    PROVE  FlattenSeq(r) = s
<1> PICK n \in Nat : n = Len(s)
  OBVIOUS
<1> DEFINE g == [i \in 0..n |-> SubSeq(s, 1, i)]
<1>3. \A i \in 0..n : g[i] = SubSeq(s, 1, i)
  OBVIOUS
<1> HIDE DEF g
<1>4. g[0] = <<>>
  BY <1>3, SubSeqEmpty
<1>5. ASSUME NEW i \in 1..n PROVE g[i] = g[i - 1] \o r[i]
  <2>1. i \in 1..n /\ i \in 0..n /\ i - 1 \in 0..n /\ 1 <= i /\ 1 \in 1..n /\ i \in 1..Len(s)
    OBVIOUS
  <2>2. SubSeq(s, 1, i) = SubSeq(s, 1, i - 1) \o <<s[i]>>
    BY <2>1, SubSeqRecursiveSecond
  <2>3. r[i] = <<s[i]>>
    BY <2>1
  <2> QED
    BY <1>3, <2>1, <2>2, <2>3
<1>6. g[n] = FlattenSeq(r)
  BY <1>4, <1>5, FlattenOnly
<1>7. g[n] = s
  <2>1. SubSeq(s, 1, n) = s
    BY SubSeqFull
  <2>2. n \in 0..n
    OBVIOUS
  <2> QED
    BY ONLY <1>3, <2>1, <2>2
<1> QED
  BY <1>6, <1>7

(* The characters of a part,                                                 *)
Renders(p) == IF p.kind = "text" THEN <<p.at>> ELSE Marker \o <<p.at, Close, Close>>
Rendering(parts) == [i \in DOMAIN parts |-> Renders(parts[i])]

(* What is rendered is what each part renders, one after the other.          *)
LEMMA RenderedIs ==
    ASSUME NEW parts \in Seq(Parts)
    PROVE  /\ Rendered(parts) = FlattenSeq(Rendering(parts))
           /\ Rendering(parts) \in Seq(Seq(Int)) /\ Len(Rendering(parts)) = Len(parts)
           /\ \A i \in 1..Len(parts) : Rendering(parts)[i] = Renders(parts[i])
           /\ Rendered(parts) \in Seq(Int)
<1> PICK n \in Nat : n = Len(parts)
  OBVIOUS
<1>1. DOMAIN parts = 1..n /\ \A i \in 1..n : parts[i] \in Parts
  OBVIOUS
<1>2. \A p \in Parts : Renders(p) \in Seq(Int)
  <2>1. Marker \in Seq(Int)
    BY DEF Marker, Open, Cite
  <2> SUFFICES ASSUME NEW p \in Parts PROVE Renders(p) \in Seq(Int)
    OBVIOUS
  <2>2. p.at \in Int
    BY DEF Parts
  <2>3. <<p.at>> \in Seq(Int) /\ <<p.at, Close, Close>> \in Seq(Int)
    BY <2>2 DEF Close
  <2>4. Marker \o <<p.at, Close, Close>> \in Seq(Int)
    BY <2>1, <2>3, ConcatProperties
  <2> QED
    BY <2>3, <2>4 DEF Renders
<1>3. Rendered(parts) = FlattenSeq(Rendering(parts))
  BY DEF Rendered, Rendering, Renders
<1> HIDE DEF Renders
<1>4. Rendering(parts) = [i \in 1..n |-> Renders(parts[i])]
  BY <1>1 DEF Rendering
<1>5. Rendering(parts) \in Seq(Seq(Int)) /\ Len(Rendering(parts)) = n
      /\ \A i \in 1..n : Rendering(parts)[i] = Renders(parts[i])
  BY <1>1, <1>2, <1>4
<1>6. FlattenSeq(Rendering(parts)) \in Seq(Int)
  BY <1>5, FlatType
<1> QED
  BY <1>3, <1>5, <1>6

(* of parts in two pieces,                                                   *)
LEMMA RenderedSplits ==
    ASSUME NEW a \in Seq(Parts), NEW b \in Seq(Parts)
    PROVE  Rendered(a \o b) = Rendered(a) \o Rendered(b)
<1> PICK m \in Nat, n \in Nat : m = Len(a) /\ n = Len(b)
  OBVIOUS
<1> PICK c : c = a \o b
  OBVIOUS
<1>1. c \in Seq(Parts) /\ Len(c) = m + n
      /\ \A i \in 1..(m + n) : c[i] = IF i <= m THEN a[i] ELSE b[i - m]
  BY ConcatProperties
<1> PICK x, y, z : x = Rendering(a) /\ y = Rendering(b) /\ z = Rendering(c)
  OBVIOUS
<1>2. /\ x \in Seq(Seq(Int)) /\ Len(x) = m /\ \A i \in 1..m : x[i] = Renders(a[i])
      /\ y \in Seq(Seq(Int)) /\ Len(y) = n /\ \A i \in 1..n : y[i] = Renders(b[i])
      /\ z \in Seq(Seq(Int)) /\ Len(z) = m + n /\ \A i \in 1..(m + n) : z[i] = Renders(c[i])
  BY <1>1, RenderedIs
<1>3. x \o y \in Seq(Seq(Int)) /\ Len(x \o y) = m + n
      /\ \A i \in 1..(m + n) : (x \o y)[i] = IF i <= m THEN x[i] ELSE y[i - m]
  <2>1. x \in Seq(Seq(Int)) /\ y \in Seq(Seq(Int)) /\ Len(x) = m /\ Len(y) = n
    BY <1>2
  <2> QED
    BY ONLY <2>1, ConcatProperties
<1>4. ASSUME NEW i \in 1..(m + n) PROVE (x \o y)[i] = z[i]
  <2>1. CASE i <= m
    BY <1>1, <1>2, <1>3, <2>1
  <2>2. CASE ~(i <= m)
    <3> PICK j : j = i - m
      OBVIOUS
    <3>1. j \in 1..n
      BY ONLY <2>2, i \in 1..(m + n), m \in Nat, n \in Nat, j = i - m
    <3>2. (x \o y)[i] = y[j] /\ c[i] = b[j]
      BY <1>1, <1>3, <2>2
    <3>3. y[j] = Renders(b[j]) /\ z[i] = Renders(c[i])
      BY <1>2, <3>1
    <3> QED
      BY ONLY <3>2, <3>3
  <2> QED
    BY <2>1, <2>2
<1>5. x \o y = z
  BY <1>2, <1>3, <1>4, SeqEqual
<1>6. FlattenSeq(x \o y) = FlattenSeq(x) \o FlattenSeq(y)
  BY <1>2, FlattenSplits
<1>7. Rendered(a) = FlattenSeq(x) /\ Rendered(b) = FlattenSeq(y) /\ Rendered(c) = FlattenSeq(z)
  BY <1>1, RenderedIs
<1> QED
  BY <1>5, <1>6, <1>7

(* of text,                                                                  *)
LEMMA RenderedText ==
    ASSUME NEW s \in Seq(Int)
    PROVE  Rendered(AsText(s)) = s
<1> PICK n \in Nat : n = Len(s)
  OBVIOUS
<1> PICK p : p = AsText(s)
  OBVIOUS
<1>1. p \in Seq(Parts) /\ Len(p) = n /\ \A i \in 1..n : p[i] = Text(s[i])
  BY AsTextIs
<1> PICK r : r = Rendering(p)
  OBVIOUS
<1>2. /\ Rendered(p) = FlattenSeq(r) /\ r \in Seq(Seq(Int)) /\ Len(r) = n
      /\ \A i \in 1..n : r[i] = Renders(p[i])
  BY <1>1, RenderedIs
<1>3. ASSUME NEW i \in 1..n PROVE r[i] = <<s[i]>>
  <2>1. r[i] = Renders(Text(s[i]))
    BY <1>1, <1>2
  <2> QED
    BY <2>1 DEF Renders, Text
<1>4. FlattenSeq(r) = s
  BY <1>2, <1>3, FlattenUnits
<1> QED
  BY <1>2, <1>4

(* and of a marker.                                                          *)
LEMMA RenderedToken ==
    ASSUME NEW t \in Seq(Int), NEW allowed, NEW s \in 1..Len(t), NEW e \in (s + 3)..Len(t),
           e + 1 <= Len(t), MarkerAt(t, s), ClosedAt(t, e)
    PROVE  Rendered(Token(t, allowed, s, e)) = SubSeq(t, s, e + 1)
<1> PICK n \in Nat : n = Len(t)
  OBVIOUS
<1>0. s \in Nat /\ e \in Nat /\ 1 <= s /\ s + 3 <= e /\ e + 1 <= n
  OBVIOUS
<1>1. SubSeq(t, s, e + 1) \in Seq(Int)
  OBVIOUS
<1>2. CASE ~(e = s + 4 /\ t[e - 1] \in allowed)
  <2>1. Token(t, allowed, s, e) = AsText(SubSeq(t, s, e + 1))
    BY <1>2 DEF Token
  <2> QED
    BY <1>1, <2>1, RenderedText
<1>3. CASE e = s + 4 /\ t[e - 1] \in allowed
  <2> PICK c : c = t[e - 1]
    OBVIOUS
  <2>1. c \in Int /\ c = t[s + 3]
    <3>1. e - 1 = s + 3 /\ e - 1 \in 1..n
      BY ONLY <1>0, <1>3
    <3> QED
      BY <3>1
  <2> PICK q : q = Citation(c)
    OBVIOUS
  <2>2. q \in Parts /\ q.kind = "citation" /\ q.at = c
    BY <2>1 DEF Citation, Parts
  <2> PICK p : p = <<q>>
    OBVIOUS
  <2>3. Token(t, allowed, s, e) = p
    BY <1>3 DEF Token
  <2>4. p \in Seq(Parts) /\ Len(p) = 1 /\ p[1] = q
    BY <2>2
  <2> PICK r : r = Rendering(p)
    OBVIOUS
  <2>5. /\ Rendered(p) = FlattenSeq(r) /\ r \in Seq(Seq(Int)) /\ Len(r) = 1
        /\ r[1] = Renders(q)
    <3>1. /\ Rendered(p) = FlattenSeq(r) /\ r \in Seq(Seq(Int)) /\ Len(r) = 1
          /\ \A i \in 1..1 : r[i] = Renders(p[i])
      BY <2>4, RenderedIs
    <3>2. r[1] = Renders(p[1])
      BY <3>1
    <3> QED
      BY <2>4, <3>1, <3>2
  <2> PICK x : x = Renders(q)
    OBVIOUS
  <2>6. x = Marker \o <<c, Close, Close>>
    BY <2>2 DEF Renders
  <2>7. r = <<x>> /\ x \in Seq(Int)
    <3>1. x \in Seq(Int)
      BY <2>5
    <3>2. \A i \in 1..1 : r[i] = <<x>>[i]
      BY <2>5
    <3>3. <<x>> \in Seq(Seq(Int)) /\ Len(<<x>>) = 1
      BY <3>1
    <3> QED
      BY <2>5, <3>1, <3>2, <3>3, SeqEqual
  <2>8. Rendered(p) = x
    BY <2>5, <2>7, FlattenOne
  <2>9. x \in Seq(Int) /\ Len(x) = 6 /\ x[1] = Open /\ x[2] = Open /\ x[3] = Cite
        /\ x[4] = c /\ x[5] = Close /\ x[6] = Close
    <3> PICK a, b : a = Marker /\ b = <<c, Close, Close>>
      OBVIOUS
    <3>1. a \in Seq(Int) /\ Len(a) = 3 /\ a[1] = Open /\ a[2] = Open /\ a[3] = Cite
      BY DEF Marker, Open, Cite
    <3>2. b \in Seq(Int) /\ Len(b) = 3 /\ b[1] = c /\ b[2] = Close /\ b[3] = Close
      BY <2>1 DEF Close
    <3>3. /\ Len(a \o b) = Len(a) + Len(b)
          /\ \A i \in 1..(Len(a) + Len(b)) :
                (a \o b)[i] = IF i <= Len(a) THEN a[i] ELSE b[i - Len(a)]
      <4>1. a \in Seq(Int) /\ b \in Seq(Int)
        BY <3>1, <3>2
      <4> QED
        BY ONLY <4>1, ConcatProperties
    <3>4. x = a \o b
      BY <2>6
    <3>5. Len(x) = 6 /\ \A i \in 1..6 : x[i] = IF i <= 3 THEN a[i] ELSE b[i - 3]
      <4>1. Len(a) = 3 /\ Len(b) = 3 /\ 3 + 3 = 6
        BY <3>1, <3>2
      <4> QED
        BY ONLY <3>3, <3>4, <4>1
    <3>6. x[1] = a[1] /\ x[2] = a[2] /\ x[3] = a[3]
      BY ONLY <3>5
    <3>7. x[4] = b[1] /\ x[5] = b[2] /\ x[6] = b[3]
      <4>1. x[4] = b[4 - 3] /\ x[5] = b[5 - 3] /\ x[6] = b[6 - 3]
        BY ONLY <3>5
      <4> QED
        BY ONLY <4>1
    <3> QED
      BY ONLY <2>7, <3>1, <3>2, <3>5, <3>6, <3>7
  <2> PICK u : u = SubSeq(t, s, e + 1)
    OBVIOUS
  <2>10. u \in Seq(Int) /\ Len(u) = 6 /\ \A i \in 1..6 : u[i] = t[s + i - 1]
    <3>1. s \in 1..(n + 1) /\ e + 1 \in 0..n /\ e + 1 + 1 >= s /\ (e + 1) - s + 1 = 6
      BY ONLY <1>0, <1>3
    <3> PICK y : y = e + 1
      OBVIOUS
    <3>2. y \in 0..n /\ y + 1 >= s /\ y - s + 1 = 6
      BY <3>1
    <3>3. u \in Seq(Int) /\ Len(u) = y - s + 1 /\ \A i \in 1..(y - s + 1) : u[i] = t[s + i - 1]
      BY <3>1, <3>2, SubIs
    <3> QED
      BY <3>2, <3>3
  <2>11. /\ u[1] = t[s] /\ u[2] = t[s + 1] /\ u[3] = t[s + 2] /\ u[4] = t[s + 3]
         /\ u[5] = t[s + 4] /\ u[6] = t[s + 5]
    <3>0. \A i \in 1..6 : u[i] = t[s + i - 1]
      BY <2>10
    <3>1. u[1] = t[s + 1 - 1] /\ u[2] = t[s + 2 - 1] /\ u[3] = t[s + 3 - 1] /\ u[4] = t[s + 4 - 1]
          /\ u[5] = t[s + 5 - 1] /\ u[6] = t[s + 6 - 1]
      BY ONLY <3>0
    <3>2. /\ s + 1 - 1 = s /\ s + 2 - 1 = s + 1 /\ s + 3 - 1 = s + 2 /\ s + 4 - 1 = s + 3
          /\ s + 5 - 1 = s + 4 /\ s + 6 - 1 = s + 5
      BY ONLY <1>0
    <3> QED
      BY <3>1, <3>2
  <2>12. /\ t[s] = Open /\ t[s + 1] = Open /\ t[s + 2] = Cite
         /\ t[s + 4] = Close /\ t[s + 5] = Close
    <3>1. t[s] = Open /\ t[s + 1] = Open /\ t[s + 2] = Cite
      BY DEF MarkerAt
    <3>2. t[e] = Close /\ t[e + 1] = Close
      BY DEF ClosedAt
    <3>3. e + 1 = s + 5
      BY <1>3
    <3> QED
      BY <1>3, <3>1, <3>2, <3>3
  <2>13. \A i \in 1..6 : x[i] = u[i]
    <3>1. \A i \in 1..6 : i = 1 \/ i = 2 \/ i = 3 \/ i = 4 \/ i = 5 \/ i = 6
      OBVIOUS
    <3> QED
      BY <2>1, <2>9, <2>11, <2>12, <3>1
  <2>14. x = u
    BY <2>9, <2>10, <2>13, SeqEqual
  <2> QED
    BY <2>3, <2>8, <2>14
<1> QED
  BY <1>2, <1>3

(* Parts that an answer may show: text, and citations that are allowed.      *)
Shown(parts, allowed) ==
    \A j \in 1..Len(parts) : parts[j].kind = "text" \/ parts[j].at \in allowed

(* Parts with reachable citations joined have reachable citations.           *)
LEMMA ShownSplits ==
    ASSUME NEW a \in Seq(Parts), NEW b \in Seq(Parts), NEW allowed
    PROVE  Shown(a, allowed) /\ Shown(b, allowed) => Shown(a \o b, allowed)
<1> SUFFICES ASSUME Shown(a, allowed), Shown(b, allowed) PROVE Shown(a \o b, allowed)
  OBVIOUS
<1> PICK m \in Nat, n \in Nat : m = Len(a) /\ n = Len(b)
  OBVIOUS
<1> PICK c : c = a \o b
  OBVIOUS
<1>1. Len(c) = m + n /\ \A i \in 1..(m + n) : c[i] = IF i <= m THEN a[i] ELSE b[i - m]
  BY ConcatProperties
<1>2. ASSUME NEW i \in 1..(m + n) PROVE c[i].kind = "text" \/ c[i].at \in allowed
  <2>1. CASE i <= m
    <3>1. c[i] = a[i] /\ i \in 1..m
      BY <1>1, <2>1
    <3> QED
      BY <3>1 DEF Shown
  <2>2. CASE ~(i <= m)
    <3>1. c[i] = b[i - m] /\ i - m \in 1..n
      BY <1>1, <2>2
    <3> QED
      BY <3>1 DEF Shown
  <2> QED
    BY <2>1, <2>2
<1> QED
  BY <1>1, <1>2 DEF Shown

(* Text has no citation.                                                     *)
LEMMA ShownText ==
    ASSUME NEW s \in Seq(Int), NEW allowed
    PROVE  Shown(AsText(s), allowed)
<1>1. \A i \in 1..Len(s) : AsText(s)[i] = Text(s[i]) /\ Len(AsText(s)) = Len(s)
  BY AsTextIs
<1>2. \A x : Text(x).kind = "text"
  BY DEF Text
<1>3. Len(AsText(s)) = Len(s)
  BY AsTextIs
<1> QED
  BY <1>1, <1>2, <1>3 DEF Shown

(* A token is shown as a citation only of an allowed source.                 *)
LEMMA ShownToken ==
    ASSUME NEW t \in Seq(Int), NEW allowed, NEW s \in 1..Len(t), NEW e \in s..Len(t),
           e + 1 <= Len(t)
    PROVE  Shown(Token(t, allowed, s, e), allowed)
<1>1. SubSeq(t, s, e + 1) \in Seq(Int)
  OBVIOUS
<1>2. Shown(AsText(SubSeq(t, s, e + 1)), allowed)
  BY <1>1, ShownText
<1>3. ASSUME t[e - 1] \in allowed PROVE Shown(<<Citation(t[e - 1])>>, allowed)
  BY <1>3 DEF Shown, Citation
<1> QED
  BY <1>2, <1>3 DEF Token

(* What is told and what waits are the whole text, each character once.      *)
Whole(b, f, allowed, i) ==
    /\ Rendered(f[i].parts) \o f[i].buffer = SubSeq(b, i, Len(b))
    /\ Shown(f[i].parts, allowed)

(* If the loop from every later place renders the text it read, it does from *)
(* this one.                                                                 *)
LEMMA StaysWhole ==
    ASSUME NEW b \in Seq(Int), NEW allowed, NEW f, Loops(b, FALSE, allowed, 1, f),
           NEW i \in 1..(Len(b) + 1),
           \A j \in (i + 1)..(Len(b) + 1) : Whole(b, f, allowed, j)
    PROVE  Whole(b, f, allowed, i)
<1> PICK n \in Nat : n = Len(b)
  OBVIOUS
<1>0. n \in Nat /\ i \in Nat /\ 1 <= i /\ i <= n + 1
  OBVIOUS
<1>1. PICK s, e \in Nat : Makes(b, allowed, f, i, s, e)
  BY LoopMakes
<1>2. NextMarker(b, i, s) /\ (s # 0 => NextClose(b, s + 3, e))
  BY <1>1 DEF Makes
<1>3. /\ s # 0 => s \in i..n /\ s + 2 <= n /\ MarkerAt(b, s)
      /\ s # 0 /\ e # 0 => /\ e \in (s + 3)..n /\ e + 1 <= n
                           /\ e + 2 \in (i + 1)..(n + 1) /\ ClosedAt(b, e)
  BY <1>2, StepGoes
<1>4. ASSUME NEW k \in i..(n + 1), f[i].parts = AsText(SubSeq(b, i, k - 1)),
             f[i].buffer = SubSeq(b, k, n)
      PROVE  Whole(b, f, allowed, i)
  <2> PICK u, v : u = SubSeq(b, i, k - 1) /\ v = SubSeq(b, k, n)
    OBVIOUS
  <2>1. u \in Seq(Int) /\ v \in Seq(Int) /\ u \o v = SubSeq(b, i, n)
    <3>1. i \in 1..(n + 1) /\ k \in i..(n + 1) /\ n \in (k - 1)..n
      BY ONLY <1>0, k \in i..(n + 1)
    <3> QED
      BY <3>1, SubText
  <2>2. Rendered(AsText(u)) = u /\ Shown(AsText(u), allowed)
    BY <2>1, RenderedText, ShownText
  <2> QED
    BY <1>4, <2>1, <2>2 DEF Whole
<1>5. CASE s = 0
  <2> PICK h : h = HeldFrom(b, i)
    OBVIOUS
  <2>1. h \in 0..2 /\ h <= n - i + 1
    BY ONLY <1>0, n = Len(b), h = HeldFrom(b, i) DEF HeldFrom
  <2> PICK k : k = n - h + 1
    OBVIOUS
  <2>2. k \in i..(n + 1) /\ k - 1 = n - h
    BY ONLY <1>0, <2>1, k = n - h + 1
  <2>3. f[i].parts = AsText(SubSeq(b, i, k - 1)) /\ f[i].buffer = SubSeq(b, k, n)
    BY <1>1, <1>5, <2>2 DEF Makes
  <2> QED
    BY <1>4, <2>2, <2>3
<1>6. CASE s # 0 /\ e = 0
  <2>1. f[i].parts = AsText(SubSeq(b, i, s - 1)) /\ f[i].buffer = SubSeq(b, s, n)
    BY <1>1, <1>6 DEF Makes
  <2>2. s \in i..(n + 1)
    BY <1>0, <1>3, <1>6
  <2> QED
    BY <1>4, <2>1, <2>2
<1>7. CASE s # 0 /\ e # 0
  <2>0. s \in Nat /\ e \in Nat /\ i <= s /\ s + 3 <= e /\ e + 1 <= n
    BY <1>0, <1>3, <1>7
  <2> PICK k : k = e + 2
    OBVIOUS
  <2>1. Whole(b, f, allowed, k) /\ k \in 1..(n + 1) /\ k - 1 = e + 1
    <3>1. k \in (i + 1)..(n + 1) /\ k \in 1..(n + 1) /\ k - 1 = e + 1
      BY ONLY <1>0, <2>0, k = e + 2
    <3> QED
      BY <3>1
  <2> PICK A, B, C, r : /\ A = AsText(SubSeq(b, i, s - 1)) /\ B = Token(b, allowed, s, e)
                        /\ C = f[k].parts /\ r = f[k].buffer
    OBVIOUS
  <2>2. f[i].parts = (A \o B) \o C /\ f[i].buffer = r
    BY <1>1, <1>7 DEF Makes
  <2> PICK u, v, w : u = SubSeq(b, i, s - 1) /\ v = SubSeq(b, s, e + 1) /\ w = SubSeq(b, k, n)
    OBVIOUS
  <2>3. s \in 1..n /\ e \in (s + 3)..n /\ e \in s..n /\ e + 1 <= n /\ s \in i..(n + 1)
        /\ e + 1 \in (s - 1)..n /\ k \in i..(n + 1) /\ n \in (k - 1)..n
    BY ONLY <1>0, <2>0, k = e + 2
  <2>4. u \in Seq(Int) /\ v \in Seq(Int) /\ u \o v = SubSeq(b, i, e + 1)
    BY <2>3, SubText
  <2>5. w \in Seq(Int) /\ SubSeq(b, i, k - 1) \o w = SubSeq(b, i, n)
    BY <2>3, SubText
  <2>6. (u \o v) \o w = SubSeq(b, i, n)
    BY <2>1, <2>4, <2>5
  <2>7. A \in Seq(Parts) /\ Rendered(A) = u /\ Shown(A, allowed)
    BY <2>4, AsTextIs, RenderedText, ShownText
  <2>8. B \in Seq(Parts) /\ Rendered(B) = v /\ Shown(B, allowed)
    <3>1. MarkerAt(b, s) /\ ClosedAt(b, e)
      BY <1>3, <1>7
    <3>2. B \in Seq(Parts)
      BY <2>3, TokenType
    <3>3. Rendered(B) = v
      BY <2>3, <3>1, RenderedToken
    <3>4. Shown(B, allowed)
      BY <2>3, ShownToken
    <3> QED
      BY <3>2, <3>3, <3>4
  <2>9. C \in Seq(Parts) /\ r \in Seq(Int)
    <3>1. f[k] \in Outs
      BY <2>1 DEF Loops
    <3> QED
      BY <3>1 DEF Outs
  <2>10. Rendered(C) \in Seq(Int) /\ Rendered(C) \o r = w /\ Shown(C, allowed)
    <3>1. Rendered(C) \in Seq(Int)
      BY <2>9, RenderedIs
    <3> QED
      BY <2>1, <3>1 DEF Whole
  <2> PICK D : D = A \o B
    OBVIOUS
  <2>11. D \in Seq(Parts) /\ Rendered(D) = u \o v /\ Shown(D, allowed)
    <3>1. D \in Seq(Parts)
      BY <2>7, <2>8, ConcatProperties
    <3>2. Rendered(D) = Rendered(A) \o Rendered(B)
      BY <2>7, <2>8, RenderedSplits
    <3>3. Shown(D, allowed)
      BY <2>7, <2>8, ShownSplits
    <3> QED
      BY <2>7, <2>8, <3>1, <3>2, <3>3
  <2>12. Rendered(D \o C) = (u \o v) \o Rendered(C) /\ Shown(D \o C, allowed)
    <3>1. Rendered(D \o C) = Rendered(D) \o Rendered(C)
      BY <2>9, <2>11, RenderedSplits
    <3>2. Shown(D \o C, allowed)
      BY <2>9, <2>10, <2>11, ShownSplits
    <3> QED
      BY <2>11, <3>1, <3>2
  <2>13. ((u \o v) \o Rendered(C)) \o r = (u \o v) \o (Rendered(C) \o r)
    <3> PICK x, y : x = u \o v /\ y = Rendered(C)
      OBVIOUS
    <3>1. x \in Seq(Int)
      BY <2>4, ConcatProperties
    <3>2. Regroups(x, y, r, r)
      BY <2>9, <2>10, <3>1, Regrouped
    <3> QED
      BY <3>2 DEF Regroups
  <2>14. f[i].parts = D \o C
    BY <2>2
  <2>15. Rendered(f[i].parts) \o f[i].buffer = (u \o v) \o w
    BY <2>2, <2>10, <2>12, <2>13, <2>14
  <2> QED
    BY <2>6, <2>12, <2>14, <2>15 DEF Whole
<1> QED
  BY <1>5, <1>6, <1>7

(* What was made of the shorter text carries over to the longer one.         *)
LEMMA CarriesAll ==
    ASSUME NEW t \in Seq(Int), NEW b \in Seq(Int), NEW d \in Nat, Extends(t, b, d),
           NEW allowed, NEW ft, Loops(t, FALSE, allowed, 1, ft),
           NEW fb, Loops(b, FALSE, allowed, 1, fb)
    PROVE  \E k \in 1..(Len(b) + 1) : Carries(t, b, d, ft, fb, 1, k)
<1> PICK n \in Nat : n = Len(b)
  OBVIOUS
<1> DEFINE P == {i \in 1..(n + 1) : \E k \in i..(n + 1) : Carries(t, b, d, ft, fb, i, k)}
<1>1. ASSUME NEW i \in 1..(n + 1), \A j \in (i + 1)..(n + 1) : j \in P PROVE i \in P
  <2>1. \A j \in (i + 1)..(n + 1) : \E k \in j..(n + 1) : Carries(t, b, d, ft, fb, j, k)
    BY <1>1
  <2>2. \E k \in i..(n + 1) : Carries(t, b, d, ft, fb, i, k)
    BY <2>1, CarriesOn
  <2> QED
    BY <2>2
<1>2. P \in SUBSET (1..(n + 1)) /\ 1 \in 1..(n + 1)
  OBVIOUS
<1>3. P = 1..(n + 1)
  <2> HIDE DEF P
  <2> QED BY <1>1, <1>2, Backwards
<1>4. 1 \in P
  <2> HIDE DEF P
  <2> QED BY <1>2, <1>3
<1> QED
  BY <1>4

(* What a drain of the buffer makes of it.                                   *)
LEMMA DrainIs ==
    ASSUME NEW b \in Seq(Int), NEW allowed, NEW dr, dr = Drain(b, FALSE, allowed)
    PROVE  /\ dr.parts \in Seq(Parts) /\ dr.buffer \in Seq(Int)
           /\ Rendered(dr.parts) \o dr.buffer = b
           /\ Shown(dr.parts, allowed)
           /\ \E k \in 1..(Len(b) + 1) : dr.buffer = SubSeq(b, k, Len(b)) /\ Lingers(b, k)
<1> PICK n \in Nat : n = Len(b)
  OBVIOUS
<1> PICK f : f = Drained(b, FALSE, allowed)
  OBVIOUS
<1>1. Loops(b, FALSE, allowed, 1, f) /\ dr = f[1]
  BY DrainedIs, DrainUnfolds
<1>2. dr \in Outs /\ 1 \in 1..(n + 1)
  <2>1. 1 \in 1..(n + 1)
    OBVIOUS
  <2> QED
    BY <1>1, <2>1 DEF Loops
<1>3. Whole(b, f, allowed, 1)
  <2> DEFINE P == {i \in 1..(n + 1) : Whole(b, f, allowed, i)}
  <2>1. ASSUME NEW i \in 1..(n + 1), \A j \in (i + 1)..(n + 1) : j \in P PROVE i \in P
    BY <1>1, <2>1, StaysWhole
  <2>2. P \in SUBSET (1..(n + 1))
    OBVIOUS
  <2>3. P = 1..(n + 1)
    <3> HIDE DEF P
    <3> QED BY <2>1, <2>2, Backwards
  <2> QED
    BY <1>2, <2>3
<1>4. \E k \in 1..(n + 1) : Carries(b, b, 0, f, f, 1, k)
  <2>1. Extends(b, b, 0)
    BY DEF Extends
  <2> QED
    BY <1>1, <2>1, CarriesAll
<1>5. SubSeq(b, 1, n) = b
  BY SubSeqFull
<1> QED
  BY <1>1, <1>2, <1>3, <1>4, <1>5 DEF Outs, Whole, Carries

(* What waits is read again in front of what follows: a text in two pieces   *)
(* is drained as it is in one.                                               *)
Continues(b, x, allowed) ==
    LET dr == Drain(b, FALSE, allowed)
        o == Drain(dr.buffer \o x, FALSE, allowed)
        all == Drain(b \o x, FALSE, allowed)
    IN all.parts = dr.parts \o o.parts /\ all.buffer = o.buffer

(* Draining a buffer and then what it left with more text behind is draining *)
(* both in one piece.                                                        *)
LEMMA DrainGoesOn ==
    ASSUME NEW b \in Seq(Int), NEW x \in Seq(Int), NEW allowed
    PROVE  Continues(b, x, allowed)
<1> PICK dr : dr = Drain(b, FALSE, allowed)
  OBVIOUS
<1> PICK o : o = Drain(dr.buffer \o x, FALSE, allowed)
  OBVIOUS
<1> PICK all : all = Drain(b \o x, FALSE, allowed)
  OBVIOUS
<1> SUFFICES all.parts = dr.parts \o o.parts /\ all.buffer = o.buffer
  BY DEF Continues
<1> PICK n \in Nat, m \in Nat : n = Len(b) /\ m = Len(x)
  OBVIOUS
<1> PICK t : t = b \o x
  OBVIOUS
<1>1. t \in Seq(Int) /\ Len(t) = n + m
      /\ \A p \in 1..(n + m) : t[p] = IF p <= n THEN b[p] ELSE x[p - n]
  BY ConcatProperties
<1> PICK fb, ft : fb = Drained(b, FALSE, allowed) /\ ft = Drained(t, FALSE, allowed)
  OBVIOUS
<1>2. /\ Loops(b, FALSE, allowed, 1, fb) /\ dr = fb[1]
      /\ Loops(t, FALSE, allowed, 1, ft) /\ all = ft[1]
  BY <1>1, DrainedIs, DrainUnfolds
<1>3. PICK k \in 1..(n + 1) : Carries(t, b, 0, ft, fb, 1, k)
  <2>1. Extends(t, b, 0)
    BY <1>1 DEF Extends
  <2> QED
    BY <1>1, <1>2, <2>1, CarriesAll
<1>4. k \in Nat /\ 1 <= k /\ k <= n + 1
  OBVIOUS
<1>5. dr.buffer = SubSeq(b, k, n) /\ all.parts = dr.parts \o ft[k].parts
      /\ all.buffer = ft[k].buffer
  <2>1. 0 + 1 = 1 /\ 0 + k = k
    BY <1>4
  <2>2. /\ fb[1].buffer = SubSeq(b, k, n)
        /\ ft[0 + 1].parts = fb[1].parts \o ft[0 + k].parts /\ ft[0 + 1].buffer = ft[0 + k].buffer
    BY <1>3 DEF Carries
  <2> QED
    BY <1>2, <2>1, <2>2
<1> PICK r : r = SubSeq(b, k, n)
  OBVIOUS
<1>6. r \in Seq(Int) /\ Len(r) = n - k + 1 /\ n - k + 1 \in Nat
      /\ \A q \in 1..(n - k + 1) : r[q] = b[k + q - 1]
  <2>1. k \in 1..(n + 1) /\ n \in 0..n /\ n + 1 >= k
    BY ONLY <1>4, n \in Nat
  <2> QED
    BY <2>1, SubIs
<1> PICK w, l : w = r \o x /\ l = n - k + 1
  OBVIOUS
<1>7. w \in Seq(Int) /\ Len(w) = l + m
      /\ \A q \in 1..(l + m) : w[q] = IF q <= l THEN r[q] ELSE x[q - l]
  <2>1. r \in Seq(Int) /\ Len(r) = l
    BY <1>6
  <2> QED
    BY ONLY <2>1, x \in Seq(Int), m = Len(x), w = r \o x, ConcatProperties
<1> PICK d : d = k - 1
  OBVIOUS
<1>8. d \in Nat /\ d + l = n /\ l \in Nat /\ d + 1 = k
  BY ONLY <1>4, d = k - 1, l = n - k + 1, n \in Nat
<1>9. Len(t) = d + Len(w)
  BY ONLY <1>1, <1>7, <1>8, m \in Nat
<1>10. Extends(t, w, d)
  <2>1. ASSUME NEW q \in 1..(l + m) PROVE t[d + q] = w[q]
    <3>1. d + q \in 1..(n + m)
      BY ONLY <1>8, q \in 1..(l + m), m \in Nat
    <3>2. CASE q <= l
      <4>1. d + q <= n /\ d + q = k + q - 1 /\ q \in 1..l
        BY ONLY <1>8, <3>2, q \in 1..(l + m), m \in Nat
      <4>2. t[d + q] = b[d + q]
        BY <1>1, <3>1, <4>1
      <4>3. w[q] = r[q] /\ r[q] = b[k + q - 1]
        BY <1>6, <1>7, <3>2, <4>1
      <4> QED
        BY <4>1, <4>2, <4>3
    <3>3. CASE ~(q <= l)
      <4>1. ~(d + q <= n) /\ (d + q) - n = q - l
        BY ONLY <1>8, <3>3, q \in 1..(l + m), m \in Nat
      <4>2. t[d + q] = x[(d + q) - n]
        BY <1>1, <3>1, <4>1
      <4>3. w[q] = x[q - l]
        BY <1>7, <3>3
      <4> QED
        BY <4>1, <4>2, <4>3
    <3> QED
      BY <3>2, <3>3
  <2>2. d + Len(w) <= Len(t)
    BY <1>9, <1>1
  <2> QED
    BY <1>7, <2>1, <2>2 DEF Extends
<1> PICK fw : fw = Drained(w, FALSE, allowed)
  OBVIOUS
<1>11. Loops(w, FALSE, allowed, 1, fw) /\ o = fw[1]
  BY <1>5, <1>7, DrainedIs, DrainUnfolds
<1> PICK c \in Nat : c = Len(w)
  BY ONLY <1>7, <1>8, m \in Nat
<1>12. PICK j \in 1..(c + 1) : Carries(t, w, d, ft, fw, 1, j)
  BY <1>1, <1>2, <1>7, <1>8, <1>10, <1>11, CarriesAll
<1>13. o.buffer = SubSeq(w, j, c) /\ Lingers(w, j)
       /\ ft[k].parts = o.parts \o ft[d + j].parts /\ ft[k].buffer = ft[d + j].buffer
  BY <1>8, <1>11, <1>12 DEF Carries
<1>14. Lingers(t, d + j)
  BY <1>1, <1>7, <1>8, <1>9, <1>10, <1>13, LingersMoves
<1>15. ft[d + j].parts = <<>> /\ ft[d + j].buffer = SubSeq(t, d + j, Len(t))
  <2> PICK z : z = d + j
    OBVIOUS
  <2>1. z \in 1..(Len(t) + 1)
    BY ONLY <1>8, <1>9, c \in Nat, c = Len(w), j \in 1..(c + 1), z = d + j
  <2>2. Lingers(t, z)
    BY <1>14
  <2>3. ft[z].parts = <<>> /\ ft[z].buffer = SubSeq(t, z, Len(t))
    <3>1. t \in Seq(Int) /\ Loops(t, FALSE, allowed, 1, ft)
      BY <1>1, <1>2
    <3> QED
      BY ONLY <2>1, <2>2, <3>1, LingersStays
  <2> QED
    BY <2>3
<1>16. SubSeq(t, d + j, Len(t)) = SubSeq(w, j, c)
  <2>1. j \in 1..(c + 1) /\ c \in 0..c /\ c >= j - 1
    OBVIOUS
  <2>2. \A x1 \in 1..(Len(w) + 1), y1 \in 0..Len(w) : y1 >= x1 - 1 =>
           SubSeq(t, d + x1, d + y1) = SubSeq(w, x1, y1)
    <3>1. t \in Seq(Int) /\ w \in Seq(Int) /\ d \in Nat
      BY <1>1, <1>7, <1>8
    <3> QED
      BY ONLY <1>10, <3>1, ExtendsReads
  <2>3. SubSeq(t, d + j, d + c) = SubSeq(w, j, c)
    BY ONLY <2>1, <2>2, c = Len(w)
  <2> QED
    BY <1>9, <2>3
<1>17. ft[k].parts = o.parts
  <2>1. o.parts \in Seq(Parts)
    <3>1. 1 \in 1..(c + 1)
      BY ONLY c \in Nat
    <3>3. fw \in [1..(c + 1) -> Outs]
      BY ONLY <1>11, c = Len(w) DEF Loops
    <3>2. o \in Outs
      BY ONLY <1>11, <3>1, <3>3
    <3> QED
      BY <3>2 DEF Outs
  <2>2. o.parts \o <<>> = o.parts
    BY <2>1, ConcatEmptySeq
  <2> QED
    BY <1>13, <1>15, <2>2
<1> QED
  BY <1>5, <1>13, <1>15, <1>16, <1>17

(* What waits when the stream ends is text.  (The code would repeat the      *)
(* text before a marker that is not closed; there is none in what waits.)    *)
LEMMA DrainEnds ==
    ASSUME NEW b \in Seq(Int), NEW allowed, NEW k \in 1..(Len(b) + 1), Lingers(b, k),
           NEW r, r = SubSeq(b, k, Len(b))
    PROVE  Drain(r, TRUE, allowed).parts = AsText(r)
<1> PICK n \in Nat : n = Len(b)
  OBVIOUS
<1> PICK l : l = n - k + 1
  OBVIOUS
<1>0. n \in Nat /\ k \in Nat /\ 1 <= k /\ k <= n + 1 /\ l \in Nat
  OBVIOUS
<1>1. r \in Seq(Int) /\ Len(r) = l /\ \A q \in 1..l : r[q] = b[k + q - 1]
  <2>1. k \in 1..(n + 1) /\ n \in 0..n /\ n + 1 >= k
    BY ONLY <1>0
  <2> QED
    BY <2>1, SubIs
<1> PICK d : d = k - 1
  OBVIOUS
<1>2. d \in Nat /\ d + 1 = k /\ n = d + l
  BY ONLY <1>0, d = k - 1, l = n - k + 1
<1>3. Lingers(r, 1)
  <2>1. Extends(b, r, d)
    <3>1. ASSUME NEW q \in 1..l PROVE b[d + q] = r[q]
      <4>1. d + q = k + q - 1
        BY ONLY <1>2, q \in 1..l, l \in Nat, k \in Nat
      <4> QED
        BY <1>1, <4>1
    <3>2. d + l <= n
      BY ONLY <1>0, <1>2
    <3> QED
      BY <1>1, <3>1, <3>2 DEF Extends
  <2>2. 1 \in 1..(Len(r) + 1) /\ Len(b) = d + Len(r)
    BY <1>0, <1>1, <1>2
  <2>3. Lingers(b, d + 1) <=> Lingers(r, 1)
    BY <1>1, <1>2, <2>1, <2>2, LingersMoves
  <2> QED
    BY <1>2, <2>3
<1> PICK f : f = Drained(r, TRUE, allowed)
  OBVIOUS
<1>4. Loops(r, TRUE, allowed, 1, f) /\ Drain(r, TRUE, allowed) = f[1]
  BY <1>1, DrainedIs, DrainUnfolds
<1> PICK one \in Nat : one = 1 /\ one # 0
  OBVIOUS
<1>5. one \in 1..(Len(r) + 1)
  BY <1>0, <1>1
<1>6. PICK s, e \in Nat :
              /\ NextMarker(r, one, s) /\ (s # 0 => NextClose(r, s + 3, e))
              /\ \A from : Step(r, TRUE, allowed, from, one)
                               = StepAt(r, TRUE, allowed, from, one, s, e)
  <2>1. r \in Seq(Int)
    BY <1>1
  <2> QED
    BY ONLY <1>5, <2>1, Stepping
<1> PICK out : out = f[one]
  OBVIOUS
<1>7. out = StepAt(r, TRUE, allowed, f, one, s, e)
  BY <1>4, <1>5, <1>6 DEF Loops
<1>8. SubSeq(r, one, l) = r /\ SubSeq(r, one, one - 1) = <<>>
  <2>1. SubSeq(r, 1, l) = r
    BY <1>1, SubSeqFull
  <2>2. SubSeq(r, one, one - 1) = <<>>
    BY SubSeqEmpty
  <2> QED
    BY <2>1, <2>2
<1>11. AsText(r) \in Seq(Parts) /\ AsText(<<>>) = <<>>
  <2>1. <<>> \in Seq(Int) /\ Len(<<>>) = 0
    OBVIOUS
  <2>2. AsText(<<>>) \in Seq(Parts) /\ Len(AsText(<<>>)) = 0
    BY <2>1, AsTextIs
  <2> QED
    BY <1>1, <2>2, AsTextIs, EmptySeq
<1>9. CASE 1 + 1 >= l /\ \A p \in 1..l : r[p] = Open
  <2>1. ASSUME NEW p \in 1..l PROVE ~MarkerAt(r, p)
    <3>1. MarkerAt(r, p) => p + 2 <= l
      BY <1>1 DEF MarkerAt
    <3>2. ~(p + 2 <= l)
      BY ONLY <1>0, <1>9, p \in 1..l
    <3> QED
      BY <3>1, <3>2
  <2>2. s = 0
    BY <1>1, <1>6, <2>1 DEF NextMarker
  <2>3. out = [parts |-> AsText(SubSeq(r, one, l - 0)), buffer |-> SubSeq(r, l - 0 + 1, l)]
    BY <1>1, <1>7, <2>2 DEF StepAt
  <2>4. l - 0 = l
    BY <1>0
  <2>5. out.parts = AsText(SubSeq(r, one, l - 0))
    BY ONLY <2>3
  <2> QED
    BY <1>4, <1>8, <2>4, <2>5
<1>10. CASE 1 <= l /\ MarkerAt(r, 1) /\ \A p \in (1 + 3)..l : ~ClosedAt(r, p)
  <2>1. NextMarker(r, one, one)
    <3>1. one \in one..l /\ \A p \in one..(one - 1) : FALSE
      BY ONLY <1>0, <1>10, one = 1
    <3> QED
      BY <1>1, <1>10, <3>1 DEF NextMarker
  <2>2. s = one
    BY <1>0, <1>1, <1>6, <2>1, NextUnique
  <2>3. e = 0
    <3>1. NextClose(r, 1 + 3, e)
      BY <1>6, <2>2
    <3> QED
      BY <1>1, <1>10, <3>1 DEF NextClose
  <2>4. out = [parts |-> AsText(SubSeq(r, one, one - 1)) \o AsText(SubSeq(r, one, l)),
               buffer |-> <<>>]
    BY <1>1, <1>7, <2>2, <2>3 DEF StepAt
  <2>5. out.parts = AsText(SubSeq(r, one, one - 1)) \o AsText(SubSeq(r, one, l))
    BY ONLY <2>4
  <2>6. <<>> \o AsText(r) = AsText(r)
    BY <1>11, ConcatEmptySeq
  <2> QED
    BY <1>4, <1>8, <1>11, <2>5, <2>6
<1> QED
  BY <1>1, <1>3, <1>9, <1>10 DEF Lingers

(* All of it can be shown.                                                   *)
LEMMA AllReachable ==
    ASSUME NEW parts \in Seq(Parts), NEW allowed, Shown(parts, allowed)
    PROVE  Reachable(parts, allowed) = parts
<1> PICK n \in Nat : n = Len(parts)
  OBVIOUS
<1> DEFINE r == [i \in DOMAIN parts |->
                    IF parts[i].kind = "text" \/ parts[i].at \in allowed
                    THEN <<parts[i]>> ELSE <<>>]
<1>1. DOMAIN parts = 1..n /\ \A i \in 1..n : parts[i] \in Parts
  OBVIOUS
<1>2. \A i \in 1..n : r[i] = <<parts[i]>>
  BY <1>1 DEF Shown
<1>3. Reachable(parts, allowed) = FlattenSeq(r)
  BY DEF Reachable
<1>4. r = [i \in 1..n |-> r[i]]
  BY <1>1
<1> HIDE DEF r
<1>5. r \in Seq(Seq(Parts)) /\ Len(r) = n
  <2>1. ASSUME NEW i \in 1..n PROVE r[i] \in Seq(Parts)
    <3> PICK p \in Parts : p = parts[i]
      BY <1>1
    <3>1. <<p>> \in Seq(Parts)
      OBVIOUS
    <3> QED
      BY <1>2, <3>1
  <2> QED
    BY <1>4, <2>1
<1>6. FlattenSeq(r) = parts
  BY <1>2, <1>5, FlattenUnits
<1> QED
  BY <1>3, <1>6

(* Of no text nothing is told, and nothing waits.                            *)
LEMMA DrainOfNothing ==
    ASSUME NEW allowed
    PROVE  Drain(<<>>, FALSE, allowed).parts = <<>> /\ Drain(<<>>, FALSE, allowed).buffer = <<>>
<1> PICK b : b = <<>>
  OBVIOUS
<1>1. b \in Seq(Int) /\ Len(b) = 0
  OBVIOUS
<1> PICK f : f = Drained(b, FALSE, allowed)
  OBVIOUS
<1>2. Loops(b, FALSE, allowed, 1, f) /\ Drain(b, FALSE, allowed) = f[1]
  BY <1>1, DrainedIs, DrainUnfolds
<1> PICK k : k = 1
  OBVIOUS
<1>3. k \in 1..(Len(b) + 1) /\ Lingers(b, k)
  BY <1>1 DEF Lingers
<1>4. f[k].parts = <<>> /\ f[k].buffer = SubSeq(b, k, Len(b))
  BY ONLY <1>1, <1>2, <1>3, LingersStays
<1>5. SubSeq(b, k, Len(b)) = <<>>
  BY <1>1, SubSeqEmpty
<1> QED
  BY <1>2, <1>4, <1>5

-----------------------------------------------------------------------------
(* The stream of an answer.  What was fed so far is drained as if it had     *)
(* come in one piece.                                                        *)
IsStream(st) ==
    st \in [text : Seq(Int), fed : Nat, buffer : Seq(Int), parts : Seq(Parts)]

Fed(st, allowed) ==
    LET dr == Drain(SubSeq(st.text, 1, st.fed), FALSE, allowed)
    IN st.fed <= Len(st.text) /\ st.parts = dr.parts /\ st.buffer = dr.buffer

Answering ==
    /\ IsStream(stream)
    /\ turn.pc = "streaming" => Fed(stream, turn.allowed)
    /\ turn.pc = "ended" /\ turn.status = "completed" => Rendered(stream.parts) = stream.text

(* Feeding a chunk keeps the stream as if it had been drained in one piece.  *)
LEMMA Feeding ==
    ASSUME NEW st, IsStream(st), NEW allowed, Fed(st, allowed),
           NEW to \in (st.fed + 1)..Len(st.text),
           NEW o, o = Drain(st.buffer \o SubSeq(st.text, st.fed + 1, to), FALSE, allowed),
           NEW st2, st2 = [st EXCEPT !.fed = to, !.buffer = o.buffer, !.parts = @ \o o.parts]
    PROVE  IsStream(st2) /\ Fed(st2, allowed)
<1> PICK t, m : t = st.text /\ m = st.fed
  OBVIOUS
<1>1. t \in Seq(Int) /\ m \in Nat /\ st.buffer \in Seq(Int) /\ st.parts \in Seq(Parts)
      /\ m <= Len(t)
  BY DEF IsStream, Fed
<1>2. /\ st2.text = t /\ st2.fed = to /\ st2.buffer = o.buffer
      /\ st2.parts = st.parts \o o.parts
      /\ st2 = [text |-> t, fed |-> to, buffer |-> o.buffer, parts |-> st.parts \o o.parts]
  BY DEF IsStream
<1>3. to \in Nat /\ m + 1 <= to /\ to <= Len(t) /\ Len(t) \in Nat
  BY <1>1
<1> PICK b, x : b = SubSeq(t, 1, m) /\ x = SubSeq(t, m + 1, to)
  OBVIOUS
<1>4. b \in Seq(Int) /\ x \in Seq(Int) /\ b \o x = SubSeq(t, 1, to)
  <2> PICK i, k : i = 1 /\ k = m + 1
    OBVIOUS
  <2>1. i \in 1..(Len(t) + 1) /\ k \in i..(Len(t) + 1) /\ to \in (k - 1)..Len(t) /\ k - 1 = m
    BY ONLY <1>1, <1>3, i = 1, k = m + 1
  <2>2. SubSeq(t, i, k - 1) \in Seq(Int) /\ SubSeq(t, k, to) \in Seq(Int)
        /\ SubSeq(t, i, k - 1) \o SubSeq(t, k, to) = SubSeq(t, i, to)
    BY ONLY <1>1, <2>1, SubText
  <2> QED
    BY <2>1, <2>2
<1> PICK dr : dr = Drain(b, FALSE, allowed)
  OBVIOUS
<1>5. st.parts = dr.parts /\ st.buffer = dr.buffer
  BY DEF Fed
<1> PICK all : all = Drain(b \o x, FALSE, allowed)
  OBVIOUS
<1>6. all.parts = dr.parts \o o.parts /\ all.buffer = o.buffer
  <2>1. o = Drain(dr.buffer \o x, FALSE, allowed)
    BY <1>5
  <2> QED
    <3>1. Continues(b, x, allowed)
      BY <1>4, DrainGoesOn
    <3> QED
      BY <2>1, <3>1 DEF Continues
<1>7. o.parts \in Seq(Parts) /\ o.buffer \in Seq(Int)
  <2> PICK w : w = st.buffer \o x
    OBVIOUS
  <2>1. w \in Seq(Int)
    BY <1>1, <1>4, ConcatProperties
  <2>2. o = Drain(w, FALSE, allowed)
    OBVIOUS
  <2> QED
    BY <2>1, <2>2, DrainIs
<1>8. IsStream(st2)
  <2> PICK p : p = st.parts \o o.parts
    OBVIOUS
  <2>1. p \in Seq(Parts)
    BY <1>1, <1>7, ConcatProperties
  <2>2. st2 = [text |-> t, fed |-> to, buffer |-> o.buffer, parts |-> p]
    BY <1>2
  <2> QED
    BY <1>1, <1>3, <1>7, <2>1, <2>2 DEF IsStream
<1>9. Fed(st2, allowed)
  <2>1. SubSeq(st2.text, 1, st2.fed) = b \o x
    BY <1>2, <1>4
  <2> QED
    BY <1>2, <1>3, <1>5, <1>6, <2>1 DEF Fed
<1> QED
  BY <1>8, <1>9

(* The end of the stream lets out what waits, and leaves nothing out.        *)
LEMMA Finishing ==
    ASSUME NEW st, IsStream(st), NEW allowed, Fed(st, allowed), st.fed = Len(st.text),
           NEW answer,
           answer = Reachable(st.parts \o Drain(st.buffer, TRUE, allowed).parts, allowed),
           NEW st2, st2 = [st EXCEPT !.buffer = <<>>, !.parts = answer]
    PROVE  IsStream(st2) /\ Rendered(st2.parts) = st2.text
<1> PICK t : t = st.text
  OBVIOUS
<1>1. t \in Seq(Int) /\ st.fed \in Nat /\ st.fed = Len(t)
      /\ st.parts \in Seq(Parts) /\ st.buffer \in Seq(Int)
  BY DEF IsStream
<1> PICK dr : dr = Drain(t, FALSE, allowed)
  OBVIOUS
<1>2. st.parts = dr.parts /\ st.buffer = dr.buffer
  <2>1. SubSeq(t, 1, Len(t)) = t
    BY <1>1, SubSeqFull
  <2> QED
    BY <1>1, <2>1 DEF Fed
<1>3. PICK k \in 1..(Len(t) + 1) :
              /\ Rendered(dr.parts) \o dr.buffer = t /\ Shown(dr.parts, allowed)
              /\ dr.buffer = SubSeq(t, k, Len(t)) /\ Lingers(t, k)
  <2>1. t \in Seq(Int) /\ dr = Drain(t, FALSE, allowed)
    BY <1>1
  <2>2. /\ Rendered(dr.parts) \o dr.buffer = t /\ Shown(dr.parts, allowed)
        /\ \E k \in 1..(Len(t) + 1) : dr.buffer = SubSeq(t, k, Len(t)) /\ Lingers(t, k)
    BY ONLY <2>1, DrainIs
  <2> QED
    BY ONLY <2>2
<1> PICK r : r = st.buffer
  OBVIOUS
<1> PICK last : last = Drain(r, TRUE, allowed).parts
  OBVIOUS
<1>4. last = AsText(r)
  <2>1. t \in Seq(Int) /\ r = SubSeq(t, k, Len(t)) /\ Lingers(t, k)
    BY <1>1, <1>2, <1>3
  <2>2. Drain(r, TRUE, allowed).parts = AsText(r)
    BY ONLY <2>1, k \in 1..(Len(t) + 1), DrainEnds
  <2> QED
    BY <2>2
<1>5. last \in Seq(Parts) /\ Rendered(last) = r /\ Shown(last, allowed)
  BY <1>1, <1>4, AsTextIs, RenderedText, ShownText
<1> PICK parts : parts = st.parts \o last
  OBVIOUS
<1>6. parts \in Seq(Parts) /\ Shown(parts, allowed) /\ Rendered(parts) = t
  <2>1. parts \in Seq(Parts)
    BY <1>1, <1>5, ConcatProperties
  <2>2. Shown(parts, allowed)
    BY <1>1, <1>2, <1>3, <1>5, ShownSplits
  <2>3. Rendered(parts) = Rendered(st.parts) \o Rendered(last)
    BY <1>1, <1>5, RenderedSplits
  <2> QED
    BY <1>2, <1>3, <1>5, <2>1, <2>2, <2>3
<1>7. answer = parts
  BY <1>6, AllReachable
<1>8. st2.parts = answer /\ st2.text = t
      /\ st2 = [text |-> t, fed |-> st.fed, buffer |-> <<>>, parts |-> answer]
  BY DEF IsStream
<1>9. IsStream(st2)
  <2>1. <<>> \in Seq(Int)
    OBVIOUS
  <2> QED
    BY <1>1, <1>6, <1>7, <1>8, <2>1 DEF IsStream
<1> QED
  BY <1>6, <1>7, <1>8, <1>9

(* A stream that was fed nothing is drained as if in one piece.              *)
LEMMA NothingStreams ==
    /\ IsStream(NoStream)
    /\ \A text \in Seq(Int) : \A allowed :
          LET st == [NoStream EXCEPT !.text = text]
          IN IsStream(st) /\ Fed(st, allowed)
<1>1. <<>> \in Seq(Int) /\ <<>> \in Seq(Parts)
  OBVIOUS
<1>2. IsStream(NoStream)
  BY <1>1 DEF IsStream, NoStream
<1>3. ASSUME NEW text \in Seq(Int), NEW allowed, NEW st, st = [NoStream EXCEPT !.text = text]
      PROVE  IsStream(st) /\ Fed(st, allowed)
  <2>1. st = [text |-> text, fed |-> 0, buffer |-> <<>>, parts |-> <<>>]
    BY <1>3 DEF NoStream
  <2>2. IsStream(st)
    BY <1>1, <2>1 DEF IsStream
  <2>3. SubSeq(text, 1, 0) = <<>> /\ 0 <= Len(text)
    BY SubSeqEmpty
  <2>4. /\ Drain(<<>>, FALSE, allowed).parts = <<>>
        /\ Drain(<<>>, FALSE, allowed).buffer = <<>>
    BY DrainOfNothing
  <2>5. st.text = text /\ st.fed = 0 /\ st.buffer = <<>> /\ st.parts = <<>>
    BY ONLY <2>1
  <2>6. SubSeq(st.text, 1, st.fed) = <<>> /\ st.fed <= Len(st.text)
    BY <2>3, <2>5
  <2>7. Fed(st, allowed)
    BY <2>4, <2>5, <2>6 DEF Fed
  <2> QED
    BY <2>2, <2>7
<1> QED
  BY <1>2, <1>3

(* Every step of a turn keeps the stream as if drained in one piece.         *)
LEMMA AnsweringGoesOn ==
    ASSUME Answering, [Next]_vars
    PROVE  Answering'
<1>1. CASE UNCHANGED <<turn, stream>>
  BY <1>1 DEF Answering
<1>2. CASE Ask
  BY <1>2 DEF Answering, Ask
<1>3. CASE Settle
  <2>1. ASSUME NEW status, NEW why, Ends(status, why), status # "completed"
        PROVE  Answering'
    <3>1. turn'.pc = "ended" /\ turn'.status = status /\ stream' = NoStream
      BY <2>1 DEF Ends, Ended
    <3> QED
      BY <2>1, <3>1, NothingStreams DEF Answering
  <2>2. ASSUME turn' = [pc |-> "streaming", status |-> outcome.status,
                        allowed |-> SourcesOf(outcome.knowledge.evidence)],
               NEW text \in Texts, stream' = [NoStream EXCEPT !.text = text]
        PROVE  Answering'
    <3>1. text \in Seq(Int)
      BY <2>2, TextsAssumption
    <3>2. turn'.pc = "streaming"
      BY <2>2
    <3>3. \A allowed : IsStream(stream') /\ Fed(stream', allowed)
      BY <2>2, <3>1, NothingStreams
    <3> QED
      BY <3>2, <3>3 DEF Answering
  <2> QED
    BY <1>3, <2>1, <2>2 DEF Settle
<1>4. CASE Chunk
  <2>1. turn.pc = "streaming" /\ turn' = turn /\ IsStream(stream) /\ Fed(stream, turn.allowed)
    BY <1>4 DEF Chunk, Streaming, Answering
  <2>2. PICK to \in (stream.fed + 1)..Len(stream.text) :
           LET fed == Drain(stream.buffer \o SubSeq(stream.text, stream.fed + 1, to),
                            FALSE, turn.allowed)
           IN stream' = [stream EXCEPT !.fed = to, !.buffer = fed.buffer,
                                       !.parts = @ \o fed.parts]
    BY <1>4 DEF Chunk
  <2>3. IsStream(stream') /\ Fed(stream', turn.allowed)
    BY <2>1, <2>2, Feeding
  <2> QED
    BY <2>1, <2>3 DEF Answering
<1>5. CASE StreamEnds
  <2>1. IsStream(stream) /\ Fed(stream, turn.allowed) /\ stream.fed = Len(stream.text)
    BY <1>5 DEF StreamEnds, Streaming, Answering
  <2> PICK answer :
         answer = Reachable(stream.parts \o Drain(stream.buffer, TRUE, turn.allowed).parts,
                            turn.allowed)
    OBVIOUS
  <2>2. stream' = [stream EXCEPT !.buffer = <<>>, !.parts = answer]
    BY <1>5 DEF StreamEnds
  <2>3. IsStream(stream') /\ Rendered(stream'.parts) = stream'.text
    BY <2>1, <2>2, Finishing
  <2>4. turn'.pc = "ended"
    BY <1>5 DEF StreamEnds, Ended
  <2> QED
    BY <2>3, <2>4 DEF Answering
<1>6. CASE StreamFails \/ StreamInterrupted
  <2>1. PICK status, why : Ends(status, why) /\ status # "completed"
    BY <1>6 DEF StreamFails, StreamInterrupted
  <2>2. turn'.pc = "ended" /\ turn'.status # "completed" /\ stream' = NoStream
    BY <2>1 DEF Ends, Ended
  <2> QED
    BY <2>2, NothingStreams DEF Answering
<1>7. \/ UNCHANGED <<turn, stream>> \/ Ask \/ Settle
      \/ Chunk \/ StreamEnds \/ StreamFails \/ StreamInterrupted
  BY DEF Next, Grow, AbortSynthesis, vars
<1> QED
  BY <1>1, <1>2, <1>3, <1>4, <1>5, <1>6, <1>7

(* Every answer is whole: at any moment of its stream, whatever the text is  *)
(* and wherever its chunks end, the parts and what the parser holds back     *)
(* (CitationParser of anthropic.ts) say each character that came once, are   *)
(* those of the text in one piece, and an answer that is completed says all  *)
(* that was streamed.                                                        *)
THEOREM AnswersAreWhole ==
    Spec => []AnswerIsWhole
<1>1. Init => Answering
  BY NothingStreams DEF Init, Answering
<1>2. Answering /\ [Next]_vars => Answering'
  BY AnsweringGoesOn
<1>3. Answering => AnswerIsWhole
  <2> SUFFICES ASSUME Answering PROVE AnswerIsWhole
    OBVIOUS
  <2>1. ASSUME turn.pc = "streaming", NEW fed, fed = SubSeq(stream.text, 1, stream.fed)
        PROVE  /\ Rendered(stream.parts) \o stream.buffer = fed
               /\ stream.parts \o Drain(stream.buffer, TRUE, turn.allowed).parts
                     = ParsedWhole(fed, turn.allowed)
    <3>1. IsStream(stream) /\ Fed(stream, turn.allowed)
      BY <2>1 DEF Answering
    <3> PICK dr : dr = Drain(fed, FALSE, turn.allowed)
      OBVIOUS
    <3>2. stream.parts = dr.parts /\ stream.buffer = dr.buffer /\ stream.fed <= Len(stream.text)
      BY <2>1, <3>1 DEF Fed
    <3>3. fed \in Seq(Int)
      <4>1. stream.text \in Seq(Int) /\ stream.fed \in Nat
        BY <3>1 DEF IsStream
      <4> PICK t, m : t = stream.text /\ m = stream.fed
        OBVIOUS
      <4>2. t \in Seq(Int) /\ m \in 0..Len(t)
        BY <3>2, <4>1
      <4>3. SubSeq(t, 1, m) \in Seq(Int)
        BY ONLY <4>2
      <4> QED
        BY <2>1, <4>3
    <3>4. Rendered(dr.parts) \o dr.buffer = fed
      BY <3>3, DrainIs
    <3> QED
      BY <3>2, <3>4 DEF ParsedWhole
  <2> QED
    BY <2>1 DEF Answering, AnswerIsWhole, Streaming
<1> QED
  BY <1>1, <1>2, <1>3, PTL DEF Spec

-----------------------------------------------------------------------------
(* Sums.  The last number of a sequence is the last that is added.           *)
LEMMA SumLast ==
    ASSUME NEW n \in Nat, NEW s \in [1..(n + 1) -> Nat], NEW r \in [1..n -> Nat],
           \A i \in 1..n : r[i] = s[i]
    PROVE  Sum(s) \in Nat /\ Sum(r) \in Nat /\ Sum(s) = Sum(r) + s[n + 1]
<1>1. n + 1 \in Nat /\ Len(s) = n + 1 /\ Len(r) = n /\ \A i \in 1..(n + 1) : s[i] \in Nat
  OBVIOUS
<1>2. PICK g \in [0..(n + 1) -> Nat] :
              /\ g[0] = 0 /\ \A i \in 1..(n + 1) : g[i] = g[i - 1] + s[i]
              /\ Sum(s) = g[n + 1]
  BY <1>1, SumIs
<1>3. PICK f \in [0..n -> Nat] :
              /\ f[0] = 0 /\ \A i \in 1..n : f[i] = f[i - 1] + r[i]
              /\ Sum(r) = f[n]
  BY <1>1, SumIs
<1> DEFINE P == {k \in Nat : k <= n => f[k] = g[k]}
<1>4. 0 \in P
  BY <1>2, <1>3
<1>5. ASSUME NEW k \in Nat, k \in P PROVE k + 1 \in P
  <2> SUFFICES ASSUME k + 1 <= n PROVE f[k + 1] = g[k + 1]
    OBVIOUS
  <2>1. k + 1 \in 1..n /\ k + 1 \in 1..(n + 1) /\ (k + 1) - 1 = k /\ k <= n
    OBVIOUS
  <2>2. f[k + 1] = f[k] + r[k + 1]
    BY <1>3, <2>1
  <2>3. g[k + 1] = g[k] + s[k + 1]
    BY <1>2, <2>1
  <2> QED
    BY <1>5, <2>1, <2>2, <2>3
<1> HIDE DEF P
<1>6. n \in P
  BY <1>4, <1>5, Induction
<1>7. f[n] = g[n]
  BY <1>6 DEF P
<1>8. g[n + 1] = g[n] + s[n + 1]
  <2>1. n + 1 \in 1..(n + 1) /\ (n + 1) - 1 = n
    OBVIOUS
  <2> QED
    BY <1>2, <2>1
<1>9. g[n + 1] \in Nat /\ f[n] \in Nat
  OBVIOUS
<1> QED
  BY <1>2, <1>3, <1>7, <1>8, <1>9

(* Nothing adds up to nothing.                                               *)
LEMMA SumNone ==
    ASSUME NEW s, Len(s) = 0
    PROVE  Sum(s) = 0
<1> PICK n \in Nat : n = 0
  OBVIOUS
<1>1. Len(s) = n
  OBVIOUS
<1>3. \A i \in 1..n : s[i] \in Nat
  BY ONLY n = 0
<1>2. PICK g \in [0..n -> Nat] : g[0] = 0 /\ Sum(s) = g[n]
  BY ONLY n \in Nat, <1>1, <1>3, SumIs
<1> QED
  BY <1>2

(* Leaving out one number of a sum.                                          *)
LEMMA SumWithout ==
    ASSUME NEW n \in Nat
    PROVE  \A w \in [1..n -> Nat] : \A k \in 1..n :
              Sum([w EXCEPT ![k] = 0]) + w[k] = Sum(w)
<1> DEFINE Good(m) == \A w \in [1..m -> Nat] : \A k \in 1..m :
                         Sum([w EXCEPT ![k] = 0]) + w[k] = Sum(w)
           P == {m \in Nat : Good(m)}
<1>1. 0 \in P
  OBVIOUS
<1>2. ASSUME NEW m \in Nat, m \in P PROVE m + 1 \in P
  <2> SUFFICES ASSUME NEW w \in [1..(m + 1) -> Nat], NEW k \in 1..(m + 1)
               PROVE  Sum([w EXCEPT ![k] = 0]) + w[k] = Sum(w)
    OBVIOUS
  <2> PICK r : r = [i \in 1..m |-> w[i]]
    OBVIOUS
  <2> PICK z : z = [w EXCEPT ![k] = 0]
    OBVIOUS
  <2>1. /\ r \in [1..m -> Nat] /\ z \in [1..(m + 1) -> Nat]
        /\ \A i \in 1..(m + 1) : z[i] = IF i = k THEN 0 ELSE w[i]
    OBVIOUS
  <2>2. Sum(w) \in Nat /\ Sum(r) \in Nat /\ Sum(w) = Sum(r) + w[m + 1]
    <3>1. \A i \in 1..m : r[i] = w[i]
      OBVIOUS
    <3> QED
      BY <2>1, <3>1, SumLast
  <2>3. CASE k = m + 1
    <3>1. \A i \in 1..m : r[i] = z[i]
      BY <2>1, <2>3
    <3>2. Sum(z) = Sum(r) + z[m + 1]
      BY <2>1, <3>1, SumLast
    <3>3. z[m + 1] = 0
      BY <2>1, <2>3
    <3> QED
      BY <2>2, <2>3, <3>2, <3>3
  <2>4. CASE k # m + 1
    <3>1. k \in 1..m
      BY <2>4
    <3> PICK y : y = [r EXCEPT ![k] = 0]
      OBVIOUS
    <3>2. y \in [1..m -> Nat] /\ \A i \in 1..m : y[i] = z[i]
      BY <2>1, <3>1
    <3>3. Sum(y) \in Nat /\ Sum(z) = Sum(y) + z[m + 1]
      BY <2>1, <3>2, SumLast
    <3>4. z[m + 1] = w[m + 1] /\ r[k] = w[k] /\ w[k] \in Nat /\ w[m + 1] \in Nat
      BY <2>1, <2>4, <3>1
    <3>5. Sum(y) + r[k] = Sum(r)
      BY <1>2, <2>1, <3>1
    <3> QED
      BY <2>2, <3>3, <3>4, <3>5
  <2> QED
    BY <2>3, <2>4
<1> HIDE DEF Good
<1>3. n \in P
  <2> HIDE DEF P
  <2> QED
    BY <1>1, <1>2, Induction
<1>4. Good(n)
  BY <1>3
<1> QED
  BY <1>4 DEF Good

(* Some of the numbers of a sequence, each of them once and none greater,    *)
(* have no greater sum.                                                      *)
LEMMA SumOfSome ==
    ASSUME NEW n \in Nat, NEW m \in Nat, NEW w \in [1..n -> Nat], NEW h \in [1..m -> 1..n],
           \A i, j \in 1..m : h[i] = h[j] => i = j,
           NEW s \in [1..m -> Nat], \A i \in 1..m : s[i] <= w[h[i]]
    PROVE  Sum(s) <= Sum(w)
<1> DEFINE Once(l, g) == \A i, j \in 1..l : g[i] = g[j] => i = j
           Under(l, v, g, t) == \A i \in 1..l : t[i] <= v[g[i]]
           Good(l) == \A v \in [1..n -> Nat] : \A g \in [1..l -> 1..n] : \A t \in [1..l -> Nat] :
                         Once(l, g) /\ Under(l, v, g, t) => Sum(t) <= Sum(v)
           P == {l \in Nat : Good(l)}
<1>0. \A v \in [1..n -> Nat] : Sum(v) \in Nat
  BY SumType
<1>1. 0 \in P
  <2> SUFFICES ASSUME NEW v \in [1..n -> Nat], NEW g \in [1..0 -> 1..n],
                      NEW t \in [1..0 -> Nat]
               PROVE  Sum(t) <= Sum(v)
    <3> HIDE DEF Once, Under
    <3>1. Good(0)
      OBVIOUS
    <3> HIDE DEF Good
    <3> QED BY <3>1
  <2>1. Sum(t) = 0
    <3>1. Len(t) = 0
      OBVIOUS
    <3> QED
      BY <3>1, SumNone
  <2>2. Sum(v) \in Nat
    BY <1>0
  <2> QED
    BY ONLY <2>1, <2>2
<1>2. ASSUME NEW l \in Nat, l \in P PROVE l + 1 \in P
  <2> SUFFICES ASSUME NEW v \in [1..n -> Nat], NEW g \in [1..(l + 1) -> 1..n],
                      NEW t \in [1..(l + 1) -> Nat], Once(l + 1, g), Under(l + 1, v, g, t)
               PROVE  Sum(t) <= Sum(v)
    <3> HIDE DEF Once, Under, P
    <3>1. Good(l + 1)
      OBVIOUS
    <3> HIDE DEF Good
    <3> QED BY <3>1 DEF P
  <2> PICK k : k = g[l + 1]
    OBVIOUS
  <2> PICK z : z = [v EXCEPT ![k] = 0]
    OBVIOUS
  <2> PICK f : f = [i \in 1..l |-> g[i]]
    OBVIOUS
  <2> PICK r : r = [i \in 1..l |-> t[i]]
    OBVIOUS
  <2>1. l + 1 \in 1..(l + 1) /\ k \in 1..n /\ z \in [1..n -> Nat]
        /\ f \in [1..l -> 1..n] /\ r \in [1..l -> Nat]
    <3> HIDE DEF Once, Under, P
    <3>1. l + 1 \in 1..(l + 1) /\ \A i \in 1..l : i \in 1..(l + 1)
      OBVIOUS
    <3>2. k \in 1..n
      BY <3>1
    <3>3. z \in [1..n -> Nat]
      BY <3>2
    <3>4. f \in [1..l -> 1..n]
      BY <3>1
    <3>5. r \in [1..l -> Nat]
      BY <3>1
    <3> QED
      BY <3>1, <3>2, <3>3, <3>4, <3>5
  <2>2. Sum(z) \in Nat /\ Sum(z) + v[k] = Sum(v)
    BY <1>0, <2>1, SumWithout
  <2>3. Once(l, f)
    OBVIOUS
  <2>4. Under(l, z, f, r)
    <3> SUFFICES ASSUME NEW i \in 1..l PROVE r[i] <= z[f[i]]
      OBVIOUS
    <3>1. i \in 1..(l + 1) /\ i # l + 1 /\ f[i] = g[i] /\ r[i] = t[i] /\ g[i] \in 1..n
      <4> HIDE DEF Once, Under, P
      <4>1. i \in 1..(l + 1) /\ i # l + 1
        OBVIOUS
      <4> QED
        BY <4>1
    <3>2. g[i] # k
      BY <2>1, <3>1
    <3>3. z[g[i]] = v[g[i]]
      BY <3>1, <3>2
    <3> QED
      BY <3>1, <3>3
  <2> HIDE DEF Once, Under
  <2>5. Sum(r) <= Sum(z)
    BY <1>2, <2>1, <2>3, <2>4
  <2>6. Sum(t) = Sum(r) + t[l + 1] /\ Sum(r) \in Nat
    <3>1. \A i \in 1..l : r[i] = t[i]
      OBVIOUS
    <3> QED
      BY <2>1, <3>1, SumLast
  <2>7. t[l + 1] <= v[k] /\ t[l + 1] \in Nat /\ v[k] \in Nat
    BY <2>1 DEF Under
  <2> QED
    BY <2>2, <2>5, <2>6, <2>7
<1> HIDE DEF Good
<1>3. m \in P
  <2> HIDE DEF P
  <2> QED
    BY <1>1, <1>2, Induction
<1>4. Good(m)
  BY <1>3
<1> QED
  BY <1>4 DEF Good

-----------------------------------------------------------------------------
(* The texts of the context.  The requests of the newest turns fit.          *)
LEMMA RequestsFit ==
    ASSUME NEW turns \in Seq(StoredTurns)
    PROVE  Requests(Recent(turns)) \in Nat /\ Requests(Recent(turns)) <= MaxChars
<1> DEFINE n == Len(turns)
           Fits(k) == n - k < MaxTurns /\ Requests(SubSeq(turns, k, n)) <= MaxChars
           IsFirst(k) == /\ k = n + 1 \/ Fits(k)
                         /\ \A j \in 1..(k - 1) : ~Fits(j)
           P == {k \in 1..(n + 1) : k = n + 1 \/ Fits(k)}
           first == CHOOSE k \in 1..(n + 1) : IsFirst(k)
<1>1. n \in Nat
  OBVIOUS
<1>2. \E k \in 1..(n + 1) : IsFirst(k)
  <2> HIDE DEF Fits
  <2>1. n + 1 \in P /\ P \in SUBSET Nat
    BY <1>1
  <2>2. PICK m \in P : \A k \in P : m <= k
    <3> HIDE DEF P
    <3> QED BY <2>1, HasLeast
  <2>3. m \in 1..(n + 1) /\ (m = n + 1 \/ Fits(m))
    OBVIOUS
  <2>4. ASSUME NEW j \in 1..(m - 1), Fits(j) PROVE FALSE
    <3>1. j \in P /\ ~(m <= j)
      BY <1>1, <2>3, <2>4
    <3> QED
      BY <2>2, <3>1
  <2> QED
    BY <2>3, <2>4
<1>3. first \in 1..(n + 1) /\ IsFirst(first)
  <2> HIDE DEF IsFirst
  <2> QED
    BY <1>2
<1>4. Recent(turns) = SubSeq(turns, first, n)
  BY DEF Recent
<1>5. Recent(turns) \in Seq(StoredTurns)
  BY RecentIs
<1> PICK recent : recent = Recent(turns)
  OBVIOUS
<1>6. Requests(recent) \in Nat
  <2> PICK m \in Nat : m = Len(recent)
    BY <1>5
  <2> PICK s : s = [i \in 1..m |-> recent[i].request]
    OBVIOUS
  <2>1. \A i \in 1..m : recent[i] \in StoredTurns
    BY <1>5
  <2>2. Len(s) = m /\ \A i \in 1..m : s[i] \in Nat
    BY <2>1 DEF StoredTurns
  <2>3. Requests(recent) = Sum(s)
    <3>1. DOMAIN recent = 1..m
      BY <1>5
    <3>2. Requests(recent) = Sum([i \in DOMAIN recent |-> recent[i].request])
      BY DEF Requests
    <3> QED
      BY <3>1, <3>2
  <2> QED
    BY <2>2, <2>3, SumType
<1>7. CASE first = n + 1
  <2>1. DOMAIN recent = {}
    <3> PICK l \in Nat, k \in Nat : l = n /\ k = l + 1
      BY <1>1
    <3>1. recent = SubSeq(turns, k, l)
      BY <1>4, <1>7
    <3>2. DOMAIN SubSeq(turns, k, l) = {}
      OBVIOUS
    <3> QED
      BY <3>1, <3>2
  <2> PICK s : s = [i \in DOMAIN recent |-> recent[i].request]
    OBVIOUS
  <2>2. Len(s) = 0
    <3>1. s = <<>>
      BY <2>1
    <3> QED
      BY <3>1
  <2>3. Requests(recent) = 0
    BY <2>2, SumNone DEF Requests
  <2> QED
    BY <2>3, ContextAssumption
<1>8. CASE Fits(first)
  BY <1>4, <1>6, <1>8
<1> QED
  BY <1>3, <1>7, <1>8

(* What an answer's parts cost, up to one of them.                           *)
AnswerParts == [source : Nat, cost : Nat]
CostTo(answer, k) == Sum([i \in 1..k |-> answer[i].cost])

(* They cost what the parts before it do, and it.                            *)
LEMMA CostToIs ==
    ASSUME NEW answer \in Seq(AnswerParts), NEW k \in 0..Len(answer)
    PROVE  /\ CostTo(answer, k) \in Nat /\ CostTo(answer, 0) = 0
           /\ k < Len(answer) => CostTo(answer, k + 1) = CostTo(answer, k) + answer[k + 1].cost
<1> DEFINE s(l) == [i \in 1..l |-> answer[i].cost]
<1>1. \A l \in 0..Len(answer) : s(l) \in [1..l -> Nat]
  <2>1. \A i \in 1..Len(answer) : answer[i] \in AnswerParts
    OBVIOUS
  <2>2. \A i \in 1..Len(answer) : answer[i].cost \in Nat
    BY <2>1 DEF AnswerParts
  <2> QED
    BY <2>2
<1>2. CostTo(answer, 0) = 0
  <2>1. Len(s(0)) = 0
    OBVIOUS
  <2> HIDE DEF s
  <2>2. Sum(s(0)) = 0
    BY <2>1, SumNone
  <2> QED
    BY <2>2 DEF CostTo, s
<1>3. CostTo(answer, k) \in Nat
  <2>1. k \in Nat /\ Len(s(k)) = k /\ \A i \in 1..k : s(k)[i] \in Nat
    BY <1>1
  <2> HIDE DEF s
  <2>2. Sum(s(k)) \in Nat
    BY <2>1, SumType
  <2> QED
    BY <2>2 DEF CostTo, s
<1>4. ASSUME k < Len(answer)
      PROVE  CostTo(answer, k + 1) = CostTo(answer, k) + answer[k + 1].cost
  <2>1. k \in Nat /\ k + 1 \in 0..Len(answer)
    BY <1>4
  <2>2. s(k) \in [1..k -> Nat] /\ s(k + 1) \in [1..(k + 1) -> Nat]
        /\ s(k + 1)[k + 1] = answer[k + 1].cost
    BY <1>1, <2>1
  <2>3. \A i \in 1..k : s(k)[i] = s(k + 1)[i]
    OBVIOUS
  <2> HIDE DEF s
  <2>4. Sum(s(k + 1)) = Sum(s(k)) + s(k + 1)[k + 1]
    BY <2>1, <2>2, <2>3, SumLast
  <2> QED
    BY <2>2, <2>4 DEF CostTo, s
<1> QED
  BY <1>2, <1>3, <1>4

(* A projected answer fits its room.                                         *)
LEMMA ProjectedFits ==
    ASSUME NEW answer \in Seq(AnswerParts), NEW room \in Nat
    PROVE  /\ Sum(LengthsOf(Projected(answer, room))) \in Nat
           /\ Sum(LengthsOf(Projected(answer, room))) <= room
<1> PICK l \in Nat : l = Len(answer)
  OBVIOUS
<1> DEFINE Prefix(k) == Sum(LengthsOf(SubSeq(answer, 1, k)))
           IsEnd(k) == Prefix(k) <= room /\ (k = l \/ Prefix(k + 1) > room)
           n == CHOOSE k \in 0..l : IsEnd(k)
           cut == IF n < l /\ answer[n + 1].source = 0 /\ Prefix(n) < room
                  THEN <<[source |-> 0, cost |-> room - Prefix(n)]>> ELSE <<>>
           P == {k \in 0..l : k = l \/ Prefix(k + 1) > room}
<1>1. \A k \in 0..l : Prefix(k) = CostTo(answer, k)
  <2>1. ASSUME NEW k \in 0..l
        PROVE  LengthsOf(SubSeq(answer, 1, k)) = [i \in 1..k |-> answer[i].cost]
    <3>1. SubSeq(answer, 1, k) = [i \in 1..k |-> answer[i]]
      OBVIOUS
    <3> QED
      BY <3>1 DEF LengthsOf
  <2> QED
    BY <2>1 DEF CostTo
<1>2. Projected(answer, room) = SubSeq(answer, 1, n) \o cut
  BY DEF Projected
<1> HIDE DEF Prefix
<1>3. \E k \in 0..l : IsEnd(k)
  <2>1. l \in P /\ P \in SUBSET Nat
    OBVIOUS
  <2>2. PICK m \in P : \A k \in P : m <= k
    <3> HIDE DEF P
    <3> QED BY <2>1, HasLeast
  <2>3. m \in 0..l /\ (m = l \/ Prefix(m + 1) > room)
    OBVIOUS
  <2>4. Prefix(m) <= room
    <3>1. CASE m = 0
      BY <1>1, <2>3, <3>1, CostToIs
    <3>2. CASE m # 0
      <4>1. m - 1 \in 0..l /\ ~(m <= m - 1) /\ m - 1 # l /\ (m - 1) + 1 = m
        BY <2>3, <3>2
      <4>2. m - 1 \notin P
        BY <2>2, <4>1
      <4>3. ~(Prefix(m) > room)
        <5> PICK j : j = m - 1
          OBVIOUS
        <5>1. j \in 0..l /\ j # l /\ j + 1 = m /\ j \notin P
          BY <4>1, <4>2
        <5>2. ~(Prefix(j + 1) > room)
          BY <5>1
        <5> QED
          BY <5>1, <5>2
      <4>4. Prefix(m) \in Nat
        BY <1>1, <2>3, CostToIs
      <4> QED
        BY <4>3, <4>4
    <3> QED
      BY <3>1, <3>2
  <2> QED
    BY <2>3, <2>4
<1>4. n \in 0..l /\ IsEnd(n)
  <2> HIDE DEF IsEnd
  <2> QED
    BY <1>3
<1> PICK k : k = n
  OBVIOUS
<1>5. /\ k \in 0..l /\ Prefix(k) <= room /\ Prefix(k) = CostTo(answer, k)
      /\ CostTo(answer, k) \in Nat
  BY <1>1, <1>4, CostToIs
<1> HIDE DEF n, cut
<1> PICK ext : ext = cut
  OBVIOUS
<1>6. Projected(answer, room) = SubSeq(answer, 1, k) \o ext
  BY <1>2
<1>7. ext = <<>> \/ (ext = <<[source |-> 0, cost |-> room - Prefix(k)]>> /\ Prefix(k) < room)
  BY DEF cut
<1>8. CASE ext = <<>>
  <2>1. LengthsOf(Projected(answer, room)) = [i \in 1..k |-> answer[i].cost]
    <3>1. SubSeq(answer, 1, k) \o ext = [i \in 1..k |-> answer[i]]
      BY <1>5, <1>8
    <3> QED
      BY <1>6, <3>1 DEF LengthsOf
  <2>2. Sum(LengthsOf(Projected(answer, room))) = CostTo(answer, k)
    BY <2>1 DEF CostTo
  <2> QED
    BY <1>5, <2>2
<1>9. CASE ext = <<[source |-> 0, cost |-> room - Prefix(k)]>> /\ Prefix(k) < room
  <2> PICK last : last = [source |-> 0, cost |-> room - Prefix(k)]
    OBVIOUS
  <2> PICK r : r = [i \in 1..k |-> answer[i].cost]
    OBVIOUS
  <2> PICK s : s = [i \in 1..(k + 1) |-> IF i = k + 1 THEN room - Prefix(k) ELSE answer[i].cost]
    OBVIOUS
  <2>1. last.cost = room - Prefix(k) /\ room - Prefix(k) \in Nat /\ k \in Nat
    BY <1>5, <1>9
  <2>2. SubSeq(answer, 1, k) \o <<last>>
           = [i \in 1..(k + 1) |-> IF i = k + 1 THEN last ELSE answer[i]]
    BY <1>5
  <2>3. LengthsOf(Projected(answer, room)) = s
    <3>1. Projected(answer, room) = [i \in 1..(k + 1) |-> IF i = k + 1 THEN last ELSE answer[i]]
      BY <1>6, <1>9, <2>2
    <3> PICK p : p = [i \in 1..(k + 1) |-> IF i = k + 1 THEN last ELSE answer[i]]
      OBVIOUS
    <3>2. LengthsOf(p) = [i \in 1..(k + 1) |-> p[i].cost]
      BY DEF LengthsOf
    <3>3. \A i \in 1..(k + 1) : p[i].cost = s[i]
      BY <2>1
    <3> QED
      BY <3>1, <3>2, <3>3
  <2>4. \A i \in 1..k : answer[i].cost \in Nat
    <3>1. \A i \in 1..k : answer[i] \in AnswerParts
      BY <1>5
    <3> QED
      BY <3>1 DEF AnswerParts
  <2>5. r \in [1..k -> Nat] /\ s \in [1..(k + 1) -> Nat] /\ \A i \in 1..k : r[i] = s[i]
    BY <2>1, <2>4
  <2>6. Sum(s) = Sum(r) + s[k + 1]
    BY <2>1, <2>5, SumLast
  <2>7. s[k + 1] = room - Prefix(k) /\ Sum(r) = Prefix(k)
    BY <1>5, <2>1 DEF CostTo
  <2>8. Sum(s) = room
    BY <1>5, <2>6, <2>7
  <2> QED
    BY <2>3, <2>8
<1> QED
  BY <1>7, <1>8, <1>9

(* The room that is left for the answers before some turn's, when the later  *)
(* ones have spent theirs.                                                   *)
Spends(answer, room) == Sum(LengthsOf(Projected(answer, room)))

Spending(turns, n, room) ==
    room = [i \in 1..(n + 1) |->
              IF i = n + 1 THEN MaxChars - Requests(turns)
              ELSE room[i + 1] - Spends(turns[i].answer, room[i + 1])]

(* The room is what the recursion says, and never negative.                  *)
LEMMA RoomIs ==
    ASSUME NEW turns \in Seq(StoredTurns), NEW n \in Nat, n = Len(turns),
           MaxChars - Requests(turns) \in Nat
    PROVE  \E room \in [1..(n + 1) -> Nat] :
              /\ Spending(turns, n, room)
              /\ Answers(turns) = [i \in 1..n |-> Projected(turns[i].answer, room[i + 1])]
<1> PICK chars \in Nat : chars = MaxChars - Requests(turns)
  OBVIOUS
<1>1. \A i \in 1..n : turns[i].answer \in Seq(AnswerParts)
  <2>1. \A i \in 1..n : turns[i] \in StoredTurns
    OBVIOUS
  <2> QED
    BY <2>1 DEF StoredTurns, AnswerParts
<1>2. \A i \in 1..n : \A x \in Nat :
         Spends(turns[i].answer, x) \in Nat /\ Spends(turns[i].answer, x) <= x
  BY <1>1, ProjectedFits DEF Spends
<1> DEFINE step == [i \in 1..n |-> [x \in Nat |-> x - Spends(turns[n + 1 - i].answer, x)]]
<1>10. \A i \in 1..n : \A x \in Nat : x - Spends(turns[n + 1 - i].answer, x) \in Nat
  <2> TAKE i \in 1..n
  <2> TAKE x \in Nat
  <2> PICK k \in 1..n : k = n + 1 - i
    OBVIOUS
  <2>1. Spends(turns[k].answer, x) \in Nat /\ Spends(turns[k].answer, x) <= x
    BY <1>2
  <2> QED
    BY <2>1
<1>3. /\ step \in [1..n -> [Nat -> Nat]]
      /\ \A i \in 1..n : \A x \in Nat :
            step[i][x] = x - Spends(turns[n + 1 - i].answer, x)
  BY <1>10
<1> HIDE DEF step
<1>4. PICK f \in [0..n -> Nat] : Run(n, chars, step, f)
  <2>1. IsSteps(Nat, n, chars, step)
    BY <1>3 DEF IsSteps
  <2> QED
    BY <2>1, Recursion
<1>5. f[0] = chars /\ \A i \in 1..n : f[i] = step[i][f[i - 1]]
  BY <1>4 DEF Run
<1> PICK g : g = [i \in 1..(n + 1) |-> f[n + 1 - i]]
  OBVIOUS
<1>6. g \in [1..(n + 1) -> Nat]
  <2>1. \A i \in 1..(n + 1) : n + 1 - i \in 0..n
    OBVIOUS
  <2> QED
    BY <2>1
<1>7. Spending(turns, n, g)
  <2>1. g[n + 1] = chars
    <3>1. n + 1 \in 1..(n + 1) /\ n + 1 - (n + 1) = 0
      OBVIOUS
    <3> QED
      BY <1>5, <3>1
  <2>2. ASSUME NEW i \in 1..(n + 1), i # n + 1
        PROVE  g[i] = g[i + 1] - Spends(turns[i].answer, g[i + 1])
    <3> PICK k \in 1..n : k = n + 1 - i
      BY <2>2
    <3>1. /\ i + 1 \in 1..(n + 1) /\ n + 1 - (i + 1) = k - 1 /\ n + 1 - k = i
          /\ k - 1 \in 0..n
      BY <2>2
    <3>2. g[i] = f[k] /\ g[i + 1] = f[k - 1] /\ f[k - 1] \in Nat
      BY <3>1
    <3>3. f[k] = f[k - 1] - Spends(turns[n + 1 - k].answer, f[k - 1])
      <4>1. f[k] = step[k][f[k - 1]]
        BY <1>5
      <4> PICK x \in Nat : x = f[k - 1]
        BY <3>2
      <4> QED
        BY <1>3, <4>1
    <3> QED
      BY <3>1, <3>2, <3>3
  <2>3. \A i \in 1..(n + 1) :
           g[i] = IF i = n + 1 THEN MaxChars - Requests(turns)
                  ELSE g[i + 1] - Spends(turns[i].answer, g[i + 1])
    BY <2>1, <2>2
  <2>4. g = [i \in 1..(n + 1) |-> g[i]]
    BY <1>6
  <2> QED
    BY <2>3, <2>4 DEF Spending
<1> DEFINE room == CHOOSE r : Spending(turns, n, r)
<1>8. Spending(turns, n, room)
  BY <1>7
<1>9. Answers(turns) = [i \in 1..n |-> Projected(turns[i].answer, room[i + 1])]
  BY DEF Answers, Spending, Spends
<1> PICK r : r = room
  OBVIOUS
<1> HIDE DEF room
<1>11. r = g
  <2> DEFINE P == {i \in 1..(n + 1) : r[i] = g[i]}
  <2>1. ASSUME NEW i \in 1..(n + 1), \A j \in (i + 1)..(n + 1) : j \in P
        PROVE  i \in P
    <3>1. CASE i = n + 1
      BY <1>7, <1>8, <3>1 DEF Spending
    <3>2. CASE i # n + 1
      <4>1. r[i + 1] = g[i + 1]
        <5>1. i + 1 \in (i + 1)..(n + 1)
          BY <3>2
        <5>2. i + 1 \in P
          <6> HIDE DEF P
          <6> QED BY <2>1, <5>1
        <5> QED
          BY <5>2
      <4>2. /\ r[i] = r[i + 1] - Spends(turns[i].answer, r[i + 1])
            /\ g[i] = g[i + 1] - Spends(turns[i].answer, g[i + 1])
        BY <1>7, <1>8, <3>2 DEF Spending
      <4> QED
        BY <4>1, <4>2
    <3> QED
      BY <3>1, <3>2
  <2>2. P \in SUBSET (1..(n + 1))
    OBVIOUS
  <2>3. P = 1..(n + 1)
    <3> HIDE DEF P
    <3> QED BY <2>1, <2>2, Backwards
  <2>4. \A i \in 1..(n + 1) : r[i] = g[i]
    BY <2>3
  <2>5. r = [i \in 1..(n + 1) |-> r[i]] /\ g = [i \in 1..(n + 1) |-> g[i]]
    BY <1>6, <1>8 DEF Spending
  <2> QED
    BY <2>4, <2>5
<1>12. Answers(turns) = [i \in 1..n |-> Projected(turns[i].answer, g[i + 1])]
  BY <1>9, <1>11
<1> QED
  BY <1>6, <1>7, <1>12

(* All the answers fit the room for them.                                    *)
LEMMA AnswersFit ==
    ASSUME NEW turns \in Seq(StoredTurns), MaxChars - Requests(turns) \in Nat
    PROVE  LET spent == Sum([i \in DOMAIN Answers(turns) |-> Sum(LengthsOf(Answers(turns)[i]))])
           IN spent \in Nat /\ spent <= MaxChars - Requests(turns)
<1> PICK n \in Nat : n = Len(turns)
  OBVIOUS
<1>1. PICK room \in [1..(n + 1) -> Nat] :
              /\ Spending(turns, n, room)
              /\ Answers(turns) = [i \in 1..n |-> Projected(turns[i].answer, room[i + 1])]
  BY RoomIs
<1> PICK s : s = [i \in 1..n |-> Spends(turns[i].answer, room[i + 1])]
  OBVIOUS
<1>2. [i \in DOMAIN Answers(turns) |-> Sum(LengthsOf(Answers(turns)[i]))] = s
  BY <1>1 DEF Spends
<1>3. \A i \in 1..n : turns[i].answer \in Seq(AnswerParts) /\ room[i + 1] \in Nat
  <2>1. \A i \in 1..n : turns[i] \in StoredTurns /\ i + 1 \in 1..(n + 1)
    OBVIOUS
  <2> QED
    BY <2>1 DEF StoredTurns, AnswerParts
<1>4. s \in [1..n -> Nat]
  <2>1. \A i \in 1..n : s[i] = Spends(turns[i].answer, room[i + 1])
    OBVIOUS
  <2>2. \A i \in 1..n : s[i] \in Nat
    BY <1>3, <2>1, ProjectedFits DEF Spends
  <2> QED
    BY <2>2
<1>5. ASSUME NEW i \in 1..n PROVE room[i + 1] = room[i] + s[i]
  <2>3. i \in 1..(n + 1) /\ i # n + 1
    OBVIOUS
  <2>4. s[i] \in Nat
    BY ONLY <1>4, i \in 1..n
  <2>1. i \in 1..(n + 1) /\ i # n + 1 /\ room[i] \in Nat /\ room[i + 1] \in Nat /\ s[i] \in Nat
    BY <1>3, <2>3, <2>4
  <2>2. room[i] = room[i + 1] - s[i]
    BY <1>1, <2>1 DEF Spending
  <2> QED
    BY <2>1, <2>2
<1> DEFINE first(k) == [i \in 1..k |-> s[i]]
           AddsUp(k) == k <= n => Sum(first(k)) + room[1] = room[k + 1]
           P == {k \in Nat : AddsUp(k)}
<1>6. 0 \in P
  <2>1. Len(first(0)) = 0
    OBVIOUS
  <2> HIDE DEF first
  <2>2. Sum(first(0)) = 0
    BY <2>1, SumNone
  <2>3. room[1] \in Nat /\ 0 + 1 = 1
    OBVIOUS
  <2> QED
    BY <2>2, <2>3
<1>7. ASSUME NEW k \in Nat, k \in P PROVE k + 1 \in P
  <2> HIDE DEF first
  <2> SUFFICES ASSUME k + 1 <= n PROVE Sum(first(k + 1)) + room[1] = room[(k + 1) + 1]
    <3>1. k + 1 \in Nat
      BY ONLY k \in Nat
    <3>2. AddsUp(k + 1)
      OBVIOUS
    <3> HIDE DEF AddsUp
    <3> QED
      BY ONLY <3>1, <3>2
  <2>1. k + 1 \in 1..n /\ k <= n /\ room[k + 1] \in Nat /\ room[1] \in Nat /\ s[k + 1] \in Nat
    <3>1. k + 1 \in 1..n /\ k <= n /\ k + 1 \in 1..(n + 1) /\ 1 \in 1..(n + 1)
      BY ONLY k \in Nat, n \in Nat, k + 1 <= n
    <3>2. room[k + 1] \in Nat /\ room[1] \in Nat
      BY ONLY room \in [1..(n + 1) -> Nat], <3>1
    <3>3. s[k + 1] \in Nat
      BY ONLY <1>4, <3>1
    <3> QED
      BY ONLY <3>1, <3>2, <3>3
  <2>2. /\ first(k) \in [1..k -> Nat] /\ first(k + 1) \in [1..(k + 1) -> Nat]
        /\ \A i \in 1..k : first(k)[i] = first(k + 1)[i]
        /\ first(k + 1)[k + 1] = s[k + 1]
    <3> USE DEF first
    <3> HIDE DEF P
    <3>1. \A i \in 1..(k + 1) : s[i] \in Nat
      <4>1. \A i \in 1..(k + 1) : i \in 1..n
        BY <2>1
      <4> QED
        BY <1>4, <4>1
    <3>2. first(k) \in [1..k -> Nat]
      <4>1. \A i \in 1..k : s[i] \in Nat
        <5>1. \A i \in 1..k : i \in 1..(k + 1)
          OBVIOUS
        <5> QED
          BY <3>1, <5>1
      <4> QED
        BY <4>1
    <3>3. first(k + 1) \in [1..(k + 1) -> Nat]
      BY <3>1
    <3>4. k + 1 \in 1..(k + 1) /\ \A i \in 1..k : i \in 1..(k + 1)
      OBVIOUS
    <3>5. first(k + 1)[k + 1] = s[k + 1]
      BY <3>4
    <3>6. \A i \in 1..k : first(k)[i] = first(k + 1)[i]
      BY <3>4
    <3> QED
      BY <3>2, <3>3, <3>5, <3>6
  <2>3. Sum(first(k)) + room[1] = room[k + 1]
    BY <1>7, <2>1
  <2> HIDE DEF first, P
  <2>4. Sum(first(k)) \in Nat /\ Sum(first(k + 1)) = Sum(first(k)) + s[k + 1]
    <3> PICK p, q, last : p = first(k) /\ q = first(k + 1) /\ last = s[k + 1]
      OBVIOUS
    <3>1. /\ p \in [1..k -> Nat] /\ q \in [1..(k + 1) -> Nat]
          /\ \A i \in 1..k : p[i] = q[i]
          /\ q[k + 1] = last
      BY ONLY <2>2, p = first(k), q = first(k + 1), last = s[k + 1]
    <3>2. Sum(p) \in Nat /\ Sum(q) = Sum(p) + last
      BY ONLY k \in Nat, <3>1, SumLast
    <3> QED
      BY ONLY <3>2, p = first(k), q = first(k + 1), last = s[k + 1]
  <2>5. room[(k + 1) + 1] = room[k + 1] + s[k + 1]
    BY <1>5, <2>1
  <2> QED
    BY ONLY <2>1, <2>3, <2>4, <2>5
<1>8. n \in P
  <2> HIDE DEF P
  <2> QED
    BY <1>6, <1>7, Induction
<1>9. Sum(s) + room[1] = room[n + 1]
  <2>1. first(n) = s
    BY ONLY <1>4 DEF first
  <2> HIDE DEF first
  <2>2. AddsUp(n)
    BY ONLY <1>8
  <2>3. n <= n
    BY ONLY n \in Nat
  <2> QED
    BY ONLY <2>1, <2>2, <2>3 DEF AddsUp
<1>10. room[n + 1] = MaxChars - Requests(turns) /\ room[1] \in Nat /\ Sum(s) \in Nat
  <2>1. room[n + 1] = MaxChars - Requests(turns)
    BY <1>1 DEF Spending
  <2>2. Len(s) = n /\ \A i \in 1..n : s[i] \in Nat
    BY ONLY <1>4, n \in Nat
  <2>3. Sum(s) \in Nat
    BY <2>2, SumType
  <2>4. room[1] \in Nat
    BY ONLY room \in [1..(n + 1) -> Nat], n \in Nat
  <2> QED
    BY ONLY <2>1, <2>3, <2>4
<1>11. Sum(s) <= MaxChars - Requests(turns)
  BY ONLY <1>9, <1>10
<1> QED
  BY <1>2, <1>10, <1>11

-----------------------------------------------------------------------------
(* The pages of the context.  Pages cost what those before do, and the last, *)
(* unless its snapshot was met before.                                       *)
LEMMA SpentNext ==
    ASSUME NEW all \in Seq(PlacedPages), NEW i \in 1..Len(all)
    PROVE  Spent(all, i + 1) = Spent(all, i) + (IF Seen(all, i) THEN 0 ELSE Cost(all[i]))
<1> PICK n \in Nat : n = i - 1
  OBVIOUS
<1> PICK s : s = [j \in 1..(n + 1) |-> IF Seen(all, j) THEN 0 ELSE Cost(all[j])]
  OBVIOUS
<1> PICK r : r = [j \in 1..n |-> IF Seen(all, j) THEN 0 ELSE Cost(all[j])]
  OBVIOUS
<1>1. \A j \in 1..(n + 1) : Cost(all[j]) \in Nat
  <2>1. \A j \in 1..(n + 1) : all[j] \in PlacedPages
    OBVIOUS
  <2> QED
    BY <2>1, CostIs
<1>2. s \in [1..(n + 1) -> Nat]
  BY <1>1
<1>3. r \in [1..n -> Nat] /\ \A j \in 1..n : r[j] = s[j]
  <2>1. \A j \in 1..n : j \in 1..(n + 1)
    OBVIOUS
  <2> QED
    BY <1>1, <2>1
<1>4. Sum(s) = Sum(r) + s[n + 1]
  BY <1>2, <1>3, SumLast
<1>5. n + 1 = i /\ (i + 1) - 1 = n + 1 /\ i - 1 = n
  OBVIOUS
<1>6. Spent(all, i + 1) = Sum(s) /\ Spent(all, i) = Sum(r)
  BY <1>5 DEF Spent
<1>7. s[n + 1] = IF Seen(all, i) THEN 0 ELSE Cost(all[i])
  BY <1>5
<1> QED
  BY <1>4, <1>6, <1>7

(* Up to the place where the reading stops the pages fit.                    *)
LEMMA SpentFits ==
    ASSUME NEW all \in Seq(PlacedPages), NEW i \in 1..Stop(all)
    PROVE  Spent(all, i) \in Nat /\ Spent(all, i) <= MaxTotal
<1> PICK m : m = Stop(all)
  OBVIOUS
<1> PICK n \in Nat : n = Len(all)
  OBVIOUS
<1>1. m \in 1..(n + 1) /\ \A j \in 1..(m - 1) : Fitting(all, j)
  BY StopIs DEF Stops
<1>2. \A j \in 1..m : j \in 1..(n + 1) /\ Spent(all, j) \in Nat
  BY <1>1, SpentIs
<1> DEFINE P == {k \in Nat : k + 1 <= m => Spent(all, k + 1) <= MaxTotal}
<1>3. 0 \in P
  <2> PICK s : s = [j \in 1..(1 - 1) |-> IF Seen(all, j) THEN 0 ELSE Cost(all[j])]
    OBVIOUS
  <2>1. Len(s) = 0
    <3>1. s = <<>>
      OBVIOUS
    <3> QED
      BY <3>1
  <2>2. Spent(all, 1) = 0
    BY <2>1, SumNone DEF Spent
  <2> QED
    BY <2>2, ContextAssumption
<1>4. ASSUME NEW k \in Nat, k \in P PROVE k + 1 \in P
  <2> SUFFICES ASSUME (k + 1) + 1 <= m PROVE Spent(all, (k + 1) + 1) <= MaxTotal
    OBVIOUS
  <2> PICK j : j = k + 1
    OBVIOUS
  <2>1. j \in 1..(m - 1) /\ j \in 1..n /\ j + 1 <= m /\ j \in 1..m
    BY <1>1
  <2>2. Spent(all, j) <= MaxTotal
    BY <1>4, <2>1
  <2> HIDE DEF P
  <2>3. Spent(all, j + 1) = Spent(all, j) + (IF Seen(all, j) THEN 0 ELSE Cost(all[j]))
    BY <2>1, SpentNext
  <2>4. Seen(all, j) \/ Spent(all, j) + Cost(all[j]) <= MaxTotal
    BY <1>1, <2>1 DEF Fitting
  <2>5. Spent(all, j) \in Nat
    BY <1>2, <2>1
  <2> QED
    BY <2>2, <2>3, <2>4, <2>5
<1> HIDE DEF P
<1>5. i - 1 \in P
  <2>1. i - 1 \in Nat
    BY <1>1
  <2> QED
    BY <1>3, <1>4, <2>1, Induction
<1>6. (i - 1) + 1 = i /\ i <= m
  BY <1>1
<1> QED
  BY <1>2, <1>5, <1>6 DEF P

(* A finite set is put in a sequence, each element once.                     *)
LEMMA ListedOnce ==
    ASSUME NEW S, IsFiniteSet(S)
    PROVE  \E n \in Nat :
              /\ SetToSeq(S) \in [1..n -> S]
              /\ \A i, j \in 1..n : SetToSeq(S)[i] = SetToSeq(S)[j] => i = j
<1> PICK n \in Nat : n = Cardinality(S) /\ ExistsBijection(1..n, S)
  BY FS_CardinalityType
<1>1. PICK f \in [1..n -> S] : IsInjective(f)
  BY DEF ExistsBijection, Bijection, Injection
<1> DEFINE g == CHOOSE h \in [1..Cardinality(S) -> S] : IsInjective(h)
<1>2. g \in [1..n -> S] /\ IsInjective(g)
  BY <1>1
<1>3. SetToSeq(S) = g
  BY DEF SetToSeq
<1> HIDE DEF g
<1>4. \A i, j \in 1..n : g[i] = g[j] => i = j
  BY <1>2 DEF IsInjective
<1> QED
  BY <1>2, <1>3, <1>4

(* What is taken of the page in some place, when the reading stops at m and  *)
(* leaves some room, and what it may cost.                                   *)
TakenAt(all, m, room, j) == Cut(all[j], IF j = m THEN room ELSE MaxTotal)
MayCost(all, m, room, j) == IF j = m THEN room ELSE IF Seen(all, j) THEN 0 ELSE Cost(all[j])

(* Each page taken is that of a place, and costs no more than it may.        *)
LEMMA TakenPlace ==
    ASSUME NEW all \in Seq(PlacedPages), NEW m, m = Stop(all),
           NEW room, room = MaxTotal - Spent(all, m), NEW c \in TakenOf(all)
    PROVE  /\ room \in Nat /\ c.page.cost \in Nat /\ c.page.cost <= MaxPerSource
           /\ \E j \in 1..m : /\ j <= Len(all) /\ c = TakenAt(all, m, room, j)
                              /\ c.page.cost <= MayCost(all, m, room, j)
<1> PICK n \in Nat : n = Len(all)
  OBVIOUS
<1>1. m \in 1..(n + 1)
  BY StopIs DEF Stops
<1>2. m \in 1..m /\ Spent(all, m) \in Nat /\ Spent(all, m) <= MaxTotal
  BY <1>1, SpentFits
<1>3. room \in Nat /\ MaxTotal \in Nat
  BY <1>2, ContextAssumption
<1>4. \/ \E i \in {j \in 1..(m - 1) : ~Seen(all, j)} : c = Cut(all[i], MaxTotal)
      \/ m <= n /\ c = Cut(all[m], room)
  BY DEF TakenOf, ReadUpTo
<1>5. ASSUME NEW i \in 1..n, NEW r \in Nat, c = Cut(all[i], r)
      PROVE  /\ c.page.cost \in Nat /\ c.page.cost <= r /\ c.page.cost <= Cost(all[i])
             /\ c.page.cost <= MaxPerSource
  <2>1. all[i] \in PlacedPages
    OBVIOUS
  <2>2. c.page.cost = Shorter(Cost(all[i]), r)
    BY <1>5, <2>1, CutIs
  <2>3. Cost(all[i]) \in Nat /\ Cost(all[i]) <= MaxPerSource /\ MaxPerSource \in Nat
    BY <2>1, CostIs, ContextAssumption
  <2> QED
    BY <2>2, <2>3 DEF Shorter
<1>6. CASE \E i \in {j \in 1..(m - 1) : ~Seen(all, j)} : c = Cut(all[i], MaxTotal)
  <2>1. PICK i \in 1..(m - 1) : ~Seen(all, i) /\ c = Cut(all[i], MaxTotal)
    BY <1>6
  <2>2. i \in 1..n /\ i \in 1..m /\ i # m /\ i <= n
    BY <1>1
  <2>3. c = TakenAt(all, m, room, i) /\ MayCost(all, m, room, i) = Cost(all[i])
    BY <2>1, <2>2 DEF TakenAt, MayCost
  <2>4. c.page.cost \in Nat /\ c.page.cost <= Cost(all[i]) /\ c.page.cost <= MaxPerSource
    BY <1>3, <1>5, <2>1, <2>2
  <2> QED
    BY <1>3, <2>2, <2>3, <2>4
<1>7. CASE m <= n /\ c = Cut(all[m], room)
  <2>1. m \in 1..n
    BY <1>1, <1>7
  <2>2. c = TakenAt(all, m, room, m) /\ MayCost(all, m, room, m) = room
    BY <1>7 DEF TakenAt, MayCost
  <2>3. c.page.cost \in Nat /\ c.page.cost <= room /\ c.page.cost <= MaxPerSource
    BY <1>3, <1>5, <1>7, <2>1
  <2> QED
    BY <1>2, <1>3, <1>7, <2>2, <2>3
<1> QED
  BY <1>4, <1>6, <1>7

(* The pages taken fit the budgets, in whatever order they are counted.      *)
LEMMA PagesFit ==
    ASSUME NEW all \in Seq(PlacedPages), NEW taken, taken = TakenOf(all)
    PROVE  /\ \A c \in taken : c.page.cost <= MaxPerSource
           /\ Sum([i \in DOMAIN SetToSeq(taken) |-> SetToSeq(taken)[i].page.cost]) <= MaxTotal
<1> PICK n \in Nat : n = Len(all)
  OBVIOUS
<1> PICK m : m = Stop(all)
  OBVIOUS
<1>1. m \in 1..(n + 1) /\ m \in Nat /\ m - 1 \in Nat /\ m \in 1..m
  BY StopIs DEF Stops
<1> PICK room : room = MaxTotal - Spent(all, m)
  OBVIOUS
<1>2. room \in Nat /\ Spent(all, m) \in Nat /\ Spent(all, m) + room = MaxTotal
  <2>1. Spent(all, m) \in Nat /\ Spent(all, m) <= MaxTotal
    BY <1>1, SpentFits
  <2>2. MaxTotal \in Nat
    BY ContextAssumption
  <2> QED
    BY ONLY <2>1, <2>2, room = MaxTotal - Spent(all, m)
<1>3. \A c \in taken : c.page.cost \in Nat /\ c.page.cost <= MaxPerSource
  BY TakenPlace
<1> DEFINE IsOf(c, j) == c = TakenAt(all, m, room, j) /\ c.page.cost <= MayCost(all, m, room, j)
<1>4. \A c \in taken : \E j \in 1..m : IsOf(c, j)
  BY TakenPlace
<1> HIDE DEF IsOf
<1> PICK q : q = SetToSeq(taken)
  OBVIOUS
<1>5. PICK k \in Nat : /\ q \in [1..k -> taken]
                       /\ \A i, j \in 1..k : q[i] = q[j] => i = j
  BY TakenIs, ListedOnce
<1> PICK h : h = [i \in 1..k |-> CHOOSE j \in 1..m : IsOf(q[i], j)]
  OBVIOUS
<1>6. \A i \in 1..k : h[i] \in 1..m /\ IsOf(q[i], h[i])
  <2> SUFFICES ASSUME NEW i \in 1..k PROVE h[i] \in 1..m /\ IsOf(q[i], h[i])
    OBVIOUS
  <2>1. h[i] = CHOOSE j \in 1..m : IsOf(q[i], j)
    OBVIOUS
  <2>2. q[i] \in taken
    BY <1>5
  <2> QED
    BY <1>4, <2>1, <2>2
<1>7. h \in [1..k -> 1..m] /\ \A i, j \in 1..k : h[i] = h[j] => i = j
  <2>1. h \in [1..k -> 1..m]
    BY <1>6
  <2>2. ASSUME NEW i \in 1..k, NEW j \in 1..k, h[i] = h[j] PROVE i = j
    <3>1. q[i] = TakenAt(all, m, room, h[i]) /\ q[j] = TakenAt(all, m, room, h[j])
      BY <1>6 DEF IsOf
    <3> QED
      BY <1>5, <2>2, <3>1
  <2> QED
    BY <2>1, <2>2
<1> PICK s : s = [i \in 1..k |-> q[i].page.cost]
  OBVIOUS
<1> PICK w : w = [j \in 1..m |-> MayCost(all, m, room, j)]
  OBVIOUS
<1> PICK r : r = [j \in 1..(m - 1) |-> IF Seen(all, j) THEN 0 ELSE Cost(all[j])]
  OBVIOUS
<1>8. s \in [1..k -> Nat] /\ \A i \in 1..k : s[i] <= w[h[i]]
  BY <1>3, <1>5, <1>6 DEF IsOf
<1>9. \A j \in 1..(m - 1) : j \in 1..m /\ j # m /\ Cost(all[j]) \in Nat
  <2>1. \A j \in 1..(m - 1) : j \in 1..m /\ j # m /\ j \in 1..n
    BY <1>1
  <2>2. \A j \in 1..n : all[j] \in PlacedPages
    OBVIOUS
  <2> QED
    BY <2>1, <2>2, CostIs
<1>10. /\ r \in [1..(m - 1) -> Nat] /\ w[m] = room
       /\ \A j \in 1..(m - 1) : r[j] = w[j]
  BY <1>1, <1>9 DEF MayCost
<1>11. w \in [1..m -> Nat]
  <2>1. \A j \in 1..m : j = m \/ j \in 1..(m - 1)
    BY <1>1
  <2>2. \A j \in 1..(m - 1) : r[j] \in Nat
    BY <1>10
  <2>3. \A j \in 1..m : w[j] \in Nat
    BY <1>2, <1>10, <2>1, <2>2
  <2> QED
    BY <2>3
<1>12. Sum(w) = MaxTotal
  <2> PICK l \in Nat : l = m - 1
    BY <1>1
  <2>1. m = l + 1
    BY <1>1
  <2>4. /\ r \in [1..l -> Nat] /\ w \in [1..(l + 1) -> Nat]
        /\ \A j \in 1..l : r[j] = w[j]
    BY <1>10, <1>11, <2>1
  <2>5. Sum(w) = Sum(r) + w[l + 1]
    BY ONLY l \in Nat, <2>4, SumLast
  <2>2. Sum(w) = Sum(r) + w[m]
    BY <2>1, <2>5
  <2>3. Sum(r) = Spent(all, m)
    BY DEF Spent
  <2> QED
    BY <1>2, <1>10, <2>2, <2>3
<1>13. Sum(s) <= Sum(w)
  BY ONLY k \in Nat, <1>1, <1>7, <1>8, <1>11, SumOfSome
<1>14. [i \in DOMAIN q |-> q[i].page.cost] = s
  BY <1>5
<1> QED
  BY <1>3, <1>12, <1>13, <1>14

(* The pages of a flattened sequence begin with those of the first.          *)
LEMMA FlatBegins ==
    ASSUME NEW T, NEW seqs \in Seq(Seq(T)), Len(seqs) # 0
    PROVE  /\ Len(seqs[1]) <= Len(FlattenSeq(seqs))
           /\ \A i \in 1..Len(seqs[1]) : FlattenSeq(seqs)[i] = seqs[1][i]
<1> PICK n \in Nat : n = Len(seqs)
  OBVIOUS
<1> PICK flat : flat = Flat(seqs)
  OBVIOUS
<1>1. /\ flat \in [1..n -> Seq(T)]
      /\ \A i \in 1..n : flat[i] = IF i = 1 THEN seqs[i] ELSE flat[i - 1] \o seqs[i]
      /\ FlattenSeq(seqs) = flat[n]
  BY FlatIs
<1>2. \A i \in 1..n : seqs[i] \in Seq(T)
  OBVIOUS
<1> PICK a : a = seqs[1]
  OBVIOUS
<1>3. a \in Seq(T)
  BY <1>2
<1> DEFINE Starts(b) == Len(a) <= Len(b) /\ \A i \in 1..Len(a) : b[i] = a[i]
           P == {k \in Nat : k + 1 <= n => flat[k + 1] \in Seq(T) /\ Starts(flat[k + 1])}
<1>4. 0 \in P
  <2>1. flat[1] = a
    <3>1. 1 \in 1..n
      OBVIOUS
    <3> QED
      BY <1>1, <3>1
  <2> QED
    BY <1>3, <2>1
<1>5. ASSUME NEW k \in Nat, k \in P PROVE k + 1 \in P
  <2> SUFFICES ASSUME (k + 1) + 1 <= n
               PROVE  flat[(k + 1) + 1] \in Seq(T) /\ Starts(flat[(k + 1) + 1])
    OBVIOUS
  <2> PICK j : j = (k + 1) + 1
    OBVIOUS
  <2>1. j \in 1..n /\ j # 1 /\ j - 1 = k + 1 /\ k + 1 <= n
    OBVIOUS
  <2>2. flat[k + 1] \in Seq(T) /\ Starts(flat[k + 1])
    BY <1>5, <2>1
  <2> PICK b : b = flat[k + 1]
    OBVIOUS
  <2> PICK c : c = seqs[j]
    OBVIOUS
  <2>3. b \in Seq(T) /\ c \in Seq(T) /\ Starts(b) /\ flat[j] = b \o c
    BY <1>1, <1>2, <2>1, <2>2
  <2>4. b \o c \in Seq(T) /\ Starts(b \o c)
    <3>0. b \in Seq(T) /\ c \in Seq(T)
      BY <2>3
    <3>1. b \o c \in Seq(T) /\ Len(b \o c) = Len(b) + Len(c)
          /\ \A i \in 1..Len(b) : (b \o c)[i] = b[i]
      BY ONLY <3>0, ConcatProperties
    <3>2. Len(a) \in Nat /\ Len(b) \in Nat /\ Len(c) \in Nat
      BY <1>3, <2>3
    <3>6. Len(a) <= Len(b)
      BY <2>3
    <3>3. Len(a) <= Len(b \o c)
      BY ONLY <3>1, <3>2, <3>6
    <3>4. \A i \in 1..Len(a) : i \in 1..Len(b)
      BY <2>3, <3>2
    <3>5. \A i \in 1..Len(a) : (b \o c)[i] = a[i]
      BY <2>3, <3>1, <3>4
    <3> QED
      BY <3>1, <3>3, <3>5
  <2> QED
    BY <2>3, <2>4
<1> HIDE DEF P
<1>6. n - 1 \in P
  <2>1. n - 1 \in Nat
    OBVIOUS
  <2> QED
    BY <1>4, <1>5, <2>1, Induction
<1>7. (n - 1) + 1 = n
  OBVIOUS
<1>8. Starts(flat[n])
  BY <1>6, <1>7 DEF P
<1> QED
  BY <1>1, <1>8

(* The pages of a turn have its place.                                       *)
LEMMA PagesPlaced ==
    ASSUME NEW t \in StoredTurns, NEW place \in Int
    PROVE  \A i \in 1..Len(PagesOf(t, place)) : PagesOf(t, place)[i].place = place
<1> PICK packs : packs = t.packs
  OBVIOUS
<1> PICK n : n = Len(packs)
  OBVIOUS
<1>1. packs \in Seq(StoredPacks) /\ n \in Nat /\ DOMAIN packs = 1..n
  BY DEF StoredTurns
<1>2. \A i \in 1..n : packs[i] \in StoredPacks
  BY <1>1
<1>3. \A i \in 1..n : packs[i].order \in Int /\ packs[i].problem \in Int
  BY <1>2 DEF StoredPacks
<1>4. IsFiniteSet(1..n) /\ Cardinality(1..n) = n /\ 1..n \in SUBSET Int
  BY <1>1, UpTo
<1> PICK ord : ord = PackOrder(packs)
  OBVIOUS
<1>5. ord \in Seq(1..n) /\ Len(ord) = n
  BY <1>1, <1>3, <1>4, PackOrderIs
<1> PICK seqs : seqs = [i \in 1..n |-> PlacedPagesOf(packs[ord[i]], place)]
  OBVIOUS
<1> PICK There : There = {c \in PlacedPages : c.place = place}
  OBVIOUS
<1>6. \A i \in 1..n : ord[i] \in 1..n
  BY <1>5
<1>7. ASSUME NEW i \in 1..n PROVE PlacedPagesOf(packs[ord[i]], place) \in Seq(There)
  <2> PICK s : s = PlacedPagesOf(packs[ord[i]], place)
    OBVIOUS
  <2>1. s \in Seq(PlacedPages) /\ \A c \in ToSet(s) : c.place = place
    BY <1>2, <1>6, LeavesAre
  <2>2. \A l \in 1..Len(s) : s[l] \in There
    BY <2>1 DEF ToSet
  <2> QED
    BY <2>1, <2>2
<1>8. seqs \in Seq(Seq(There))
  <2>1. \A i \in 1..n : PlacedPagesOf(packs[ord[i]], place) \in Seq(There)
    BY <1>7
  <2> PICK U : U = Seq(There)
    OBVIOUS
  <2>2. seqs \in [1..n -> U]
    BY <2>1
  <2>4. n \in Nat
    BY <1>1
  <2>3. seqs \in Seq(U)
    BY ONLY <2>2, <2>4
  <2> QED
    BY <2>3
<1>9. PagesOf(t, place) = FlattenSeq(seqs)
  <2>1. PagesOf(t, place) = FlattenSeq([i \in DOMAIN packs |-> PlacedPagesOf(packs[ord[i]], place)])
    BY PagesOfFlat
  <2> QED
    BY <1>1, <2>1
<1>10. PagesOf(t, place) \in Seq(There)
  BY <1>8, <1>9, FlatType
<1> PICK p : p = PagesOf(t, place)
  OBVIOUS
<1>11. \A i \in 1..Len(p) : p[i] \in There
  BY <1>10
<1> QED
  BY <1>11

(* The newest turn's pages come first.                                       *)
LEMMA NewestFirstOf ==
    ASSUME NEW turns \in Seq(StoredTurns), NEW n \in Nat, n = Len(turns), n # 0
    PROVE  /\ PagesOf(turns[n], n) \in Seq(PlacedPages)
           /\ Len(PagesOf(turns[n], n)) <= Len(Candidates(turns))
           /\ \A i \in 1..Len(PagesOf(turns[n], n)) :
                 /\ Candidates(turns)[i] = PagesOf(turns[n], n)[i]
                 /\ Candidates(turns)[i].place = n
<1>1. \A i \in 1..n : turns[i] \in StoredTurns
  OBVIOUS
<1> PICK seqs : seqs = [i \in 1..n |-> PagesOf(turns[n + 1 - i], n + 1 - i)]
  OBVIOUS
<1>2. ASSUME NEW i \in 1..n PROVE PagesOf(turns[n + 1 - i], n + 1 - i) \in Seq(PlacedPages)
  <2>1. n + 1 - i \in 1..n /\ n + 1 - i \in Int
    BY <1>1
  <2> PICK k : k = n + 1 - i
    OBVIOUS
  <2>2. turns[k] \in StoredTurns /\ k \in Int
    BY <1>1, <2>1
  <2> QED
    BY <2>2, PagesOfIs
<1>3. seqs \in Seq(Seq(PlacedPages)) /\ Len(seqs) = n
  BY <1>1, <1>2
<1>4. Candidates(turns) = FlattenSeq(seqs)
  BY DEF Candidates
<1>5. seqs[1] = PagesOf(turns[n], n)
  <2>1. 1 \in 1..n /\ n + 1 - 1 = n
    OBVIOUS
  <2> QED
    BY <2>1
<1> PICK p : p = PagesOf(turns[n], n)
  OBVIOUS
<1>6. p \in Seq(PlacedPages) /\ \A i \in 1..Len(p) : p[i].place = n
  <2>1. turns[n] \in StoredTurns
    BY <1>1
  <2> PICK t : t = turns[n]
    OBVIOUS
  <2>2. t \in StoredTurns /\ n \in Int /\ p = PagesOf(t, n)
    BY <2>1
  <2>3. p \in Seq(PlacedPages)
    BY <2>2, PagesOfIs
  <2>4. \A i \in 1..Len(PagesOf(t, n)) : PagesOf(t, n)[i].place = n
    BY <2>2, PagesPlaced
  <2> QED
    BY <2>2, <2>3, <2>4
<1>7. Len(p) <= Len(FlattenSeq(seqs)) /\ \A i \in 1..Len(p) : FlattenSeq(seqs)[i] = p[i]
  <2>1. p = seqs[1] /\ Len(seqs) # 0
    BY <1>3, <1>5
  <2>2. /\ Len(seqs[1]) <= Len(FlattenSeq(seqs))
        /\ \A i \in 1..Len(seqs[1]) : FlattenSeq(seqs)[i] = seqs[1][i]
    BY <1>3, <2>1, FlatBegins
  <2> QED
    BY <2>1, <2>2
<1> QED
  BY <1>4, <1>6, <1>7

(* A page of an older turn is taken only if each of the newest turn's is, or *)
(* another of the same snapshot.                                             *)
LEMMA NewestTaken ==
    ASSUME NEW turns \in Seq(StoredTurns), NEW n \in Nat, n = Len(turns),
           NEW old \in Taken(turns), old.place < n, n # 0,
           NEW c \in ToSet(PagesOf(turns[n], n))
    PROVE  \E d \in Taken(turns) : SameSnapshot(c, d)
<1> PICK all : all = Candidates(turns)
  OBVIOUS
<1> PICK newest : newest = PagesOf(turns[n], n)
  OBVIOUS
<1> PICK m : m = Stop(all)
  OBVIOUS
<1> PICK room : room = MaxTotal - Spent(all, m)
  OBVIOUS
<1>1. /\ all \in Seq(PlacedPages) /\ newest \in Seq(PlacedPages)
      /\ Len(newest) <= Len(all)
      /\ \A i \in 1..Len(newest) : all[i] = newest[i] /\ all[i].place = n
  BY CandidatesOf, NewestFirstOf
<1>2. m \in 1..(Len(all) + 1) /\ room \in Nat /\ old \in TakenOf(all)
  BY <1>1, StopIs, TakenPlace DEF Taken, Stops
<1>3. PICK k \in 1..m : k <= Len(all) /\ old = TakenAt(all, m, room, k)
  BY <1>1, <1>2, TakenPlace
<1>4. all[k] \in PlacedPages /\ old.place = all[k].place /\ all[k].place \in Int
  <2>1. all[k] \in PlacedPages
    BY <1>1, <1>2, <1>3
  <2>2. MaxTotal \in Nat
    BY ContextAssumption
  <2>3. old.place = all[k].place
    BY <1>2, <1>3, <2>1, <2>2, CutIs DEF TakenAt
  <2> QED
    BY <2>1, <2>3 DEF PlacedPages
<1>5. ~(k <= Len(newest))
  BY <1>1, <1>3, <1>4
<1>6. PICK i \in 1..Len(newest) : c = newest[i]
  BY <1>1 DEF ToSet
<1>7. /\ i \in Nat /\ i # 0 /\ i <= m - 1 /\ i \in 1..Len(all) /\ c = all[i]
      /\ m \in Nat /\ m - 1 <= Len(all) /\ Len(all) \in Nat
  BY <1>1, <1>2, <1>3, <1>5, <1>6
<1> DEFINE P == {j \in 1..i : SameSnapshot(all[j], all[i])}
<1>8. i \in P /\ P \in SUBSET Nat
  BY <1>7 DEF SameSnapshot
<1>9. PICK j \in P : \A l \in P : j <= l
  <2> HIDE DEF P
  <2> QED BY <1>8, HasLeast
<1>10. j \in 1..i /\ SameSnapshot(all[j], all[i])
  OBVIOUS
<1>11. j \in 1..(m - 1) /\ all[j] \in PlacedPages
  BY <1>1, <1>7, <1>10
<1>12. ~Seen(all, j)
  <2> SUFFICES ASSUME NEW l \in 1..(j - 1), SameSnapshot(all[l], all[j]) PROVE FALSE
    BY DEF Seen
  <2>1. l \in 1..i /\ ~(j <= l)
    BY <1>7, <1>10
  <2>2. SameSnapshot(all[l], all[i])
    BY <1>10 DEF SameSnapshot
  <2>3. l \in P
    BY <2>1, <2>2
  <2> HIDE DEF P
  <2> QED
    BY <1>9, <2>1, <2>3
<1> HIDE DEF P
<1> PICK d : d = Cut(all[j], MaxTotal)
  OBVIOUS
<1>13. d \in Taken(turns)
  <2>1. d \in TakenOf(all)
    BY <1>11, <1>12 DEF TakenOf, ReadUpTo
  <2> QED
    BY <2>1 DEF Taken
<1>14. SameSnapshot(all[j], d)
  <2>1. MaxTotal \in Nat
    BY ContextAssumption
  <2> QED
    BY <1>11, <2>1, CutIs DEF SameSnapshot
<1>15. SameSnapshot(c, d)
  BY <1>7, <1>10, <1>14 DEF SameSnapshot
<1> QED
  BY <1>13, <1>15

-----------------------------------------------------------------------------
(* The known sources of the context.  All the sources it may know are in a   *)
(* sequence.                                                                 *)
OfIds(t, ids) ==
    LET order == PageOrder(PagesOf(t, 0))
    IN FlattenSeq([i \in DOMAIN order |-> IF order[i] \in ids THEN <<order[i]>> ELSE <<>>])

(* Reading sequences newest first and in one piece gives a sequence.         *)
LEMMA NewestFirstType ==
    ASSUME NEW T, NEW n \in Nat, NEW parts \in [1..n -> Seq(T)]
    PROVE  NewestFirst(parts) \in Seq(T)
<1> PICK U : U = Seq(T)
  OBVIOUS
<1>1. Len(parts) = n /\ parts \in [1..n -> U]
  OBVIOUS
<1> PICK r : r = [i \in 1..n |-> parts[(n - i) + 1]]
  OBVIOUS
<1>2. Reverse(parts) = r
  BY <1>1 DEF Reverse
<1>3. r \in [1..n -> U]
  <2>1. \A i \in 1..n : (n - i) + 1 \in 1..n
    OBVIOUS
  <2> QED
    BY <1>1, <2>1
<1>4. r \in Seq(U)
  BY <1>3
<1> QED
  BY <1>2, <1>4, FlatType DEF NewestFirst

(* The admitted sources of a turn's pages, in order.                         *)
LEMMA OfIdsType ==
    ASSUME NEW t \in StoredTurns, NEW ids
    PROVE  OfIds(t, ids) \in Seq(Nat)
<1> PICK pages : pages = PagesOf(t, 0)
  OBVIOUS
<1>1. pages \in Seq(PlacedPages)
  BY PagesOfIs
<1> PICK n \in Nat : n = Len(pages)
  BY <1>1
<1> PICK order : order = PageOrder(pages)
  OBVIOUS
<1>2. order = [i \in 1..n |-> pages[i].page.source]
  BY <1>1 DEF PageOrder
<1>3. \A i \in 1..n : order[i] \in Nat
  <2>1. \A i \in 1..n : pages[i] \in PlacedPages
    BY <1>1
  <2>2. \A i \in 1..n : pages[i].page.source \in Nat
    BY <2>1 DEF PlacedPages, PageRecord
  <2> QED
    BY <1>2, <2>2
<1> PICK U : U = Seq(Nat)
  OBVIOUS
<1> PICK parts : parts = [i \in 1..n |-> IF order[i] \in ids THEN <<order[i]>> ELSE <<>>]
  OBVIOUS
<1>4. parts \in [1..n -> U]
  <2>1. \A i \in 1..n : <<order[i]>> \in U /\ <<>> \in U
    BY <1>3
  <2> QED
    BY <2>1
<1>5. parts \in Seq(U)
  BY <1>4
<1>6. FlattenSeq(parts) \in Seq(Nat)
  BY <1>5, FlatType
<1>7. DOMAIN order = 1..n
  BY <1>2
<1> QED
  BY <1>6, <1>7 DEF OfIds

(* A sequence over natural numbers of some set is one of natural numbers.    *)
LEMMA WiderSeq ==
    ASSUME NEW S, NEW s \in Seq(S), \A x \in S : x \in Nat /\ x \in Int
    PROVE  s \in Seq(Nat)
<1> PICK m \in Nat : m = Len(s)
  OBVIOUS
<1>1. DOMAIN s = 1..m /\ s = [i \in 1..m |-> s[i]] /\ \A i \in 1..m : s[i] \in S
  OBVIOUS
<1>2. \A i \in 1..m : s[i] \in Nat
  BY <1>1
<1>3. s \in [1..m -> Nat]
  BY ONLY <1>1, <1>2
<1> QED
  BY <1>3

(* What the budgets are spent on in turn are places of pages.                *)
LEMMA PrioritiesType ==
    ASSUME NEW turns \in Seq(StoredTurns), NEW ids
    PROVE  Priorities(turns, ids) \in Seq(Nat)
<1> PICK n \in Nat : n = Len(turns)
  OBVIOUS
<1>1. DOMAIN turns = 1..n /\ \A i \in 1..n : turns[i] \in StoredTurns
  OBVIOUS
<1> PICK U : U = Seq(Nat)
  OBVIOUS
<1> PICK a : a = [i \in 1..n |-> OfIds(turns[i], ids)]
  OBVIOUS
<1> PICK b : b = [i \in 1..n |-> InOrder(turns[i].supports, <)]
  OBVIOUS
<1> PICK c : c = [i \in 1..n |-> turns[i].destinations]
  OBVIOUS
<1>2. a \in [1..n -> U]
  <2>1. \A i \in 1..n : OfIds(turns[i], ids) \in U
    BY <1>1, OfIdsType
  <2> QED
    BY <2>1
<1>3. b \in [1..n -> U]
  <2>1. ASSUME NEW i \in 1..n PROVE InOrder(turns[i].supports, <) \in U
    <3> PICK S : S = turns[i].supports
      OBVIOUS
    <3>1. S \in SUBSET Nat /\ IsFiniteSet(S)
      <4>1. turns[i] \in StoredTurns
        BY <1>1
      <4> QED
        BY <4>1 DEF StoredTurns
    <3>5. \A x \in S : x \in Nat /\ x \in Int
      BY ONLY <3>1
    <3>2. S \in SUBSET Int
      BY ONLY <3>5
    <3> PICK s : s = Ascending(S)
      OBVIOUS
    <3>3. s \in Seq(S)
      BY <3>1, <3>2, AscendingIs
    <3>4. s \in Seq(Nat)
      BY ONLY <3>3, <3>5, WiderSeq
    <3> QED
      BY <3>4 DEF Ascending
  <2>2. \A i \in 1..n : InOrder(turns[i].supports, <) \in U
    BY <2>1
  <2> QED
    BY <2>2
<1>4. c \in [1..n -> U]
  <2>1. \A i \in 1..n : turns[i].destinations \in U
    BY <1>1 DEF StoredTurns
  <2> QED
    BY <2>1
<1>5. /\ NewestFirst(a) \in Seq(Nat) /\ NewestFirst(b) \in Seq(Nat)
      /\ NewestFirst(c) \in Seq(Nat)
  BY <1>2, <1>3, <1>4, NewestFirstType
<1>6. Priorities(turns, ids) = NewestFirst(a) \o NewestFirst(b) \o NewestFirst(c)
  BY <1>1 DEF Priorities, OfIds
<1> PICK x, y, z : x = NewestFirst(a) /\ y = NewestFirst(b) /\ z = NewestFirst(c)
  OBVIOUS
<1>9. x \in Seq(Nat) /\ y \in Seq(Nat) /\ z \in Seq(Nat)
  BY <1>5
<1>7. x \o y \in Seq(Nat)
  BY ONLY <1>9, ConcatProperties
<1>8. (x \o y) \o z \in Seq(Nat)
  BY ONLY <1>9, <1>7, ConcatProperties
<1> QED
  BY <1>6, <1>8

(* Of a sequence the first of each value are as many as a number says.       *)
LEMMA DistinctIs ==
    ASSUME NEW T, NEW seq \in Seq(T)
    PROVE  Len(Distinct(seq)) \in Nat
<1> PICK n \in Nat : n = Len(seq)
  OBVIOUS
<1> PICK firsts : firsts = {i \in DOMAIN seq : \A j \in 1..(i - 1) : seq[j] # seq[i]}
  OBVIOUS
<1>1. firsts \in SUBSET (1..n) /\ DOMAIN seq = 1..n
  OBVIOUS
<1>2. IsFiniteSet(firsts) /\ firsts \in SUBSET Int
  BY <1>1, UpTo, FS_Subset
<1> PICK places : places = Ascending(firsts)
  OBVIOUS
<1>3. places \in Seq(firsts)
  BY <1>2, AscendingIs
<1>4. Distinct(seq) = [i \in DOMAIN places |-> seq[places[i]]]
  BY DEF Distinct, Ascending
<1> PICK m : m = Len(places)
  OBVIOUS
<1>8. m \in Nat
  BY ONLY <1>3, m = Len(places)
<1>5. DOMAIN places = 1..m
  BY ONLY <1>3, m = Len(places)
<1>6. Distinct(seq) = [i \in 1..m |-> seq[places[i]]]
  BY <1>4, <1>5
<1>7. Len([i \in 1..m |-> seq[places[i]]]) = m
  BY <1>8
<1> QED
  BY <1>6, <1>7, <1>8

(* The context knows no more sources than the cap.                           *)
LEMMA KnownFits ==
    ASSUME NEW turns \in Seq(StoredTurns), NEW evidence
    PROVE  Cardinality(Known(turns, evidence)) <= MaxTurns * KnownPerTurn
<1> PICK wanted : wanted = Distinct(Priorities(turns, PageIds(evidence)))
  OBVIOUS
<1>1. Len(wanted) \in Nat
  BY PrioritiesType, DistinctIs
<1> PICK cap : cap = MaxTurns * KnownPerTurn
  OBVIOUS
<1>2. cap \in Nat
  BY ContextAssumption
<1> PICK k : k = Shorter(Len(wanted), cap)
  OBVIOUS
<1>3. k \in Nat /\ k <= cap /\ k <= Len(wanted)
  BY <1>1, <1>2 DEF Shorter
<1> PICK f : f = [i \in 1..k |-> wanted[i]]
  OBVIOUS
<1>4. SubSeq(wanted, 1, k) = f
  BY <1>3
<1>5. Known(turns, evidence) = ToSet(f)
  BY <1>4 DEF Known, Capped
<1>6. f \in Surjection(1..k, ToSet(f))
  BY DEF Surjection, ToSet
<1>7. ExistsSurjection(1..k, ToSet(f))
  BY <1>6 DEF ExistsSurjection
<1>8. Cardinality(ToSet(f)) <= k
  BY <1>3, <1>7, FS_SurjCardinalityBound
<1>9. Cardinality(ToSet(f)) \in Nat
  <2>1. IsFiniteSet(1..k)
    BY <1>3, UpTo
  <2> QED
    BY <1>6, <2>1, FS_Surjection, FS_CardinalityType
<1> QED
  BY <1>2, <1>3, <1>5, <1>8, <1>9

-----------------------------------------------------------------------------
(* Whatever turns a thread has stored, what it contributes to the next       *)
(* question keeps to its budgets of characters, for requests and answers,    *)
(* for each page and for all, and to the cap of known sources; and a page of *)
(* an older turn is taken only when all of the newest turn's are             *)
(* (thread-context.ts).                                                      *)
THEOREM ContextsFit ==
    Spec => []ContextFits
<1>1. ASSUME Learning PROVE ContextFits
  <2> PICK turns : turns = Recent(thread)
    OBVIOUS
  <2>1. thread \in Seq(StoredTurns)
    BY <1>1 DEF Learning
  <2>2. /\ turns \in Seq(StoredTurns)
        /\ Requests(turns) \in Nat /\ Requests(turns) <= MaxChars
    BY <2>1, RecentIs, RequestsFit
  <2> PICK built : built = BuildThreadContext(thread)
    OBVIOUS
  <2>3. /\ built.requests = Requests(turns) /\ built.answers = Answers(turns)
        /\ built.known = Known(turns, Evidence(turns))
    BY DEF BuildThreadContext, ContextFrom, ContextWith
  <2> PICK taken : taken = Taken(turns)
    OBVIOUS
  <2> PICK all : all = Candidates(turns)
    OBVIOUS
  <2>4. all \in Seq(PlacedPages) /\ taken = TakenOf(all)
    BY <2>2, CandidatesOf DEF Taken
  <2> PICK answered : answered = [i \in DOMAIN built.answers |-> Sum(LengthsOf(built.answers[i]))]
    OBVIOUS
  <2>5. built.requests + Sum(answered) <= MaxChars
    <3>1. MaxChars - Requests(turns) \in Nat /\ MaxChars \in Nat
      BY <2>2, ContextAssumption
    <3>2. Sum(answered) \in Nat /\ Sum(answered) <= MaxChars - Requests(turns)
      BY <2>2, <2>3, <3>1, AnswersFit
    <3> QED
      BY <2>2, <2>3, <3>1, <3>2
  <2>6. /\ \A c \in taken : c.page.cost <= MaxPerSource
        /\ Sum([i \in DOMAIN SetToSeq(taken) |-> SetToSeq(taken)[i].page.cost]) <= MaxTotal
    BY <2>4, PagesFit
  <2>7. Cardinality(built.known) <= MaxTurns * KnownPerTurn
    BY <2>2, <2>3, KnownFits
  <2>8. ASSUME NEW old \in taken, old.place < Len(turns),
               NEW c \in ToSet(PagesOf(turns[Len(turns)], Len(turns)))
        PROVE  \E d \in taken : SameSnapshot(c, d)
    <3> PICK n \in Nat : n = Len(turns)
      BY <2>2
    <3>1. n # 0
      <4> SUFFICES ASSUME n = 0 PROVE FALSE
        OBVIOUS
      <4> PICK s : s = [i \in 1..n |-> PagesOf(turns[n + 1 - i], n + 1 - i)]
        OBVIOUS
      <4>1. all = FlattenSeq(s)
        BY DEF Candidates
      <4>2. Len(s) = 0
        <5>1. s = <<>>
          OBVIOUS
        <5> QED
          BY <5>1
      <4>3. Len(all) = 0
        BY <4>1, <4>2, FlattenIs
      <4>4. PICK j \in 1..Stop(all) : j <= Len(all)
        BY <2>4, <2>8, TakenPlace
      <4>5. j \in Nat /\ 1 <= j
        BY <2>4, StopIs DEF Stops
      <4> QED
        BY <4>3, <4>4, <4>5
    <3> QED
      BY <2>2, <2>8, <3>1, NewestTaken
  <2>9. FitsBudgets(turns, built, taken)
    BY <2>5, <2>6, <2>7, <2>8 DEF FitsBudgets
  <2> QED
    BY <2>9 DEF ContextFits
<1> QED
  BY <1>1, KnowledgeInvariance, PTL
=============================================================================
