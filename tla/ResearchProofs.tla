--------------------------- MODULE ResearchProofs ---------------------------
(***************************************************************************)
(* The safety of a research for every budget, depth, model and search: the *)
(* resolver's calls, marks, gaps and accounts                              *)
(* (src/src/application/research-resolver.ts), the acquirer they wait for  *)
(* (evidence-acquirer.ts) and the turn around them                         *)
(* (execute-research-turn.ts).                                             *)
(*                                                                         *)
(* One invariant, Inv, carries all of it.  Its first part, Shape, says how *)
(* the stack of calls, the marks of the problems under way and the gaps    *)
(* belong together; it is stated of four values, not of the variables, so  *)
(* that the lemmas about a call that goes on, calls a child or returns are *)
(* free of the program.  Every step of the resolver is then one of three:  *)
(* the innermost call advances (GoKeeps), it returns (ReturnKeeps), or the *)
(* whole research is given up (ThrowsKeeps).                               *)
(***************************************************************************)
EXTENDS ResearchTurn, TLAPS, FiniteSetTheorems, SequenceTheorems

-----------------------------------------------------------------------------
(* The stack of calls, and what its problems have marked.                    *)

(* A frame, whatever its problem knows.                                      *)
IsFrame(f) ==
    /\ f = [path |-> f.path, know |-> f.know, pc |-> f.pc, query |-> f.query,
            todo |-> f.todo, operator |-> f.operator, attempt |-> f.attempt]
    /\ f.pc \in {"enter", "assess", "search", "children"}

(* A sequence of some set, which is that of its own elements.                *)
IsSeq(s) == s \in Seq(ToSet(s))

(* A sequence over any set is one.                                           *)
LEMMA IsSeqOf ==
    ASSUME NEW S, NEW s \in Seq(S)
    PROVE  IsSeq(s)
<1>1. s \in [1..Len(s) -> S] /\ Len(s) \in Nat
  BY LenProperties
<1>2. s \in [1..Len(s) -> ToSet(s)]
  BY <1>1 DEF ToSet
<1> QED
  BY <1>1, <1>2 DEF IsSeq

(* All calls but the innermost wait for children; the first is the root's.   *)
IsStack(s) ==
    /\ IsSeq(s)
    /\ \A i \in 1..Len(s) : IsFrame(s[i])
    /\ \A i \in 1..Len(s) : i # Len(s) => s[i].pc = "children"
    /\ s # <<>> => s[1].path = <<Root>>

(* The calls that have begun their work.                                     *)
Entered(s) == {i \in 1..Len(s) : s[i].pc # "enter"}

(* The fingerprints a are those of the calls that have entered, each of one. *)
Marked(s, a) ==
    /\ a = {Fingerprint(s[i].path) : i \in Entered(s)}
    /\ \A i, j \in Entered(s) : Fingerprint(s[i].path) = Fingerprint(s[j].path) => i = j

(* The innermost call goes on as g; it calls f; it returns to the caller h.  *)
Goes(s, g, s2) ==
    /\ IsSeq(s2) /\ Len(s2) = Len(s)
    /\ s2[Len(s)] = g
    /\ \A i \in 1..Len(s) : i # Len(s) => s2[i] = s[i]
Calls(s, f, s2) ==
    /\ IsSeq(s2) /\ Len(s2) = Len(s) + 1
    /\ s2[Len(s2)] = f
    /\ \A i \in 1..Len(s) : s2[i] = s[i]
Comes(s, h, s2) ==
    /\ IsSeq(s2) /\ Len(s2) = Len(s) - 1
    /\ s2[Len(s2)] = h
    /\ \A i \in 1..Len(s2) : i # Len(s2) => s2[i] = s[i]

(* The length of a stack that is not empty, and its ends.                    *)
LEMMA Lengths ==
    ASSUME NEW s, IsSeq(s)
    PROVE  /\ Len(s) \in Nat
           /\ s # <<>> => Len(s) > 0 /\ Len(s) \in 1..Len(s) /\ 1 \in 1..Len(s)
           /\ s # <<>> => Len(s) - 1 \in Nat
           /\ Len(s) > 0 => s # <<>>
<1>1. PICK S : s \in Seq(S)
  BY DEF IsSeq
<1>2. Len(s) \in Nat /\ (s # <<>> => Len(s) > 0) /\ (Len(s) > 0 => s # <<>>)
  BY <1>1
<1> QED
  BY <1>2

(* Replacing the last frame is what it says.                                 *)
LEMMA TopGoes ==
    ASSUME NEW s, IsSeq(s), s # <<>>, NEW g
    PROVE  Goes(s, g, [s EXCEPT ![Len(s)] = g])
<1>1. PICK S : s \in Seq(S)
  BY DEF IsSeq
<1> DEFINE s2 == [s EXCEPT ![Len(s)] = g]
<1>2. /\ s2 \in Seq(S \cup {g}) /\ Len(s2) = Len(s)
      /\ s2[Len(s)] = g /\ \A i \in 1..Len(s) : i # Len(s) => s2[i] = s[i]
  BY <1>1
<1> QED
  BY <1>2, IsSeqOf DEF Goes

(* So is a call,                                                             *)
LEMMA TopCalls ==
    ASSUME NEW s, IsSeq(s), NEW f
    PROVE  Calls(s, f, Append(s, f))
<1>1. PICK S : s \in Seq(S)
  BY DEF IsSeq
<1> DEFINE s2 == Append(s, f)
<1>2. /\ s2 \in Seq(S \cup {f}) /\ Len(s2) = Len(s) + 1
      /\ s2[Len(s) + 1] = f /\ \A i \in 1..Len(s) : s2[i] = s[i]
  BY <1>1
<1> QED
  BY <1>2, IsSeqOf DEF Calls

(* and a return, which replaces the last two frames by one.                  *)
LEMMA TopComes ==
    ASSUME NEW s, IsSeq(s), s # <<>>, Len(s) # 1, NEW h
    PROVE  Comes(s, h, Append(SubSeq(s, 1, Len(s) - 2), h))
<1>1. PICK S : s \in Seq(S)
  BY DEF IsSeq
<1> PICK n : n = Len(s)
  OBVIOUS
<1>2. n \in Nat /\ n >= 2
  BY Lengths
<1> PICK s1 : s1 = SubSeq(s, 1, n - 2)
  OBVIOUS
<1>3. s1 \in Seq(S) /\ Len(s1) = n - 2 /\ \A i \in 1..(n - 2) : s1[i] = s[i]
  <2>1. \A i \in 1..(n - 2) : s[i] \in S
    BY <1>1, <1>2
  <2>2. 1 \in Int /\ n - 2 \in Int /\ (n - 2) - 1 + 1 = n - 2 /\ n - 2 >= 0
        /\ \A i \in 1..(n - 2) : 1 + i - 1 = i
    BY <1>2
  <2>3. /\ s1 \in Seq(S)
        /\ Len(s1) = IF 1 <= n - 2 THEN (n - 2) - 1 + 1 ELSE 0
        /\ \A i \in 1..((n - 2) - 1 + 1) : s1[i] = s[1 + i - 1]
    BY <2>1, <2>2, SubSeqProperties
  <2>4. (IF 1 <= n - 2 THEN n - 2 ELSE 0) = n - 2
    BY <2>2
  <2> QED
    BY <2>2, <2>3, <2>4
<1> DEFINE s2 == Append(s1, h)
<1>4. /\ s2 \in Seq(S \cup {h}) /\ Len(s2) = n - 1 /\ s2[n - 1] = h
      /\ \A i \in 1..(n - 2) : s2[i] = s[i]
  BY <1>2, <1>3
<1>5. \A i \in 1..(n - 1) : i # n - 1 => i \in 1..(n - 2)
  BY <1>2
<1> QED
  BY <1>4, <1>5, IsSeqOf DEF Comes

(* What becomes of the stack and of the marks.                               *)
LEMMA GoesOn ==
    ASSUME NEW s, IsStack(s), s # <<>>, NEW g, IsFrame(g), g.path = s[Len(s)].path,
           NEW s2, Goes(s, g, s2)
    PROVE  /\ IsStack(s2) /\ s2 # <<>> /\ Len(s2) = Len(s)
           /\ \A i \in 1..Len(s) : s2[i].path = s[i].path
<1>1. Len(s) \in Nat /\ Len(s) > 0 /\ Len(s) \in 1..Len(s) /\ 1 \in 1..Len(s)
  BY Lengths DEF IsStack
<1>2. IsSeq(s2) /\ Len(s2) = Len(s) /\ s2[Len(s)] = g
  BY DEF Goes
<1>3. \A i \in 1..Len(s) : s2[i].path = s[i].path
  BY <1>2 DEF Goes
<1>4. \A i \in 1..Len(s) : IsFrame(s2[i])
  BY <1>2 DEF Goes, IsStack
<1>5. \A i \in 1..Len(s) : i # Len(s) => s2[i].pc = "children"
  BY DEF Goes, IsStack
<1>6. s2[1].path = <<Root>>
  BY <1>1, <1>3 DEF IsStack
<1>7. s2 # <<>>
  BY <1>1, <1>2, Lengths
<1> QED
  BY <1>2, <1>3, <1>4, <1>5, <1>6, <1>7 DEF IsStack

(* and when the call that has the last frame calls a child,                  *)
LEMMA CallsOn ==
    ASSUME NEW s, IsStack(s), s # <<>>, s[Len(s)].pc = "children",
           NEW f, IsFrame(f), NEW s2, Calls(s, f, s2)
    PROVE  /\ IsStack(s2) /\ s2 # <<>> /\ Len(s2) = Len(s) + 1
           /\ \A i \in 1..Len(s) : s2[i].path = s[i].path
<1> PICK n : n = Len(s)
  OBVIOUS
<1>1. n \in Nat /\ n > 0 /\ 1 \in 1..n
  BY Lengths DEF IsStack
<1>2. IsSeq(s2) /\ Len(s2) = n + 1 /\ s2[n + 1] = f /\ \A i \in 1..n : s2[i] = s[i]
  BY DEF Calls
<1>3. \A i \in 1..(n + 1) : i \in 1..n \/ i = n + 1
  BY <1>1
<1>4. \A i \in 1..(n + 1) : IsFrame(s2[i])
  BY <1>2, <1>3 DEF IsStack
<1>5. \A i \in 1..n : s[i].pc = "children"
  BY DEF IsStack
<1>6. \A i \in 1..(n + 1) : i # n + 1 => s2[i].pc = "children"
  BY <1>2, <1>3, <1>5
<1>7. s2[1].path = <<Root>>
  BY <1>1, <1>2 DEF IsStack
<1>8. s2 # <<>>
  BY <1>1, <1>2, Lengths
<1> QED
  BY <1>2, <1>4, <1>6, <1>7, <1>8 DEF IsStack

(* and when the child returns to it.                                         *)
LEMMA ComesBack ==
    ASSUME NEW s, IsStack(s), s # <<>>, Len(s) # 1,
           NEW h, IsFrame(h), h.path = s[Len(s) - 1].path,
           NEW s2, Comes(s, h, s2)
    PROVE  /\ IsStack(s2) /\ s2 # <<>> /\ Len(s2) = Len(s) - 1
           /\ \A i \in 1..Len(s2) : s2[i].path = s[i].path
<1> PICK n : n = Len(s)
  OBVIOUS
<1>1. n \in Nat /\ n > 1 /\ 1 \in 1..(n - 1) /\ n - 1 \in Nat /\ n - 1 > 0
  BY Lengths DEF IsStack
<1>2. /\ IsSeq(s2) /\ Len(s2) = n - 1 /\ s2[n - 1] = h
      /\ \A i \in 1..(n - 1) : i # n - 1 => s2[i] = s[i]
  BY DEF Comes
<1>3. \A i \in 1..(n - 1) : i \in 1..n /\ i # n
  BY <1>1
<1>4. \A i \in 1..(n - 1) : IsFrame(s2[i])
  BY <1>2, <1>3 DEF IsStack
<1>5. \A i \in 1..(n - 1) : s2[i].path = s[i].path
  BY <1>2
<1>6. \A i \in 1..(n - 1) : i # n - 1 => s2[i].pc = "children"
  BY <1>2, <1>3 DEF IsStack
<1>7. s2[1].path = <<Root>>
  BY <1>1, <1>5 DEF IsStack
<1>8. s2 # <<>>
  BY <1>1, <1>2, Lengths
<1> QED
  BY <1>2, <1>4, <1>5, <1>6, <1>7, <1>8 DEF IsStack

(* How the marks follow: the call n enters, or leaves, or neither.           *)
Follows(s, a, n, s2, a2) ==
    /\ \A i \in Entered(s2) : i # n => s2[i].path = s[i].path
    /\ \/ /\ n \notin Entered(s) /\ Entered(s2) = Entered(s) \cup {n}
          /\ Fingerprint(s2[n].path) \notin a
          /\ a2 = a \cup {Fingerprint(s2[n].path)}
       \/ /\ n \in Entered(s) /\ Entered(s2) = Entered(s) \ {n}
          /\ a2 = a \ {Fingerprint(s[n].path)}
       \/ Entered(s2) = Entered(s) /\ s2[n].path = s[n].path /\ a2 = a

(* What Follows from a marked stack is marked.                               *)
LEMMA MarksAfter ==
    ASSUME NEW s, NEW a, Marked(s, a), NEW s2, NEW a2, NEW n, Follows(s, a, n, s2, a2)
    PROVE  Marked(s2, a2)
<1> DEFINE FP(i) == Fingerprint(s[i].path)
           FQ(i) == Fingerprint(s2[i].path)
<1>1. a = {FP(i) : i \in Entered(s)} /\ \A i, j \in Entered(s) : FP(i) = FP(j) => i = j
  BY DEF Marked
<1>2. \A i \in Entered(s2) : i # n => FQ(i) = FP(i)
  BY DEF Follows
<1>3. \/ /\ n \notin Entered(s) /\ Entered(s2) = Entered(s) \cup {n}
         /\ FQ(n) \notin a /\ a2 = a \cup {FQ(n)}
      \/ /\ n \in Entered(s) /\ Entered(s2) = Entered(s) \ {n} /\ a2 = a \ {FP(n)}
      \/ Entered(s2) = Entered(s) /\ FQ(n) = FP(n) /\ a2 = a
  BY DEF Follows
<1> HIDE DEF FP, FQ
<1>4. a2 = {FQ(i) : i \in Entered(s2)} /\ \A i, j \in Entered(s2) : FQ(i) = FQ(j) => i = j
  <2>1. CASE /\ n \notin Entered(s) /\ Entered(s2) = Entered(s) \cup {n}
             /\ FQ(n) \notin a /\ a2 = a \cup {FQ(n)}
    BY <1>1, <1>2, <2>1
  <2>2. CASE /\ n \in Entered(s) /\ Entered(s2) = Entered(s) \ {n} /\ a2 = a \ {FP(n)}
    BY <1>1, <1>2, <2>2
  <2>3. CASE Entered(s2) = Entered(s) /\ FQ(n) = FP(n) /\ a2 = a
    BY <1>1, <1>2, <2>3
  <2> QED
    BY <1>3, <2>1, <2>2, <2>3
<1> QED
  BY <1>4 DEF Marked, FQ

(* The marks are right after a call enters, is to be entered again with its  *)
(* own mark released, or just goes on.                                       *)
LEMMA MarksGo ==
    ASSUME NEW s, IsStack(s), s # <<>>, NEW g, g.path = s[Len(s)].path,
           NEW s2, Goes(s, g, s2), NEW a, Marked(s, a), NEW a2,
           \/ /\ s[Len(s)].pc = "enter" /\ g.pc # "enter"
              /\ Fingerprint(g.path) \notin a /\ a2 = a \cup {Fingerprint(g.path)}
           \/ /\ s[Len(s)].pc # "enter" /\ g.pc = "enter"
              /\ a2 = a \ {Fingerprint(g.path)}
           \/ s[Len(s)].pc # "enter" /\ g.pc # "enter" /\ a2 = a
    PROVE  Marked(s2, a2)
<1> PICK n : n = Len(s)
  OBVIOUS
<1>1. n \in 1..n
  BY Lengths DEF IsStack
<1>2. Len(s2) = n /\ s2[n] = g /\ \A i \in 1..n : i # n => s2[i] = s[i]
  BY DEF Goes
<1>3. Entered(s2) = IF g.pc = "enter" THEN Entered(s) \ {n} ELSE Entered(s) \cup {n}
  <2>1. Entered(s2) = {i \in 1..n : IF i = n THEN g.pc # "enter" ELSE s[i].pc # "enter"}
    BY <1>2 DEF Entered
  <2>2. Entered(s) = {i \in 1..n : s[i].pc # "enter"}
    BY DEF Entered
  <2> QED
    BY <1>1, <2>1, <2>2
<1>4. n \in Entered(s) <=> s[n].pc # "enter"
  BY <1>1 DEF Entered
<1>5. \A i \in Entered(s2) : i # n => s2[i].path = s[i].path
  BY <1>2 DEF Entered
<1>6. CASE s[n].pc # "enter" /\ g.pc # "enter" /\ a2 = a
  <2>1. Entered(s2) = Entered(s)
    BY <1>3, <1>4, <1>6
  <2>2. Follows(s, a, n, s2, a2)
    BY <1>2, <1>5, <1>6, <2>1 DEF Follows
  <2> QED
    BY <2>2, MarksAfter
<1>7. CASE /\ s[n].pc = "enter" /\ g.pc # "enter"
           /\ Fingerprint(g.path) \notin a /\ a2 = a \cup {Fingerprint(g.path)}
  <2>1. Follows(s, a, n, s2, a2)
    BY <1>2, <1>3, <1>4, <1>5, <1>7 DEF Follows
  <2> QED
    BY <2>1, MarksAfter
<1>8. CASE s[n].pc # "enter" /\ g.pc = "enter" /\ a2 = a \ {Fingerprint(g.path)}
  <2>1. Follows(s, a, n, s2, a2)
    BY <1>2, <1>3, <1>4, <1>5, <1>8 DEF Follows
  <2> QED
    BY <2>1, MarksAfter
<1> QED
  BY <1>6, <1>7, <1>8

(* A child that was called has no mark yet.                                  *)
LEMMA MarksCall ==
    ASSUME NEW s, IsStack(s), NEW f, f.pc = "enter", NEW s2, Calls(s, f, s2),
           NEW a, Marked(s, a)
    PROVE  Marked(s2, a)
<1> PICK n : n = Len(s)
  OBVIOUS
<1>1. n \in Nat
  BY Lengths DEF IsStack
<1>2. Len(s2) = n + 1 /\ s2[n + 1] = f /\ \A i \in 1..n : s2[i] = s[i]
  BY DEF Calls
<1>3. \A i : i \in 1..(n + 1) <=> i \in 1..n \/ i = n + 1
  BY <1>1
<1>4. Entered(s2) = Entered(s)
  <2>1. \A i : i \in Entered(s2) <=> i \in 1..(n + 1) /\ s2[i].pc # "enter"
    BY <1>2 DEF Entered
  <2>2. \A i : i \in Entered(s) <=> i \in 1..n /\ s[i].pc # "enter"
    BY DEF Entered
  <2>3. \A i \in 1..n : s2[i].pc = s[i].pc
    BY <1>2
  <2>4. s2[n + 1].pc = "enter"
    BY <1>2
  <2> QED
    BY <1>3, <2>1, <2>2, <2>3, <2>4
<1>5. \A i \in Entered(s) : s2[i].path = s[i].path
  BY <1>2 DEF Entered
<1> QED
  BY <1>4, <1>5 DEF Marked

(* A call that returns takes its mark with it.                               *)
LEMMA MarksReturn ==
    ASSUME NEW s, IsStack(s), s # <<>>, Len(s) # 1,
           NEW h, h.path = s[Len(s) - 1].path, h.pc = "children",
           NEW s2, Comes(s, h, s2), NEW a, Marked(s, a)
    PROVE  Marked(s2, IF s[Len(s)].pc = "enter" THEN a
                      ELSE a \ {Fingerprint(s[Len(s)].path)})
<1> PICK n : n = Len(s)
  OBVIOUS
<1> PICK a2 : a2 = IF s[n].pc = "enter" THEN a ELSE a \ {Fingerprint(s[n].path)}
  OBVIOUS
<1> SUFFICES Marked(s2, a2)
  OBVIOUS
<1>1. n \in Nat /\ n > 1 /\ n \in 1..n /\ n - 1 \in 1..n /\ n - 1 # n
  BY Lengths DEF IsStack
<1>2. /\ Len(s2) = n - 1 /\ s2[n - 1] = h
      /\ \A i \in 1..(n - 1) : i # n - 1 => s2[i] = s[i]
  BY DEF Comes
<1>3. \A i : i \in 1..(n - 1) <=> i \in 1..n /\ i # n
  BY <1>1
<1>4. s[n - 1].pc = "children"
  BY <1>1 DEF IsStack
<1>5. \A i \in 1..(n - 1) : s2[i].pc = s[i].pc /\ s2[i].path = s[i].path
  BY <1>2, <1>4
<1>6. Entered(s2) = Entered(s) \ {n}
  <2>1. \A i : i \in Entered(s2) <=> i \in 1..(n - 1) /\ s2[i].pc # "enter"
    BY <1>2 DEF Entered
  <2>2. \A i : i \in Entered(s) <=> i \in 1..n /\ s[i].pc # "enter"
    BY DEF Entered
  <2> QED
    BY <1>3, <1>5, <2>1, <2>2
<1>7. \A i \in Entered(s2) : s2[i].path = s[i].path
  BY <1>2, <1>5 DEF Entered
<1>8. CASE s[n].pc = "enter"
  <2>1. Entered(s2) = Entered(s)
    BY <1>6, <1>8 DEF Entered
  <2> QED
    BY <1>7, <1>8, <2>1 DEF Marked
<1>9. CASE s[n].pc # "enter"
  <2>1. n \in Entered(s)
    BY <1>1, <1>9 DEF Entered
  <2>2. a2 = a \ {Fingerprint(s[n].path)}
    BY <1>9
  <2>3. \A i \in Entered(s2) : i # n => s2[i].path = s[i].path
    BY <1>7
  <2>4. Follows(s, a, n, s2, a2)
    BY <1>6, <2>1, <2>2, <2>3 DEF Follows
  <2> QED
    BY <2>4, MarksAfter
<1> QED
  BY <1>8, <1>9

-----------------------------------------------------------------------------
(* The ledger of gaps.                                                       *)

(* What a gap is when its problem is done.                                   *)
Decided(gap) == gap.status \in {"resolved", "blocked"}

(* A ledger of gaps.                                                         *)
IsLedger(g) ==
    /\ g = [p \in DOMAIN g |-> g[p]]
    /\ \A p \in DOMAIN g : g[p] = [status |-> g[p].status, support |-> g[p].support]

(* Every call that has entered has its gap; a gap that is not decided is     *)
(* that of a call.                                                           *)
Booked(g, s) == \A i \in Entered(s) : s[i].path \in DOMAIN g

(* No gap is left open behind: whoever waits is being resolved.              *)
Pursued(g, s) == \A p \in DOMAIN g : Decided(g[p]) \/ \E i \in 1..Len(s) : s[i].path = p

(* From g to g2 only the gap of p changes.                                   *)
Changes(g, p, g2) ==
    /\ IsLedger(g2) /\ DOMAIN g2 = DOMAIN g \cup {p}
    /\ \A q \in DOMAIN g : q # p => g2[q] = g[q]

(* The ledger in which the gap of p has a new status.                        *)
Stamped(g, p, status) == [g EXCEPT ![p].status = status]

(* A new status changes one gap,                                             *)
LEMMA MarkChanges ==
    ASSUME NEW g, IsLedger(g), NEW p \in DOMAIN g, NEW status
    PROVE  /\ Changes(g, p, Stamped(g, p, status))
           /\ Stamped(g, p, status)[p].status = status
<1> DEFINE gap == [status |-> status, support |-> g[p].support]
<1>1. [g EXCEPT ![p].status = status] = [q \in DOMAIN g |-> IF q = p THEN gap ELSE g[q]]
  <2>1. g[p] = [status |-> g[p].status, support |-> g[p].support]
    BY DEF IsLedger
  <2>2. [g[p] EXCEPT !.status = status] = gap
    BY <2>1
  <2>3. g = [q \in DOMAIN g |-> g[q]]
    BY DEF IsLedger
  <2> HIDE DEF gap
  <2> QED
    BY <2>2, <2>3
<1>2. gap.status = status /\ gap = [status |-> gap.status, support |-> gap.support]
  OBVIOUS
<1> HIDE DEF gap
<1> QED
  BY <1>1, <1>2 DEF Changes, IsLedger, Stamped

(* as does opening it,                                                       *)
LEMMA OpenChanges ==
    ASSUME NEW g, IsLedger(g), NEW p, p \notin DOMAIN g
    PROVE  Changes(g, p, With(g, p, OpenGap))
<1>1. OpenGap = [status |-> OpenGap.status, support |-> OpenGap.support]
  BY DEF OpenGap
<1> QED
  BY <1>1 DEF Changes, IsLedger, With

(* and resolving it with its support.                                        *)
LEMMA ResolveChanges ==
    ASSUME NEW g, IsLedger(g), NEW p \in DOMAIN g, NEW refs
    PROVE  LET g2 == [g EXCEPT ![p] = [status |-> "resolved", support |-> refs]]
           IN Changes(g, p, g2) /\ g2[p].status = "resolved"
<1> DEFINE gap == [status |-> "resolved", support |-> refs]
<1>1. gap.status = "resolved" /\ gap = [status |-> gap.status, support |-> gap.support]
  OBVIOUS
<1> HIDE DEF gap
<1>2. Changes(g, p, [g EXCEPT ![p] = gap]) /\ [g EXCEPT ![p] = gap][p] = gap
  BY <1>1 DEF Changes, IsLedger
<1> QED
  BY <1>1, <1>2 DEF gap

(* Two changes of a gap are one.                                             *)
LEMMA ChangesTwice ==
    ASSUME NEW g, NEW p, NEW g2, Changes(g, p, g2), NEW g3, Changes(g2, p, g3)
    PROVE  Changes(g, p, g3)
BY DEF Changes

(* No change is one, too.                                                    *)
LEMMA NothingChanges ==
    ASSUME NEW g, IsLedger(g), NEW p \in DOMAIN g
    PROVE  Changes(g, p, g)
BY DEF Changes

-----------------------------------------------------------------------------
(* An acquisition.                                                           *)

(* The fields of an acquisition, whatever they hold.                         *)
IsRequest(a) ==
    a = [pc |-> a.pc, problem |-> a.problem, query |-> a.query, order |-> a.order,
         available |-> a.available, capacity |-> a.capacity,
         candidates |-> a.candidates, selected |-> a.selected,
         started |-> a.started, outcome |-> a.outcome, failure |-> a.failure]

(* An acquisition that may consume so many sources: it selects no more than  *)
(* those, and extracts no more at once than it has workers.                  *)
IsAcquisition(a, sources) ==
    /\ IsRequest(a)
    /\ a.pc \in {"search", "extract", "done"}
    /\ a.capacity = sources
    /\ IsFiniteSet(DOMAIN a.candidates)
    /\ IsSeq(a.selected) /\ Len(a.selected) <= Least(MaxSources, sources)
    /\ a.started \in 0..Len(a.selected)
    /\ DOMAIN a.outcome \subseteq 1..a.started
    /\ a.started <= Cardinality(DOMAIN a.outcome) + Workers
    /\ a.pc = "search" => a.selected = <<>>

(* The lesser of two numbers.                                                *)
LEMMA LeastOf ==
    ASSUME NEW m \in Nat, NEW n \in Nat
    PROVE  Least(m, n) \in Nat /\ Least(m, n) <= m /\ Least(m, n) <= n
           /\ (Least(m, n) = m \/ Least(m, n) = n)
BY DEF Least

(* The numbers up to n are n.                                                *)
LEMMA UpTo ==
    ASSUME NEW n \in Nat
    PROVE  IsFiniteSet(1..n) /\ Cardinality(1..n) = n
<1>1. IsFiniteSet(1..n) /\ Cardinality(1..n) = IF 1 > n THEN 0 ELSE n - 1 + 1
  BY FS_Interval
<1> QED
  BY <1>1

(* The extractions in flight are those started and not yet settled.          *)
LEMMA OutcomeCounts ==
    ASSUME NEW a, NEW k, IsAcquisition(a, k)
    PROVE  /\ Len(a.selected) \in Nat /\ a.started \in Nat /\ a.started <= Len(a.selected)
           /\ IsFiniteSet(DOMAIN a.outcome) /\ Cardinality(DOMAIN a.outcome) \in Nat
           /\ Cardinality(DOMAIN a.outcome) <= a.started
           /\ Cardinality(InFlight(a)) = a.started - Cardinality(DOMAIN a.outcome)
<1>1. Len(a.selected) \in Nat /\ a.started \in Nat /\ a.started <= Len(a.selected)
  BY Lengths DEF IsAcquisition
<1>2. IsFiniteSet(1..a.started) /\ Cardinality(1..a.started) = a.started
  BY <1>1, UpTo
<1>3. DOMAIN a.outcome \subseteq 1..a.started
  BY DEF IsAcquisition
<1>4. /\ IsFiniteSet(DOMAIN a.outcome) /\ Cardinality(DOMAIN a.outcome) <= a.started
      /\ Cardinality(DOMAIN a.outcome) \in Nat
  BY <1>2, <1>3, FS_Subset, FS_CardinalityType
<1>5. InFlight(a) = 1..a.started \ DOMAIN a.outcome
  BY DEF InFlight
<1>6. 1..a.started \cap DOMAIN a.outcome = DOMAIN a.outcome
  BY <1>3
<1>7. Cardinality(InFlight(a)) =
         Cardinality(1..a.started) - Cardinality(1..a.started \cap DOMAIN a.outcome)
  BY <1>2, <1>4, <1>5, FS_Difference
<1> QED
  BY <1>1, <1>2, <1>4, <1>6, <1>7

(* A field of a request is set.                                              *)
LEMMA PcSet ==
    ASSUME NEW a, IsRequest(a), NEW x, NEW b, b = [a EXCEPT !.pc = x]
    PROVE  /\ IsRequest(b)
           /\ b.pc = x /\ b.available = a.available /\ b.capacity = a.capacity
           /\ b.candidates = a.candidates /\ b.selected = a.selected /\ b.started = a.started
           /\ b.outcome = a.outcome
<1>1. b = [pc |-> x, problem |-> a.problem, query |-> a.query, order |-> a.order,
      available |-> a.available, capacity |-> a.capacity, candidates |-> a.candidates,
      selected |-> a.selected, started |-> a.started, outcome |-> a.outcome, failure |-> a.failure]
  BY DEF IsRequest
<1> QED
  BY <1>1 DEF IsRequest

(* candidates,                                                               *)
LEMMA CandidatesSet ==
    ASSUME NEW a, IsRequest(a), NEW x, NEW b, b = [a EXCEPT !.candidates = x]
    PROVE  /\ IsRequest(b)
           /\ b.candidates = x /\ b.pc = a.pc /\ b.available = a.available
           /\ b.capacity = a.capacity /\ b.selected = a.selected /\ b.started = a.started
           /\ b.outcome = a.outcome
<1>1. b = [pc |-> a.pc, problem |-> a.problem, query |-> a.query, order |-> a.order,
      available |-> a.available, capacity |-> a.capacity, candidates |-> x,
      selected |-> a.selected, started |-> a.started, outcome |-> a.outcome, failure |-> a.failure]
  BY DEF IsRequest
<1> QED
  BY <1>1 DEF IsRequest

(* selected,                                                                 *)
LEMMA SelectedSet ==
    ASSUME NEW a, IsRequest(a), NEW x, NEW b, b = [a EXCEPT !.selected = x]
    PROVE  /\ IsRequest(b)
           /\ b.selected = x /\ b.pc = a.pc /\ b.available = a.available
           /\ b.capacity = a.capacity /\ b.candidates = a.candidates /\ b.started = a.started
           /\ b.outcome = a.outcome
<1>1. b = [pc |-> a.pc, problem |-> a.problem, query |-> a.query, order |-> a.order,
      available |-> a.available, capacity |-> a.capacity, candidates |-> a.candidates,
      selected |-> x, started |-> a.started, outcome |-> a.outcome, failure |-> a.failure]
  BY DEF IsRequest
<1> QED
  BY <1>1 DEF IsRequest

(* started,                                                                  *)
LEMMA StartedSet ==
    ASSUME NEW a, IsRequest(a), NEW x, NEW b, b = [a EXCEPT !.started = x]
    PROVE  /\ IsRequest(b)
           /\ b.started = x /\ b.pc = a.pc /\ b.available = a.available
           /\ b.capacity = a.capacity /\ b.candidates = a.candidates /\ b.selected = a.selected
           /\ b.outcome = a.outcome
<1>1. b = [pc |-> a.pc, problem |-> a.problem, query |-> a.query, order |-> a.order,
      available |-> a.available, capacity |-> a.capacity, candidates |-> a.candidates,
      selected |-> a.selected, started |-> x, outcome |-> a.outcome, failure |-> a.failure]
  BY DEF IsRequest
<1> QED
  BY <1>1 DEF IsRequest

(* outcome,                                                                  *)
LEMMA OutcomeSet ==
    ASSUME NEW a, IsRequest(a), NEW x, NEW b, b = [a EXCEPT !.outcome = x]
    PROVE  /\ IsRequest(b)
           /\ b.outcome = x /\ b.pc = a.pc /\ b.available = a.available
           /\ b.capacity = a.capacity /\ b.candidates = a.candidates /\ b.selected = a.selected
           /\ b.started = a.started
<1>1. b = [pc |-> a.pc, problem |-> a.problem, query |-> a.query, order |-> a.order,
      available |-> a.available, capacity |-> a.capacity, candidates |-> a.candidates,
      selected |-> a.selected, started |-> a.started, outcome |-> x, failure |-> a.failure]
  BY DEF IsRequest
<1> QED
  BY <1>1 DEF IsRequest

(* and failure.                                                              *)
LEMMA FailureSet ==
    ASSUME NEW a, IsRequest(a), NEW x, NEW b, b = [a EXCEPT !.failure = x]
    PROVE  /\ IsRequest(b)
           /\ b.pc = a.pc /\ b.available = a.available /\ b.capacity = a.capacity
           /\ b.candidates = a.candidates /\ b.selected = a.selected /\ b.started = a.started
           /\ b.outcome = a.outcome
<1>1. b = [pc |-> a.pc, problem |-> a.problem, query |-> a.query, order |-> a.order,
      available |-> a.available, capacity |-> a.capacity, candidates |-> a.candidates,
      selected |-> a.selected, started |-> a.started, outcome |-> a.outcome, failure |-> x]
  BY DEF IsRequest
<1> QED
  BY <1>1 DEF IsRequest

(* Idle workers take what is left, and are never more than there are         *)
(* (evidence-acquirer.ts:354-427).                                           *)
LEMMA MannedIs ==
    ASSUME NEW a, NEW k \in Nat, IsAcquisition(a, k), a.pc # "search"
    PROVE  IsAcquisition(Manned(a), k)
<1> PICK c : c = Cardinality(DOMAIN a.outcome)
  OBVIOUS
<1> PICK n : n = Least(Len(a.selected), c + Workers)
  OBVIOUS
<1>1. /\ Len(a.selected) \in Nat /\ a.started \in Nat /\ a.started <= Len(a.selected)
      /\ c \in Nat
  BY OutcomeCounts
<1>2. Workers \in Nat
  BY AcquirerAssumption
<1>3. n \in 0..Len(a.selected) /\ n <= c + Workers /\ a.started <= n
  <2>1. a.started <= c + Workers
    BY DEF IsAcquisition
  <2> QED
    BY <1>1, <1>2, <2>1 DEF Least
<1>b. PICK b : b = [a EXCEPT !.started = n]
  OBVIOUS
<1>4. /\ IsRequest(b) /\ b.started = n /\ b.pc = a.pc /\ b.capacity = a.capacity
      /\ b.candidates = a.candidates /\ b.selected = a.selected /\ b.outcome = a.outcome
  <2>1. IsRequest(a)
    BY DEF IsAcquisition
  <2> QED
    BY ONLY <1>b, <2>1, StartedSet
<1>5. DOMAIN a.outcome \subseteq 1..n
  BY <1>1, <1>3 DEF IsAcquisition
<1>6. IsAcquisition(b, k)
  BY <1>3, <1>4, <1>5 DEF IsAcquisition
<1> QED
  BY <1>b, <1>6 DEF Manned

(* The candidates are found, and the first pages of them selected.           *)
LEMMA CandidatesAre ==
    ASSUME NEW a, NEW k, IsAcquisition(a, k),
           NEW x, IsFiniteSet(DOMAIN x)
    PROVE  LET b == [a EXCEPT !.candidates = x] IN IsAcquisition(b, k) /\ b.pc = a.pc
<1> PICK b : b = [a EXCEPT !.candidates = x]
  OBVIOUS
<1>1. /\ IsRequest(b) /\ b.candidates = x /\ b.pc = a.pc /\ b.capacity = a.capacity
      /\ b.selected = a.selected /\ b.started = a.started /\ b.outcome = a.outcome
  <2>1. IsRequest(a)
    BY DEF IsAcquisition
  <2> QED
    BY <2>1, CandidatesSet
<1>2. IsAcquisition(b, k)
  BY <1>1 DEF IsAcquisition
<1> QED
  BY <1>1, <1>2

(* The same of its program counter,                                          *)
LEMMA PcIs ==
    ASSUME NEW a, NEW k, IsAcquisition(a, k), NEW x \in {"extract", "done"}
    PROVE  LET b == [a EXCEPT !.pc = x]
           IN /\ IsAcquisition(b, k) /\ b.pc = x
              /\ b.selected = a.selected /\ b.started = a.started
<1> PICK b : b = [a EXCEPT !.pc = x]
  OBVIOUS
<1>1. /\ IsRequest(b) /\ b.pc = x /\ b.capacity = a.capacity /\ b.candidates = a.candidates
      /\ b.selected = a.selected /\ b.started = a.started /\ b.outcome = a.outcome
  <2>1. IsRequest(a)
    BY DEF IsAcquisition
  <2> QED
    BY <2>1, PcSet
<1>2. IsAcquisition(b, k)
  BY <1>1 DEF IsAcquisition
<1> QED
  BY <1>1, <1>2

(* An acquisition may have x selected, with k sources left.                  *)
Holds(a, k, x) ==
    IsSeq(x) /\ Len(x) <= Least(MaxSources, k) /\ a.started <= Len(x)

(* An acquisition that has selected x.                                       *)
Taking(a, x) == [a EXCEPT !.selected = x]

(* of what it selects, while that is within its capacity,                    *)
LEMMA SelectedIs ==
    ASSUME NEW a, NEW k \in Nat, IsAcquisition(a, k), a.pc # "search",
           NEW x, Holds(a, k, x)
    PROVE  IsAcquisition(Taking(a, x), k) /\ Taking(a, x).pc = a.pc
<1> PICK b : b = Taking(a, x)
  OBVIOUS
<1>1. /\ IsRequest(b) /\ b.selected = x /\ b.pc = a.pc /\ b.capacity = a.capacity
      /\ b.candidates = a.candidates /\ b.started = a.started /\ b.outcome = a.outcome
  <2>1. IsRequest(a)
    BY DEF IsAcquisition
  <2> QED
    BY <2>1, SelectedSet DEF Taking
<1>2. a.started \in 0..Len(x)
  BY Lengths, OutcomeCounts DEF Holds
<1>3. IsAcquisition(b, k)
  BY <1>1, <1>2 DEF IsAcquisition, Holds
<1> QED
  BY <1>1, <1>3

(* and of an extraction that settles.                                        *)
LEMMA OutcomesAre ==
    ASSUME NEW a, NEW k \in Nat, IsAcquisition(a, k),
           NEW x, DOMAIN x \subseteq 1..a.started, DOMAIN a.outcome \subseteq DOMAIN x
    PROVE  LET b == [a EXCEPT !.outcome = x] IN IsAcquisition(b, k) /\ b.pc = a.pc
<1> PICK b : b = [a EXCEPT !.outcome = x]
  OBVIOUS
<1>1. /\ IsRequest(b) /\ b.outcome = x /\ b.pc = a.pc /\ b.capacity = a.capacity
      /\ b.candidates = a.candidates /\ b.selected = a.selected /\ b.started = a.started
  <2>1. IsRequest(a)
    BY DEF IsAcquisition
  <2> QED
    BY <2>1, OutcomeSet
<1>2. a.started <= Cardinality(DOMAIN x) + Workers
  <2>1. a.started \in Nat /\ Workers \in Nat
    BY OutcomeCounts, AcquirerAssumption
  <2>2. IsFiniteSet(DOMAIN x)
    BY <2>1, UpTo, FS_Subset
  <2>3. /\ Cardinality(DOMAIN a.outcome) \in Nat /\ Cardinality(DOMAIN x) \in Nat
        /\ Cardinality(DOMAIN a.outcome) <= Cardinality(DOMAIN x)
    BY <2>2, FS_Subset, FS_CardinalityType
  <2>4. a.started <= Cardinality(DOMAIN a.outcome) + Workers
    BY DEF IsAcquisition
  <2> QED
    BY <2>1, <2>3, <2>4
<1>3. IsAcquisition(b, k)
  BY <1>1, <1>2 DEF IsAcquisition
<1> QED
  BY <1>1, <1>3

(* A search leads to finitely many candidates, whatever it returns.          *)
LEMMA CandidatesFinite ==
    ASSUME NEW raw \in SearchResults
    PROVE  IsFiniteSet(DOMAIN Canonical(raw)) /\ DOMAIN Canonical(raw) \in SUBSET Nat
<1> DEFINE Fresh(i) == raw[i] # Junk /\ \A j \in 1..(i - 1) : raw[j].source # raw[i].source
           kept == {i \in DOMAIN raw : Fresh(i)}
           Place(i) == Cardinality({j \in kept : j <= i})
           Ranked(i) == [source |-> raw[i].source,
                         rank |-> IF raw[i].rank > 0 THEN raw[i].rank ELSE Place(i)]
           few == {k \in kept : Place(k) <= MaxCandidates}
           links == {Ranked(i) : i \in few}
<1>1. IsFiniteSet(links)
  <2>1. raw \in Seq([source : Nat, rank : Nat])
    BY AcquirerAssumption
  <2>2. DOMAIN raw = 1..Len(raw) /\ Len(raw) \in Nat
    BY <2>1
  <2>3. few \subseteq 1..Len(raw)
    BY <2>2
  <2>4. IsFiniteSet(few)
    BY <2>2, <2>3, UpTo, FS_Subset
  <2> DEFINE f == [i \in few |-> Ranked(i)]
  <2>5. f \in Surjection(few, links)
    <3> HIDE DEF few, Ranked
    <3> QED
      BY DEF Surjection
  <2> HIDE DEF few, links, f
  <2> QED
    BY <2>4, <2>5, FS_Surjection
<1>2. DOMAIN Canonical(raw) = 1..Cardinality(links)
  BY DEF Canonical
<1> HIDE DEF links
<1> QED
  BY <1>1, <1>2, FS_CardinalityType, UpTo

(* So those not yet extracted are a sequence.                                *)
LEMMA UnextractedIs ==
    ASSUME NEW a, IsFiniteSet(DOMAIN a.candidates)
    PROVE  IsSeq(Unextracted(a)) /\ Len(Unextracted(a)) \in Nat
<1> DEFINE new == {i \in DOMAIN a.candidates : a.candidates[i] \notin a.available}
           place == InOrder(new, <)
           n == Cardinality(new)
           u == [m \in 1..n |-> a.candidates[place[m]]]
<1>1. IsFiniteSet(new)
  BY FS_Subset
<1>2. n \in Nat
  BY <1>1, FS_CardinalityType
<1>3. Unextracted(a) = u
  BY DEF Unextracted
<1> HIDE DEF n, place, new
<1>4. u \in [1..n -> {a.candidates[place[m]] : m \in 1..n}]
  OBVIOUS
<1>5. u \in Seq({a.candidates[place[m]] : m \in 1..n})
  BY <1>2, <1>4
<1> HIDE DEF u
<1> QED
  BY <1>3, <1>5, IsSeqOf, Lengths

(* A failure changes nothing of it.                                          *)
LEMMA FailureIs ==
    ASSUME NEW a, NEW k, IsAcquisition(a, k), NEW x
    PROVE  LET b == [a EXCEPT !.failure = x] IN IsAcquisition(b, k) /\ b.pc = a.pc
<1> PICK b : b = [a EXCEPT !.failure = x]
  OBVIOUS
<1>1. /\ IsRequest(b) /\ b.pc = a.pc /\ b.capacity = a.capacity
      /\ b.candidates = a.candidates /\ b.selected = a.selected
      /\ b.started = a.started /\ b.outcome = a.outcome
  <2>1. IsRequest(a)
    BY DEF IsAcquisition
  <2> QED
    BY <2>1, FailureSet
<1>2. IsAcquisition(b, k)
  BY <1>1 DEF IsAcquisition
<1> QED
  BY <1>1, <1>2

(* What an acquisition does keeps it one, within the sources it may extract. *)
LEMMA AppendIsSeq ==
    ASSUME NEW s, IsSeq(s), NEW x
    PROVE  IsSeq(Append(s, x)) /\ Len(Append(s, x)) = Len(s) + 1
BY TopCalls DEF Calls

(* The first n of a sequence are n.                                          *)
LEMMA FirstAre ==
    ASSUME NEW s, IsSeq(s), NEW n \in Nat, n <= Len(s)
    PROVE  IsSeq(SubSeq(s, 1, n)) /\ Len(SubSeq(s, 1, n)) = n
<1>1. PICK S : s \in Seq(S)
  BY DEF IsSeq
<1> PICK s1 : s1 = SubSeq(s, 1, n)
  OBVIOUS
<1>2. Len(s) \in Nat
  BY Lengths
<1>3. \A i \in 1..n : s[i] \in S
  BY <1>1, <1>2
<1>4. s1 \in Seq(S) /\ Len(s1) = IF 1 <= n THEN n - 1 + 1 ELSE 0
  BY <1>3, SubSeqProperties
<1>5. (IF 1 <= n THEN n - 1 + 1 ELSE 0) = n
  OBVIOUS
<1> QED
  BY <1>4, <1>5, IsSeqOf

(* An acquisition begins with nothing selected.                              *)
LEMMA RequestIs ==
    ASSUME NEW p, NEW q, NEW n, NEW sources, NEW k \in Nat
    PROVE  IsAcquisition(Requested(p, q, n, sources, k), k)
<1> PICK a : a = Requested(p, q, n, sources, k)
  OBVIOUS
<1>1. /\ IsRequest(a) /\ a.pc = "search" /\ a.capacity = k /\ a.candidates = <<>>
      /\ a.selected = <<>> /\ a.started = 0 /\ a.outcome = <<>>
  BY DEF Requested, IsRequest
<1>2. /\ IsSeq(<<>>) /\ Len(<<>>) = 0 /\ DOMAIN <<>> = {}
  <2>1. <<>> \in Seq({})
    OBVIOUS
  <2>2. IsSeq(<<>>)
    BY <2>1, IsSeqOf
  <2>3. DOMAIN <<>> = 1..0 /\ 1..0 = {}
    OBVIOUS
  <2> QED
    BY <2>2, <2>3
<1>3. IsFiniteSet({}) /\ Cardinality({}) = 0
  BY FS_EmptySet
<1>4. Workers \in Nat /\ Least(MaxSources, k) \in Nat
  BY AcquirerAssumption, LeastOf
<1>5. 0 <= Least(MaxSources, k) /\ 0 \in 0..0 /\ 0 <= 0 + Workers
  BY <1>4
<1>6. IsAcquisition(a, k)
  BY <1>1, <1>2, <1>3, <1>5 DEF IsAcquisition
<1> QED
  BY <1>6

(* What is selected first is within the capacity, and is manned.             *)
LEMMA SelectionIs ==
    ASSUME NEW a, NEW k \in Nat, IsAcquisition(a, k), a.pc = "search"
    PROVE  IsAcquisition(Selected(a), k)
<1> PICK n : n = Least(Least(Initial, a.capacity), Len(Unextracted(a)))
  OBVIOUS
<1> PICK pc : pc = IF n = 0 THEN "done" ELSE "extract"
  OBVIOUS
<1> PICK x : x = SubSeq(Unextracted(a), 1, n)
  OBVIOUS
<1>1. IsSeq(Unextracted(a)) /\ Len(Unextracted(a)) \in Nat
  BY UnextractedIs DEF IsAcquisition
<1>2. n \in Nat /\ n <= Len(Unextracted(a)) /\ n <= Least(MaxSources, k)
  <2>1. /\ Initial \in Nat /\ MaxSources \in Nat /\ Initial <= MaxSources
        /\ a.capacity = k
    BY AcquirerAssumption DEF IsAcquisition
  <2> QED
    BY <1>1, <2>1 DEF Least
<1>3. IsSeq(x) /\ Len(x) = n
  BY <1>1, <1>2, FirstAre
<1> PICK b : b = [a EXCEPT !.pc = pc]
  OBVIOUS
<1>4. /\ IsAcquisition(b, k) /\ b.pc = pc /\ pc # "search" /\ b.started = a.started
  BY PcIs
<1>5. a.started = 0
  <2>1. a.started \in 0..Len(a.selected) /\ a.selected = <<>>
    BY DEF IsAcquisition
  <2> QED
    BY <2>1
<1> PICK c : c = Taking(b, x)
  OBVIOUS
<1>6. IsAcquisition(c, k) /\ c.pc # "search"
  <2>1. b.pc # "search" /\ Holds(b, k, x)
    BY <1>2, <1>3, <1>4, <1>5 DEF Holds
  <2> QED
    BY <1>4, <2>1, SelectedIs
<1>7. Selected(a) = Manned(c)
  BY DEF Selected, Taking
<1> QED
  BY <1>6, <1>7, MannedIs

(* So is what replaces an extraction that failed.                            *)
LEMMA SettlingIs ==
    ASSUME NEW a, NEW k \in Nat, IsAcquisition(a, k), a.pc # "search"
    PROVE  IsAcquisition(Settled(a), k)
<1>1. IsAcquisition(Manned(a), k)
  BY MannedIs
<1>2. IsAcquisition([a EXCEPT !.pc = "done"], k)
  BY PcIs
<1>3. ASSUME Backfills(a)
      PROVE  IsAcquisition(Manned([a EXCEPT !.selected =
                                      Append(@, Unextracted(a)[Len(@) + 1])]), k)
  <2> PICK x : x = Append(a.selected, Unextracted(a)[Len(a.selected) + 1])
    OBVIOUS
  <2>1. IsSeq(a.selected) /\ Len(a.selected) \in Nat /\ a.started <= Len(a.selected)
        /\ a.started \in Nat /\ a.capacity = k
    BY OutcomeCounts DEF IsAcquisition
  <2>2. IsSeq(x) /\ Len(x) = Len(a.selected) + 1
    BY <2>1, AppendIsSeq
  <2>3. Len(x) <= Least(MaxSources, k)
    <3>1. Len(a.selected) < Least(k, MaxSources) /\ MaxSources \in Nat
      BY <1>3, <2>1, AcquirerAssumption DEF Backfills
    <3> QED
      BY <2>1, <2>2, <3>1 DEF Least
  <2>4. Holds(a, k, x)
    BY <2>1, <2>2, <2>3 DEF Holds
  <2> PICK b : b = Taking(a, x)
    OBVIOUS
  <2>5. IsAcquisition(b, k) /\ b.pc = a.pc
    BY <2>4, SelectedIs
  <2> QED
    BY <2>5, MannedIs DEF Taking
<1> QED
  BY <1>1, <1>2, <1>3 DEF Settled

-----------------------------------------------------------------------------
(* The inductive invariant.                                                  *)

(* The stack, what it has marked, its ledger and its outcome.                *)
Shape(s, a, g, o) ==
    /\ IsStack(s) /\ Marked(s, a) /\ IsLedger(g) /\ Booked(g, s)
    /\ o # Pending => s = <<>>
    /\ o = Pending \/ o.kind = "resolution" => Pursued(g, s)

(* Amounts of the budget.                                                    *)
Amounts == [searches : Nat, sources : Nat, assessments : Nat]

(* What was spent and what is left make up the budget.                       *)
Accounts ==
    /\ budget \in Amounts /\ used \in Amounts
    /\ \A k \in {"searches", "sources", "assessments"} : used[k] + budget[k] = Budget[k]

(* Whoever waits for an assessment or a search has one left to pay for it.   *)
Waits ==
    /\ Running /\ Top.pc = "assess" => budget.assessments > 0
    /\ acq # Idle => /\ Running /\ Top.pc = "search" /\ budget.searches > 0
                     /\ IsAcquisition(acq, budget.sources)

(* The turn waits for the resolver while it works and until its outcome is   *)
(* taken.                                                                    *)
Turning ==
    /\ turn.pc = "resolving" <=> stack # <<>> \/ outcome # Pending
    /\ Resolved => outcome.status \in {"sufficient", "best_effort", "insufficient"}

(* The inductive invariant.                                                  *)
Inv ==
    /\ Shape(stack, active, gaps, outcome)
    /\ Accounts /\ Waits
    /\ SufficientIsEarned /\ StopIsTrue /\ Turning

-----------------------------------------------------------------------------
(* What a step of the innermost call makes of the shape.                     *)

(* A frame with some of its fields set.                                      *)
LEMMA FrameSet ==
    ASSUME NEW f, IsFrame(f), NEW x, NEW f2,
           \/ f2 = [f EXCEPT !.know = x] \/ f2 = [f EXCEPT !.query = x]
           \/ f2 = [f EXCEPT !.todo = x] \/ f2 = [f EXCEPT !.operator = x]
           \/ f2 = [f EXCEPT !.attempt = x]
    PROVE  IsFrame(f2) /\ f2.path = f.path /\ f2.pc = f.pc
<1>1. f.pc \in {"enter", "assess", "search", "children"}
  BY DEF IsFrame
<1>2. CASE f2 = [f EXCEPT !.know = x]
  <2>1. f2 = [path |-> f.path, know |-> x, pc |-> f.pc, query |-> f.query,
              todo |-> f.todo, operator |-> f.operator, attempt |-> f.attempt]
    BY <1>2 DEF IsFrame
  <2> QED
    BY ONLY <1>1, <2>1 DEF IsFrame
<1>3. CASE f2 = [f EXCEPT !.query = x]
  <2>1. f2 = [path |-> f.path, know |-> f.know, pc |-> f.pc, query |-> x,
              todo |-> f.todo, operator |-> f.operator, attempt |-> f.attempt]
    BY <1>3 DEF IsFrame
  <2> QED
    BY ONLY <1>1, <2>1 DEF IsFrame
<1>4. CASE f2 = [f EXCEPT !.todo = x]
  <2>1. f2 = [path |-> f.path, know |-> f.know, pc |-> f.pc, query |-> f.query,
              todo |-> x, operator |-> f.operator, attempt |-> f.attempt]
    BY <1>4 DEF IsFrame
  <2> QED
    BY ONLY <1>1, <2>1 DEF IsFrame
<1>5. CASE f2 = [f EXCEPT !.operator = x]
  <2>1. f2 = [path |-> f.path, know |-> f.know, pc |-> f.pc, query |-> f.query,
              todo |-> f.todo, operator |-> x, attempt |-> f.attempt]
    BY <1>5 DEF IsFrame
  <2> QED
    BY ONLY <1>1, <2>1 DEF IsFrame
<1>6. CASE f2 = [f EXCEPT !.attempt = x]
  <2>1. f2 = [path |-> f.path, know |-> f.know, pc |-> f.pc, query |-> f.query,
              todo |-> f.todo, operator |-> f.operator, attempt |-> x]
    BY <1>6 DEF IsFrame
  <2> QED
    BY ONLY <1>1, <2>1 DEF IsFrame
<1> QED
  BY <1>2, <1>3, <1>4, <1>5, <1>6

(* A frame that goes on is a frame.                                          *)
LEMMA FramePc ==
    ASSUME NEW f, IsFrame(f), NEW x \in {"enter", "assess", "search", "children"}
    PROVE  /\ IsFrame([f EXCEPT !.pc = x]) /\ [f EXCEPT !.pc = x].path = f.path
           /\ [f EXCEPT !.pc = x].pc = x
<1>1. [f EXCEPT !.pc = x] =
          [path |-> f.path, know |-> f.know, pc |-> x, query |-> f.query,
           todo |-> f.todo, operator |-> f.operator, attempt |-> f.attempt]
  BY DEF IsFrame
<1> QED
  BY ONLY <1>1, x \in {"enter", "assess", "search", "children"} DEF IsFrame

(* The innermost call goes on; the gap of its problem alone may change.      *)
Advances(s, a, g, f, a2, g2) ==
    /\ s # <<>> /\ IsFrame(f) /\ f.path = s[Len(s)].path
    /\ Changes(g, f.path, g2)
    /\ \/ /\ s[Len(s)].pc = "enter" /\ f.pc # "enter"
          /\ Fingerprint(f.path) \notin a /\ a2 = a \cup {Fingerprint(f.path)}
       \/ /\ s[Len(s)].pc # "enter" /\ f.pc = "enter"
          /\ a2 = a \ {Fingerprint(f.path)}
       \/ s[Len(s)].pc # "enter" /\ f.pc # "enter" /\ a2 = a

(* The calls keep their shape when the innermost advances.                   *)
LEMMA AdvanceShape ==
    ASSUME NEW s, NEW a, NEW g, Shape(s, a, g, Pending),
           NEW f, NEW a2, NEW g2, Advances(s, a, g, f, a2, g2),
           NEW s2, Goes(s, f, s2)
    PROVE  Shape(s2, a2, g2, Pending) /\ s2 # <<>> /\ s2[Len(s2)] = f
<1>1. IsStack(s) /\ Marked(s, a) /\ Booked(g, s) /\ Pursued(g, s)
  BY DEF Shape
<1>2. s # <<>> /\ IsFrame(f) /\ f.path = s[Len(s)].path /\ Changes(g, f.path, g2)
  BY DEF Advances
<1>3. /\ IsStack(s2) /\ s2 # <<>> /\ Len(s2) = Len(s)
      /\ \A i \in 1..Len(s) : s2[i].path = s[i].path
  BY <1>1, <1>2, GoesOn
<1>4. Marked(s2, a2)
  BY <1>1, <1>2, MarksGo DEF Advances
<1>5. s2[Len(s2)] = f
  BY <1>3 DEF Goes
<1>6. Len(s) \in 1..Len(s)
  BY <1>1, <1>2, Lengths DEF IsStack
<1>7. IsLedger(g2) /\ DOMAIN g2 = DOMAIN g \cup {f.path}
      /\ \A q \in DOMAIN g : q # f.path => g2[q] = g[q]
  BY <1>2 DEF Changes
<1>8. Booked(g2, s2)
  <2>1. \A i \in Entered(s2) : i \in 1..Len(s) /\ (i # Len(s) => i \in Entered(s))
    BY <1>3 DEF Entered, Goes
  <2>2. \A i \in Entered(s2) : s2[i].path \in DOMAIN g2
    BY <1>1, <1>3, <1>5, <1>7, <2>1 DEF Booked
  <2> QED
    BY <2>2 DEF Booked
<1>9. Pursued(g2, s2)
  <2>1. \A p \in DOMAIN g2 : p = f.path \/ (p \in DOMAIN g /\ g2[p] = g[p])
    BY <1>7
  <2>2. \A p \in DOMAIN g2 : Decided(g2[p]) \/ \E i \in 1..Len(s) : s2[i].path = p
    BY <1>1, <1>2, <1>3, <1>6, <2>1 DEF Pursued
  <2> QED
    BY <1>3, <2>2 DEF Pursued
<1> QED
  BY <1>3, <1>4, <1>5, <1>7, <1>8, <1>9 DEF Shape

(* It calls one for a child.                                                 *)
LEMMA CallShape ==
    ASSUME NEW s, NEW a, NEW g, Shape(s, a, g, Pending), s # <<>>,
           s[Len(s)].pc = "children", NEW f, IsFrame(f), f.pc = "enter",
           NEW s2, Calls(s, f, s2)
    PROVE  Shape(s2, a, g, Pending) /\ s2 # <<>> /\ s2[Len(s2)] = f
<1>1. IsStack(s) /\ Marked(s, a) /\ IsLedger(g) /\ Booked(g, s) /\ Pursued(g, s)
  BY DEF Shape
<1>2. /\ IsStack(s2) /\ s2 # <<>> /\ Len(s2) = Len(s) + 1
      /\ \A i \in 1..Len(s) : s2[i].path = s[i].path
  BY <1>1, CallsOn
<1>3. Marked(s2, a)
  BY <1>1, MarksCall
<1>4. s2[Len(s2)] = f /\ \A i \in 1..Len(s) : s2[i] = s[i]
  BY DEF Calls
<1>5. Len(s) \in Nat /\ \A i \in 1..(Len(s) + 1) : i \in 1..Len(s) \/ i = Len(s) + 1
  BY <1>1, Lengths DEF IsStack
<1>6. \A i \in 1..Len(s) : i \in 1..(Len(s) + 1)
  BY <1>5
<1>7. Booked(g, s2)
  <2>1. \A i \in Entered(s2) : i \in Entered(s)
    BY <1>2, <1>4, <1>5 DEF Entered
  <2> QED
    BY <1>1, <1>2, <2>1 DEF Booked, Entered
<1>8. Pursued(g, s2)
  BY <1>1, <1>2, <1>6 DEF Pursued
<1> QED
  BY <1>1, <1>2, <1>3, <1>4, <1>7, <1>8 DEF Shape

(* A call that returns has decided its gap.                                  *)
Left(s, a) == IF s[Len(s)].pc = "enter" THEN a ELSE a \ {Fingerprint(s[Len(s)].path)}

(* The innermost call returns with its own gap decided.                      *)
Leaves(s, g, g2) ==
    /\ s # <<>>
    /\ Changes(g, s[Len(s)].path, g2)
    /\ Decided(g2[s[Len(s)].path])

(* The frame of the caller, which now knows more.                            *)
IsCaller(s, h) ==
    IsFrame(h) /\ h.path = s[Len(s) - 1].path /\ h.pc = "children"

(* They keep their shape when it returns to its caller.                      *)
LEMMA ReturnShape ==
    ASSUME NEW s, NEW a, NEW g, Shape(s, a, g, Pending), Len(s) # 1,
           NEW g2, Leaves(s, g, g2), NEW h, IsCaller(s, h), NEW s2, Comes(s, h, s2)
    PROVE  Shape(s2, Left(s, a), g2, Pending) /\ s2 # <<>> /\ s2[Len(s2)] = h
<1> s # <<>> /\ Changes(g, s[Len(s)].path, g2) /\ Decided(g2[s[Len(s)].path])
  BY DEF Leaves
<1> IsFrame(h) /\ h.path = s[Len(s) - 1].path /\ h.pc = "children"
  BY DEF IsCaller
<1> PICK p : p = s[Len(s)].path
  OBVIOUS
<1>1. IsStack(s) /\ Marked(s, a) /\ Booked(g, s) /\ Pursued(g, s)
  BY DEF Shape
<1>2. /\ IsStack(s2) /\ s2 # <<>> /\ Len(s2) = Len(s) - 1
      /\ \A i \in 1..Len(s2) : s2[i].path = s[i].path
  BY <1>1, ComesBack
<1>3. Marked(s2, Left(s, a))
  BY <1>1, MarksReturn DEF Left
<1>4. s2[Len(s2)] = h
  BY DEF Comes
<1>5. /\ Len(s) \in Nat /\ Len(s) > 1 /\ Len(s2) \in 1..Len(s)
      /\ \A i : i \in 1..Len(s) <=> i \in 1..Len(s2) \/ i = Len(s)
  BY <1>1, <1>2, Lengths DEF IsStack
<1>6. IsLedger(g2) /\ DOMAIN g2 = DOMAIN g \cup {p}
      /\ \A q \in DOMAIN g : q # p => g2[q] = g[q]
  BY DEF Changes
<1>7. Booked(g2, s2)
  <2>1. \A i \in 1..Len(s2) : i # Len(s2) => s2[i] = s[i]
    BY DEF Comes
  <2>2. s[Len(s2)].pc = "children"
    BY <1>1, <1>2, <1>5 DEF IsStack
  <2>3. \A i \in Entered(s2) : i \in Entered(s)
    BY <1>5, <2>1, <2>2 DEF Entered
  <2> QED
    BY <1>1, <1>2, <1>6, <2>3 DEF Booked, Entered
<1>8. Pursued(g2, s2)
  <2>1. ASSUME NEW q \in DOMAIN g2, ~Decided(g2[q])
        PROVE  \E i \in 1..Len(s2) : s2[i].path = q
    <3>1. q # p /\ q \in DOMAIN g /\ g2[q] = g[q]
      BY <1>6, <2>1
    <3>2. PICK i \in 1..Len(s) : s[i].path = q
      BY <1>1, <2>1, <3>1 DEF Pursued
    <3>3. i \in 1..Len(s2)
      BY <1>5, <3>1, <3>2
    <3> QED
      BY <1>2, <3>2, <3>3
  <2> QED
    BY <2>1 DEF Pursued
<1> QED
  BY <1>2, <1>3, <1>4, <1>6, <1>7, <1>8 DEF Shape

(* When all calls are gone nothing is marked.                                *)
LEMMA EmptyShape ==
    ASSUME NEW g, IsLedger(g), NEW o,
           o = Pending \/ o.kind = "resolution" => \A p \in DOMAIN g : Decided(g[p])
    PROVE  Shape(<<>>, {}, g, o)
<1>1. <<>> \in Seq({}) /\ Len(<<>>) = 0 /\ 1..0 = {}
  OBVIOUS
<1>2. IsSeq(<<>>)
  BY <1>1, IsSeqOf
<1>3. Entered(<<>>) = {}
  BY <1>1 DEF Entered
<1>4. IsStack(<<>>) /\ Marked(<<>>, {}) /\ Booked(g, <<>>)
  BY <1>1, <1>2, <1>3 DEF IsStack, Marked, Booked
<1>5. o = Pending \/ o.kind = "resolution" => Pursued(g, <<>>)
  BY DEF Pursued
<1> QED
  BY <1>4, <1>5 DEF Shape

(* When the root's call returns, none is left and every gap is decided.      *)
LEMMA EndShape ==
    ASSUME NEW s, NEW a, NEW g, Shape(s, a, g, Pending), s # <<>>, Len(s) = 1,
           NEW g2, Changes(g, s[Len(s)].path, g2), Decided(g2[s[Len(s)].path]), NEW o
    PROVE  Shape(<<>>, Left(s, a), g2, o) /\ Left(s, a) = {}
<1>1. IsStack(s) /\ Marked(s, a) /\ Pursued(g, s)
  BY DEF Shape
<1>2. \A i \in 1..Len(s) : i = 1
  OBVIOUS
<1>3. Left(s, a) = {}
  <2>1. CASE s[1].pc = "enter"
    <3>1. Entered(s) = {}
      BY <1>2, <2>1 DEF Entered
    <3> QED
      BY <1>1, <2>1, <3>1 DEF Marked, Left
  <2>2. CASE s[1].pc # "enter"
    <3>1. Entered(s) = {1}
      BY <1>2, <2>2 DEF Entered
    <3> QED
      BY <1>1, <2>2, <3>1 DEF Marked, Left
  <2> QED
    BY <2>1, <2>2
<1>4. \A p \in DOMAIN g2 : Decided(g2[p])
  BY <1>1, <1>2 DEF Changes, Pursued
<1>5. IsLedger(g2)
  BY DEF Changes
<1> QED
  BY <1>3, <1>4, <1>5, EmptyShape

-----------------------------------------------------------------------------
(* What a step of the innermost call makes of the invariant.                 *)

(* An assessment is paid for once.                                           *)
LEMMA ChargeKeeps ==
    ASSUME Accounts, budget.assessments > 0, Charge
    PROVE  /\ Accounts'
           /\ budget'.searches = budget.searches /\ budget'.sources = budget.sources
<1>1. PICK b1 \in Nat, b2 \in Nat, b3 \in Nat :
          budget = [searches |-> b1, sources |-> b2, assessments |-> b3]
  BY DEF Accounts, Amounts
<1>2. PICK u1 \in Nat, u2 \in Nat, u3 \in Nat :
          used = [searches |-> u1, sources |-> u2, assessments |-> u3]
  BY DEF Accounts, Amounts
<1>3. /\ b3 > 0 /\ u1 + b1 = Budget["searches"] /\ u2 + b2 = Budget["sources"]
      /\ u3 + b3 = Budget["assessments"]
  BY <1>1, <1>2 DEF Accounts
<1>4. budget' = [searches |-> b1, sources |-> b2, assessments |-> b3 - 1]
  BY <1>1 DEF Charge
<1>5. used' = [searches |-> u1, sources |-> u2, assessments |-> u3 + 1]
  BY <1>2 DEF Charge
<1>6. b3 - 1 \in Nat /\ u3 + 1 \in Nat /\ (u3 + 1) + (b3 - 1) = u3 + b3
  BY <1>3
<1> QED
  BY <1>1, <1>3, <1>4, <1>5, <1>6 DEF Accounts, Amounts

(* So are a search and the sources it consumed.                              *)
LEMMA SpendKeeps ==
    ASSUME Accounts, budget.searches > 0, NEW n \in Nat, n <= budget.sources,
           budget' = [budget EXCEPT !.searches = @ - 1, !.sources = @ - n],
           used' = [used EXCEPT !.searches = @ + 1, !.sources = @ + n]
    PROVE  Accounts'
<1>1. PICK b1 \in Nat, b2 \in Nat, b3 \in Nat :
          budget = [searches |-> b1, sources |-> b2, assessments |-> b3]
  BY DEF Accounts, Amounts
<1>2. PICK u1 \in Nat, u2 \in Nat, u3 \in Nat :
          used = [searches |-> u1, sources |-> u2, assessments |-> u3]
  BY DEF Accounts, Amounts
<1>3. /\ b1 > 0 /\ n <= b2 /\ u1 + b1 = Budget["searches"] /\ u2 + b2 = Budget["sources"]
      /\ u3 + b3 = Budget["assessments"]
  BY <1>1, <1>2 DEF Accounts
<1>4. budget' = [searches |-> b1 - 1, sources |-> b2 - n, assessments |-> b3]
  BY <1>1
<1>5. used' = [searches |-> u1 + 1, sources |-> u2 + n, assessments |-> u3]
  BY <1>2
<1>6. /\ b1 - 1 \in Nat /\ u1 + 1 \in Nat /\ (u1 + 1) + (b1 - 1) = u1 + b1
      /\ b2 - n \in Nat /\ u2 + n \in Nat /\ (u2 + n) + (b2 - n) = u2 + b2
  BY <1>3
<1> QED
  BY <1>1, <1>2, <1>3, <1>4, <1>5, <1>6 DEF Accounts, Amounts

(* The answer of the root, from what its call returned.                      *)
LEMMA AnswerIs ==
    ASSUME NEW know, NEW stop, NEW ledger, NEW o, o = Answer(know, stop, ledger)
    PROVE  /\ o.kind = "resolution" /\ o # Pending /\ o.knowledge = know
           /\ (o.status = "sufficient") = (o.stop = "sufficient")
           /\ o.status = "sufficient" => stop = "sufficient" /\ ViableCount(know) >= 2
           /\ o.stop \in {stop, "no_new_knowledge"}
           /\ o.status \in {"sufficient", "best_effort", "insufficient"}
<1> PICK open : open = \E path \in DOMAIN ledger : ledger[path].status = "open"
  OBVIOUS
<1> PICK status : status = IF ~open /\ stop = "sufficient" THEN "sufficient"
                           ELSE IF Useful(know) THEN "best_effort" ELSE "insufficient"
  OBVIOUS
<1> PICK why : why = IF status # "sufficient" /\ stop = "sufficient"
                     THEN "no_new_knowledge" ELSE stop
  OBVIOUS
<1> DEFINE r == [kind |-> "resolution", knowledge |-> know, status |-> status, stop |-> why]
<1>1. o = Floored(r)
  BY DEF Answer
<1>2. /\ status \in {"sufficient", "best_effort", "insufficient"}
      /\ (status = "sufficient") = (why = "sufficient")
      /\ status = "sufficient" => stop = "sufficient"
      /\ why \in {stop, "no_new_knowledge"}
  OBVIOUS
<1>3. o = IF status = "insufficient" \/ ViableCount(know) >= 2 THEN r
          ELSE [r EXCEPT !.status = "insufficient",
                         !.stop = IF status = "sufficient" THEN "no_new_knowledge" ELSE @]
  BY <1>1 DEF Floored
<1>4. CASE status = "insufficient" \/ ViableCount(know) >= 2
  <2>1. o = r
    BY <1>3, <1>4
  <2> QED
    BY <1>2, <1>4, <2>1 DEF Pending
<1>5. CASE ~(status = "insufficient" \/ ViableCount(know) >= 2)
  <2> PICK end : end = IF status = "sufficient" THEN "no_new_knowledge" ELSE why
    OBVIOUS
  <2>1. o = [kind |-> "resolution", knowledge |-> know, status |-> "insufficient",
             stop |-> end]
    BY <1>3, <1>5
  <2>2. end # "sufficient" /\ end \in {stop, "no_new_knowledge"}
    BY <1>2
  <2> QED
    BY <2>1, <2>2 DEF Pending
<1> QED
  BY <1>4, <1>5

(* A reason to stop, for the problem whose call returns.                     *)
Honest(know, stop, gap, b) ==
    /\ stop = "sufficient" => gap.status = "resolved" /\ know.findings # Nothing
    /\ stop = "assessment_budget_exhausted" => b.assessments = 0
    /\ stop = "search_budget_exhausted" => b.searches = 0
    /\ stop = "source_budget_exhausted" => b.sources = 0
    /\ stop \notin {"duplicate_problem", "depth_limit_reached"}

(* What holds of the innermost call while the resolver runs.                 *)
LEMMA AtTop ==
    ASSUME Inv, Running
    PROVE  /\ Shape(stack, active, gaps, Pending) /\ stack # <<>> /\ outcome = Pending
           /\ IsStack(stack) /\ IsSeq(stack) /\ IsFrame(Top) /\ IsLedger(gaps)
           /\ Len(stack) \in Nat /\ Len(stack) \in 1..Len(stack)
           /\ Top.pc # "enter" => Top.path \in DOMAIN gaps
           /\ Len(stack) = 1 => Top.path = <<Root>>
           /\ acq # Idle => Top.pc = "search"
<1>1. Shape(stack, active, gaps, Pending) /\ stack # <<>> /\ outcome = Pending
  BY DEF Inv, Running
<1>2. IsStack(stack) /\ IsSeq(stack) /\ IsLedger(gaps) /\ Booked(gaps, stack)
  BY <1>1 DEF Shape, IsStack
<1>3. Len(stack) \in Nat /\ Len(stack) \in 1..Len(stack)
  BY <1>1, <1>2, Lengths
<1>4. IsFrame(Top)
  BY <1>2, <1>3 DEF IsStack, Top
<1>5. Top.pc # "enter" => Top.path \in DOMAIN gaps
  BY <1>2, <1>3 DEF Booked, Entered, Top
<1>6. Len(stack) = 1 => Top.path = <<Root>>
  BY <1>1, <1>2 DEF IsStack, Top
<1>7. acq # Idle => Top.pc = "search"
  BY DEF Inv, Waits
<1> QED
  BY <1>1, <1>2, <1>3, <1>4, <1>5, <1>6, <1>7

(* The invariant holds after any step in which the innermost call advances,  *)
(* if what it waits for next is paid for;                                    *)
LEMMA GoKeeps ==
    ASSUME Inv, Running, NEW f, stack' = WithTop(f), outcome' = outcome,
           turn' = turn,
           Advances(stack, active, gaps, f, active', gaps'), Accounts',
           f.pc = "assess" => budget'.assessments > 0,
           acq' # Idle => /\ f.pc = "search" /\ budget'.searches > 0
                          /\ IsAcquisition(acq', budget'.sources)
    PROVE  Inv'
<1>1. /\ Shape(stack, active, gaps, Pending) /\ stack # <<>> /\ outcome = Pending
      /\ IsSeq(stack)
  BY AtTop
<1>2. Goes(stack, f, stack')
  BY <1>1, TopGoes DEF WithTop
<1>3. /\ Shape(stack', active', gaps', Pending) /\ stack' # <<>> /\ stack'[Len(stack')] = f
  BY <1>1, <1>2, AdvanceShape
<1>4. Shape(stack, active, gaps, outcome)'
  BY <1>1, <1>3
<1>5. Waits'
  BY <1>1, <1>3 DEF Waits, Running, Top
<1>6. SufficientIsEarned' /\ StopIsTrue'
  BY <1>1 DEF SufficientIsEarned, StopIsTrue, Resolved
<1>7. Turning'
  BY <1>1, <1>3 DEF Inv, Turning, Resolved
<1> QED
  BY <1>4, <1>5, <1>6, <1>7 DEF Inv

(* after any step in which it returns, to its caller or for good, if its gap *)
(* is decided and what it says of the root is true;                          *)
LEMMA ReturnKeeps ==
    ASSUME Inv, Running, NEW know, NEW stop, NEW ledger, NEW learned, NEW busy,
           Return(know, stop, ledger, learned, busy),
           busy = Left(stack, active), acq' = Idle, Accounts',
           turn' = turn,
           Changes(gaps, Top.path, ledger), Decided(ledger[Top.path]),
           Len(stack) = 1 => Honest(know, stop, ledger[Top.path], budget')
    PROVE  Inv'
<1>1. /\ Shape(stack, active, gaps, Pending) /\ stack # <<>> /\ outcome = Pending
      /\ IsSeq(stack) /\ IsStack(stack) /\ Len(stack) \in Nat
  BY AtTop
<1>2. gaps' = ledger /\ active' = busy
  BY DEF Return
<1>3. CASE Len(stack) = 1
  <2>1. stack' = <<>> /\ outcome' = Answer(know, stop, ledger)
    BY <1>3 DEF Return
  <2>2. Top.path = <<Root>>
    BY <1>3, AtTop
  <2>3. Shape(<<>>, active', gaps', outcome')
    BY <1>1, <1>2, <1>3, EndShape DEF Top
  <2>4. Waits'
    BY <2>1 DEF Waits, Running
  <2> PICK o : o = outcome'
    OBVIOUS
  <2>5. /\ o.kind = "resolution" /\ o # Pending /\ o.knowledge = know
        /\ (o.status = "sufficient") = (o.stop = "sufficient")
        /\ o.status = "sufficient" => stop = "sufficient" /\ ViableCount(know) >= 2
        /\ o.stop \in {stop, "no_new_knowledge"}
        /\ o.status \in {"sufficient", "best_effort", "insufficient"}
    BY <2>1, AnswerIs
  <2>6. Honest(know, stop, ledger[<<Root>>], budget')
    BY <1>3, <2>2
  <2>7. SufficientIsEarned'
    BY <1>2, <2>5, <2>6 DEF SufficientIsEarned, Honest
  <2>8. StopIsTrue'
    BY <2>5, <2>6 DEF StopIsTrue, Honest
  <2>9. turn.pc = "resolving" /\ gathered' = learned
    BY <1>1, <1>3 DEF Inv, Turning, Return
  <2>10. Turning'
    BY <2>5, <2>9 DEF Turning
  <2> QED
    BY <2>1, <2>3, <2>4, <2>7, <2>8, <2>10 DEF Inv
<1>4. CASE Len(stack) # 1
  <2> PICK parent : parent = stack[Len(stack) - 1]
    OBVIOUS
  <2>1. PICK know2, todo :
          /\ stack' = Append(SubSeq(stack, 1, Len(stack) - 2),
                             [parent EXCEPT !.know = know2, !.todo = todo])
          /\ outcome' = outcome
          /\ \E b : gathered' = JoinBounded(<<Root>>, learned, b)
    BY <1>4 DEF Return
  <2> PICK h : h = [parent EXCEPT !.know = know2, !.todo = todo]
    OBVIOUS
  <2>2. IsFrame(parent) /\ parent.pc = "children"
    <3>1. Len(stack) > 0
      BY <1>1, Lengths
    <3>2. Len(stack) - 1 \in 1..Len(stack) /\ Len(stack) - 1 # Len(stack)
      <4> PICK n : n = Len(stack)
        OBVIOUS
      <4>1. n \in Nat /\ n > 0 /\ n # 1
        BY <1>1, <1>4, <3>1
      <4>2. n - 1 \in 1..n /\ n - 1 # n
        BY <4>1
      <4> QED
        BY <4>2
    <3> QED
      BY <1>1, <3>2 DEF IsStack
  <2>3. IsFrame(h) /\ h.path = parent.path /\ h.pc = "children"
    <3>1. PICK h1 : h1 = [parent EXCEPT !.know = know2]
      OBVIOUS
    <3>2. h = [h1 EXCEPT !.todo = todo]
      BY <3>1
    <3>3. IsFrame(h1) /\ h1.path = parent.path /\ h1.pc = parent.pc
      BY ONLY <2>2, <3>1, FrameSet
    <3>4. IsFrame(h) /\ h.path = h1.path /\ h.pc = h1.pc
      BY ONLY <3>2, <3>3, FrameSet
    <3> QED
      BY <2>2, <3>3, <3>4
  <2>4. Comes(stack, h, stack')
    BY <1>1, <1>4, <2>1, TopComes
  <2>5. /\ Shape(stack', active', gaps', Pending) /\ stack' # <<>>
        /\ stack'[Len(stack')] = h
    <3>1. h.path = stack[Len(stack) - 1].path
      BY <2>3
    <3>2. Leaves(stack, gaps, ledger) /\ IsCaller(stack, h)
      BY <1>1, <2>3, <3>1 DEF Top, Leaves, IsCaller
    <3>3. Shape(stack', Left(stack, active), ledger, Pending) /\ stack' # <<>>
          /\ stack'[Len(stack')] = h
      BY <1>1, <1>4, <2>4, <3>2, ReturnShape
    <3> QED
      BY <1>2, <3>3
  <2>6. Shape(stack, active, gaps, outcome)'
    BY <1>1, <2>1, <2>5
  <2>7. Waits'
    BY <1>1, <2>1, <2>3, <2>5 DEF Waits, Running, Top
  <2>8. SufficientIsEarned' /\ StopIsTrue'
    BY <1>1, <2>1 DEF SufficientIsEarned, StopIsTrue, Resolved
  <2>9. turn.pc = "resolving"
    BY <1>1 DEF Inv, Turning
  <2>10. Turning'
    BY <1>1, <2>1, <2>5, <2>9 DEF Turning, Resolved
  <2> QED
    BY <2>6, <2>7, <2>8, <2>10 DEF Inv
<1> QED
  BY <1>3, <1>4

(* and after one that gives up the research.                                 *)
LEMMA ThrowsKeeps ==
    ASSUME Inv, Running, NEW interrupted, Throws(interrupted), acq' = Idle, Accounts', turn' = turn
    PROVE  Inv'
<1>1. stack' = <<>> /\ active' = {} /\ gaps' = gaps
  BY DEF Throws
<1>2. outcome' # Pending /\ outcome'.kind \in {"thrown", "checkpoint"}
  BY DEF Throws, Pending
<1>3. IsLedger(gaps)
  BY AtTop
<1>4. Shape(stack, active, gaps, outcome)'
  BY <1>1, <1>2, <1>3, EmptyShape
<1>5. Waits'
  BY <1>1 DEF Waits, Running
<1>6. SufficientIsEarned' /\ StopIsTrue'
  BY <1>2 DEF SufficientIsEarned, StopIsTrue, Resolved
<1>7. Turning'
  BY <1>2, AtTop DEF Inv, Turning, Resolved, Throws
<1> QED
  BY <1>4, <1>5, <1>6, <1>7 DEF Inv

(* A step that leaves the resolver alone.                                    *)
LEMMA QuietKeeps ==
    ASSUME Inv, UNCHANGED <<stack, active, gaps, outcome, used, budget, acq, gathered>>,
           turn'.pc = "resolving" <=> turn.pc = "resolving"
    PROVE  Inv'
<1>1. Shape(stack, active, gaps, outcome)'
  BY DEF Inv
<1>2. Accounts'
  BY DEF Inv, Accounts
<1>3. Waits'
  BY DEF Inv, Waits, Running, Top
<1>4. SufficientIsEarned' /\ StopIsTrue'
  BY DEF Inv, SufficientIsEarned, StopIsTrue, Resolved
<1>5. Turning'
  BY DEF Inv, Turning, Resolved
<1> QED
  BY <1>1, <1>2, <1>3, <1>4, <1>5 DEF Inv


(* A call that returns for want of a budget or of a service.                 *)
LEMMA BlockedKeeps ==
    ASSUME Inv, Running, Top.pc # "enter", NEW know, NEW stop, Blocked(know, stop),
           acq' = Idle, Accounts', turn' = turn,
           Len(stack) = 1 => \A gap : Honest(know, stop, gap, budget')
    PROVE  Inv'
<1>1. Top.path \in DOMAIN gaps /\ IsLedger(gaps)
  BY AtTop
<1> PICK ledger : ledger = Mark(Top.path, "blocked")
  OBVIOUS
<1>2. Changes(gaps, Top.path, ledger) /\ ledger[Top.path].status = "blocked"
  BY <1>1, MarkChanges DEF Mark, Stamped
<1>3. Decided(ledger[Top.path])
  BY <1>2 DEF Decided
<1> PICK learned, busy : learned = gathered /\ busy = Freed(Top.path)
  OBVIOUS
<1>4. busy = Left(stack, active)
  BY DEF Freed, Left, Top
<1>5. Return(know, stop, ledger, learned, busy)
  BY DEF Blocked
<1> QED
  BY <1>2, <1>3, <1>4, <1>5, ReturnKeeps

(* A call that enters is turned away for a cycle, its depth or the budget,   *)
(* or is marked and goes on (research-resolver.ts:199-239).                  *)
LEMMA EnterKeeps ==
    ASSUME Inv, Enter, turn' = turn
    PROVE  Inv'
<1> PICK f : f = Top
  OBVIOUS
<1> PICK mark : mark = Fingerprint(f.path)
  OBVIOUS
<1> PICK ledger : ledger = IF f.path \in DOMAIN gaps THEN gaps ELSE With(gaps, f.path, OpenGap)
  OBVIOUS
<1> PICK block : block = [ledger EXCEPT ![f.path].status = "blocked"]
  OBVIOUS
<1>1. Running /\ f.pc = "enter" /\ UNCHANGED <<used, budget, acq>>
  BY DEF Enter
<1>2. /\ IsLedger(gaps) /\ IsFrame(f) /\ stack # <<>> /\ outcome = Pending
      /\ Shape(stack, active, gaps, Pending) /\ IsStack(stack)
  BY <1>1, AtTop
<1>3. acq = Idle
  BY <1>1, AtTop
<1>4. Accounts /\ Accounts'
  BY <1>1 DEF Inv, Accounts
<1>5. Changes(gaps, f.path, ledger)
  BY <1>2, NothingChanges, OpenChanges
<1>6. IsLedger(ledger) /\ f.path \in DOMAIN ledger
  BY <1>5 DEF Changes
<1>7. Changes(gaps, f.path, block) /\ Decided(block[f.path])
  <2>1. Changes(ledger, f.path, block) /\ block[f.path].status = "blocked"
    <3>1. Changes(ledger, f.path, Stamped(ledger, f.path, "blocked"))
          /\ Stamped(ledger, f.path, "blocked")[f.path].status = "blocked"
      BY <1>6, MarkChanges
    <3>2. block = Stamped(ledger, f.path, "blocked")
      BY DEF Stamped
    <3> QED
      BY <3>1, <3>2
  <2> QED
    BY <1>5, <2>1, ChangesTwice DEF Decided
<1>8. CASE Throws(FALSE)
  BY <1>1, <1>3, <1>4, <1>8, ThrowsKeeps
<1>9. active = Left(stack, active)
  BY <1>1 DEF Left, Top
<1>10. ASSUME NEW stop, Return(f.know, stop, block, gathered, active),
              Len(stack) = 1 => Honest(f.know, stop, block[f.path], budget)
       PROVE  Inv'
  <2> PICK know, learned, busy : know = f.know /\ learned = gathered /\ busy = active
    OBVIOUS
  <2>1. Return(know, stop, block, learned, busy)
    BY <1>10
  <2>2. Len(stack) = 1 => Honest(know, stop, block[Top.path], budget')
    BY <1>1, <1>10
  <2>3. acq' = Idle
    BY <1>1, <1>3
  <2>4. busy = Left(stack, active)
    BY <1>9
  <2>5. Changes(gaps, Top.path, block) /\ Decided(block[Top.path])
    BY <1>7
  <2> QED
    BY <1>1, <1>4, <2>1, <2>2, <2>3, <2>4, <2>5, ReturnKeeps
<1>11. CASE mark \in active /\ Return(f.know, "duplicate_problem", block, gathered, active)
  <2>1. Len(stack) # 1
    <3>1. SUFFICES ASSUME Len(stack) = 1
                   PROVE  FALSE
      OBVIOUS
    <3>2. Entered(stack) = {}
      BY <1>1, <3>1 DEF Entered, Top
    <3>3. active = {}
      BY <1>2, <3>2 DEF Shape, Marked
    <3> QED
      BY <1>11, <3>3
  <2> QED
    BY <1>10, <1>11, <2>1
<1>12. CASE /\ UsedUp("assessments")
            /\ Return(f.know, "assessment_budget_exhausted", block, gathered, active)
  <2>1. budget.assessments = 0
    <3>1. budget.assessments \in Nat /\ budget.assessments <= 0
      BY <1>4, <1>12 DEF Accounts, Amounts, UsedUp
    <3> QED
      BY <3>1
  <2>2. Honest(f.know, "assessment_budget_exhausted", block[f.path], budget)
    BY <2>1 DEF Honest
  <2> QED
    BY <1>10, <1>12, <2>2
<1>13. CASE /\ mark \notin active /\ ~UsedUp("assessments") /\ gaps' = ledger
            /\ active' = active \cup {mark}
            /\ stack' = WithTop(IF RootSearch(f)
                                THEN [f EXCEPT !.pc = "search", !.query = mark]
                                ELSE [f EXCEPT !.pc = "assess", !.attempt = 1])
            /\ UNCHANGED <<gathered, outcome>>
  <2>1. PICK pc, g :
           /\ pc \in {"search", "assess"}
           /\ g = IF RootSearch(f) THEN [f EXCEPT !.pc = "search", !.query = mark]
                  ELSE [f EXCEPT !.pc = "assess", !.attempt = 1]
           /\ pc = IF RootSearch(f) THEN "search" ELSE "assess"
    OBVIOUS
  <2>2. PICK f1 : f1 = [f EXCEPT !.pc = pc]
    OBVIOUS
  <2>3. IsFrame(f1) /\ f1.path = f.path /\ f1.pc = pc
    BY <1>2, <2>1, <2>2, FramePc, ZenonT(40)
  <2>4. g = [f1 EXCEPT !.query = mark] \/ g = [f1 EXCEPT !.attempt = 1]
    BY <2>1, <2>2
  <2>5. IsFrame(g) /\ g.path = f.path /\ g.pc = pc
    <3>1. IsFrame(g) /\ g.path = f1.path /\ g.pc = f1.pc
      BY ONLY <2>3, <2>4, FrameSet
    <3> QED
      BY <2>3, <3>1
  <2>6. Advances(stack, active, gaps, g, active', gaps')
    BY <1>1, <1>2, <1>5, <1>13, <2>1, <2>5 DEF Advances, Top
  <2>7. stack' = WithTop(g) /\ outcome' = outcome
    BY <1>13, <2>1
  <2>8. budget'.assessments > 0
    <3>1. budget.assessments \in Nat /\ ~(budget.assessments <= 0)
      BY <1>4, <1>13 DEF Accounts, Amounts, UsedUp
    <3> QED
      BY <1>1, <3>1
  <2>9. acq' = Idle
    BY <1>1, <1>3
  <2> QED
    BY <1>1, <1>4, <1>13, <2>6, <2>7, <2>8, <2>9, GoKeeps
<1> QED
  BY <1>8, <1>11, <1>12, <1>13 DEF Enter

(* A call that is being assessed has an assessment left to pay.              *)
LEMMA AssessingIs ==
    ASSUME Inv, Assessing
    PROVE  /\ Running /\ Top.pc = "assess" /\ acq = Idle /\ Accounts
           /\ budget.assessments > 0 /\ Top.path \in DOMAIN gaps
           /\ IsLedger(gaps) /\ IsFrame(Top) /\ stack # <<>>
<1>1. Running /\ Top.pc = "assess"
  BY DEF Assessing
<1>2. Accounts /\ budget.assessments > 0
  BY <1>1 DEF Inv, Waits
<1> QED
  BY <1>1, <1>2, AtTop

(* It is resolved, or learned nothing new (research-resolver.ts:240-250).    *)
LEMMA ResolvedKeeps ==
    ASSUME Inv, AssessesResolved, turn' = turn
    PROVE  Inv'
<1>1. /\ Running /\ Top.pc = "assess" /\ acq = Idle /\ Accounts
      /\ budget.assessments > 0 /\ Top.path \in DOMAIN gaps /\ IsLedger(gaps)
  BY AssessingIs DEF AssessesResolved
<1>2. acq' = Idle
  BY <1>1 DEF AssessesResolved
<1>3. PICK claim \in Claims : \E refs :
      \E merged \in {Merged(Top, Asserted(claim, refs))} :
      \E learned \in {JoinBounded(<<Root>>, gathered, merged)} :
         IF Conflict(Top.know.findings, Asserted(claim, refs))
                \/ Conflict(gathered.findings, Asserted(claim, refs))
         THEN Throws(FALSE) /\ UNCHANGED <<used, budget>>
         ELSE /\ Charge
              /\ IF merged = Top.know
                 THEN Return(merged, "no_new_knowledge", Mark(Top.path, "blocked"),
                             learned, Freed(Top.path))
                 ELSE Return(merged, "sufficient",
                             [gaps EXCEPT ![Top.path] =
                                 [status |-> "resolved",
                                  support |-> References(merged.findings)]],
                             learned, Freed(Top.path))
  BY DEF AssessesResolved
<1>4. PICK refs, merged, learned :
         /\ merged = Merged(Top, Asserted(claim, refs))
         /\ learned = JoinBounded(<<Root>>, gathered, merged)
         /\ \/ Throws(FALSE) /\ UNCHANGED <<used, budget>>
            \/ /\ Charge
               /\ Return(merged, "no_new_knowledge", Mark(Top.path, "blocked"),
                         learned, Freed(Top.path))
            \/ /\ Charge
               /\ Return(merged, "sufficient",
                         [gaps EXCEPT ![Top.path] =
                             [status |-> "resolved",
                              support |-> References(merged.findings)]],
                         learned, Freed(Top.path))
  BY <1>3
<1>5. merged.findings # Nothing
  <2>1. merged.findings = JoinFindings(Top.know.findings, Asserted(claim, refs))
    BY <1>4 DEF Merged, JoinBounded, Unit
  <2>2. DOMAIN Asserted(claim, refs) # {}
    BY ResolverAssumption DEF Asserted
  <2>3. DOMAIN merged.findings # {}
    BY <2>1, <2>2 DEF JoinFindings
  <2>4. DOMAIN Nothing = {}
    BY DEF Nothing
  <2> QED
    BY <2>3, <2>4
<1> PICK busy : busy = Freed(Top.path)
  OBVIOUS
<1>6. busy = Left(stack, active)
  BY <1>1 DEF Freed, Left, Top
<1>7. CASE Throws(FALSE) /\ UNCHANGED <<used, budget>>
  <2>1. Accounts'
    BY <1>1, <1>7 DEF Accounts
  <2> QED
    BY <1>1, <1>2, <1>7, <2>1, ThrowsKeeps
<1>8. CASE /\ Charge
           /\ Return(merged, "no_new_knowledge", Mark(Top.path, "blocked"),
                     learned, Freed(Top.path))
  <2>1. Accounts'
    BY <1>1, <1>8, ChargeKeeps
  <2> PICK ledger : ledger = Mark(Top.path, "blocked")
    OBVIOUS
  <2>2. Changes(gaps, Top.path, ledger) /\ ledger[Top.path].status = "blocked"
    BY <1>1, MarkChanges DEF Mark, Stamped
  <2>3. Decided(ledger[Top.path])
    BY <2>2 DEF Decided
  <2>4. Honest(merged, "no_new_knowledge", ledger[Top.path], budget')
    BY DEF Honest
  <2>5. Return(merged, "no_new_knowledge", ledger, learned, busy)
    BY <1>8
  <2> QED
    BY <1>1, <1>2, <1>6, <2>1, <2>2, <2>3, <2>4, <2>5, ReturnKeeps
<1>9. CASE /\ Charge
           /\ Return(merged, "sufficient",
                     [gaps EXCEPT ![Top.path] =
                         [status |-> "resolved",
                          support |-> References(merged.findings)]],
                     learned, Freed(Top.path))
  <2>1. Accounts'
    BY <1>1, <1>9, ChargeKeeps
  <2> PICK support : support = References(merged.findings)
    OBVIOUS
  <2> PICK ledger : ledger = [gaps EXCEPT ![Top.path] =
                                 [status |-> "resolved", support |-> support]]
    OBVIOUS
  <2>2. Changes(gaps, Top.path, ledger) /\ ledger[Top.path].status = "resolved"
    BY <1>1, ResolveChanges
  <2>3. Decided(ledger[Top.path])
    BY <2>2 DEF Decided
  <2>4. Honest(merged, "sufficient", ledger[Top.path], budget')
    BY <1>5, <2>2 DEF Honest
  <2>5. Return(merged, "sufficient", ledger, learned, busy)
    BY <1>9
  <2> QED
    BY <1>1, <1>2, <1>6, <2>1, <2>2, <2>3, <2>4, <2>5, ReturnKeeps
<1> QED
  BY <1>4, <1>7, <1>8, <1>9

(* It is to search (research-resolver.ts:252-264).                           *)
LEMMA AssessSearchKeeps ==
    ASSUME Inv, AssessesSearch, turn' = turn
    PROVE  Inv'
<1>1. /\ Running /\ Top.pc = "assess" /\ acq = Idle /\ Accounts
      /\ budget.assessments > 0 /\ Top.path \in DOMAIN gaps /\ IsLedger(gaps)
      /\ IsFrame(Top) /\ stack # <<>>
  BY AssessingIs DEF AssessesSearch
<1>2. PICK q \in Queries : stack' = WithTop([Top EXCEPT !.pc = "search", !.query = q])
  BY DEF AssessesSearch
<1>3. PICK f : f = [Top EXCEPT !.pc = "search", !.query = q]
  OBVIOUS
<1>4. IsFrame(f) /\ f.path = Top.path /\ f.pc = "search"
  <2>1. PICK f1 : f1 = [Top EXCEPT !.pc = "search"]
    OBVIOUS
  <2>2. IsFrame(f1) /\ f1.path = Top.path /\ f1.pc = "search"
    BY <1>1, <2>1, FramePc
  <2>3. f = [f1 EXCEPT !.query = q]
    BY <1>3, <2>1
  <2>4. IsFrame(f) /\ f.path = f1.path /\ f.pc = f1.pc
    BY ONLY <2>2, <2>3, FrameSet
  <2> QED
    BY <2>2, <2>4
<1>5. /\ Charge /\ gaps' = gaps /\ active' = active /\ outcome' = outcome /\ acq' = acq
  BY DEF AssessesSearch
<1>6. Accounts'
  BY <1>1, <1>5, ChargeKeeps
<1>7. Advances(stack, active, gaps, f, active', gaps')
  BY <1>1, <1>4, <1>5, NothingChanges DEF Advances, Top
<1> QED
  BY <1>1, <1>2, <1>3, <1>4, <1>5, <1>6, <1>7, GoKeeps

(* It is to resolve children first (research-resolver.ts:307-311).           *)
LEMMA DecomposeKeeps ==
    ASSUME Inv, AssessesDecompose, turn' = turn
    PROVE  Inv'
<1>1. /\ Running /\ Top.pc = "assess" /\ acq = Idle /\ Accounts
      /\ budget.assessments > 0 /\ Top.path \in DOMAIN gaps /\ IsLedger(gaps)
      /\ IsFrame(Top) /\ stack # <<>>
  BY AssessingIs DEF AssessesDecompose
<1>2. PICK children, operator :
          stack' = WithTop([Top EXCEPT !.pc = "children", !.operator = operator,
                                       !.todo = children])
  BY DEF AssessesDecompose
<1>3. PICK f : f = [Top EXCEPT !.pc = "children", !.operator = operator,
                               !.todo = children]
  OBVIOUS
<1>4. IsFrame(f) /\ f.path = Top.path /\ f.pc = "children"
  <2>1. PICK f1 : f1 = [Top EXCEPT !.pc = "children"]
    OBVIOUS
  <2>2. IsFrame(f1) /\ f1.path = Top.path /\ f1.pc = "children"
    BY <1>1, <2>1, FramePc
  <2>3. PICK f2 : f2 = [f1 EXCEPT !.operator = operator]
    OBVIOUS
  <2>4. IsFrame(f2) /\ f2.path = f1.path /\ f2.pc = f1.pc
    BY ONLY <2>2, <2>3, FrameSet
  <2>5. f = [f2 EXCEPT !.todo = children]
    BY <1>3, <2>1, <2>3
  <2>6. IsFrame(f) /\ f.path = f2.path /\ f.pc = f2.pc
    BY ONLY <2>4, <2>5, FrameSet
  <2> QED
    BY <2>2, <2>4, <2>6
<1>5. /\ Charge /\ gaps' = Mark(Top.path, "decomposed") /\ active' = active
      /\ outcome' = outcome /\ acq' = acq
  BY DEF AssessesDecompose
<1>6. Accounts'
  BY <1>1, <1>5, ChargeKeeps
<1>7. Changes(gaps, Top.path, gaps')
  BY <1>1, <1>5, MarkChanges DEF Mark, Stamped
<1>8. Advances(stack, active, gaps, f, active', gaps')
  BY <1>1, <1>4, <1>5, <1>7 DEF Advances, Top
<1> QED
  BY <1>1, <1>2, <1>3, <1>4, <1>5, <1>6, <1>8, GoKeeps

(* Losing the provider, for the reason it gives, is no budget used up.       *)
LEMMA ProviderKeeps ==
    ASSUME Inv, Assessing, Blocked(Top.know, "provider_unavailable"),
           UNCHANGED <<used, budget, acq, turn>>
    PROVE  Inv'
<1>1. Running /\ Top.pc = "assess" /\ acq = Idle /\ Accounts
  BY AssessingIs
<1>2. Accounts'
  BY <1>1 DEF Accounts
<1> PICK know : know = Top.know
  OBVIOUS
<1>3. \A gap : Honest(know, "provider_unavailable", gap, budget')
  BY DEF Honest
<1>4. Blocked(know, "provider_unavailable")
  OBVIOUS
<1> QED
  BY <1>1, <1>2, <1>3, <1>4, BlockedKeeps

(* An attempt that failed is repeated, and is not charged.                   *)
LEMMA AttemptKeeps ==
    ASSUME Inv, AttemptFails, turn' = turn
    PROVE  Inv'
<1>1. /\ Running /\ Top.pc = "assess" /\ acq = Idle /\ Accounts
      /\ budget.assessments > 0 /\ Top.path \in DOMAIN gaps /\ IsLedger(gaps)
      /\ IsFrame(Top) /\ stack # <<>>
  BY AssessingIs DEF AttemptFails
<1>2. Assessing /\ UNCHANGED <<used, budget, acq>>
  BY DEF AttemptFails
<1>3. CASE Blocked(Top.know, "provider_unavailable")
  BY <1>2, <1>3, ProviderKeeps
<1>4. CASE /\ stack' = WithTop([Top EXCEPT !.attempt = 2])
           /\ UNCHANGED <<gaps, gathered, active, outcome>>
  <2>1. PICK f : f = [Top EXCEPT !.attempt = 2]
    OBVIOUS
  <2>2. IsFrame(f) /\ f.path = Top.path /\ f.pc = Top.pc
    <3>1. PICK top : top = Top
      OBVIOUS
    <3>2. IsFrame(top) /\ f = [top EXCEPT !.attempt = 2]
      BY <1>1, <2>1, <3>1
    <3>3. IsFrame(f) /\ f.path = top.path /\ f.pc = top.pc
      BY ONLY <3>2, FrameSet
    <3> QED
      BY <3>1, <3>3
  <2>3. Advances(stack, active, gaps, f, active', gaps')
    BY <1>1, <1>4, <2>2, NothingChanges DEF Advances, Top
  <2>4. Accounts'
    BY <1>1, <1>2 DEF Accounts
  <2>5. stack' = WithTop(f)
    BY <1>4, <2>1
  <2> QED
    BY <1>1, <1>2, <1>4, <2>2, <2>3, <2>4, <2>5, GoKeeps
<1> QED
  BY <1>3, <1>4 DEF AttemptFails


(* What holds of a call that searches.                                       *)
LEMMA SearchIs ==
    ASSUME Inv, Running, Top.pc = "search"
    PROVE  /\ Accounts /\ Top.path \in DOMAIN gaps /\ IsLedger(gaps)
           /\ IsFrame(Top) /\ stack # <<>> /\ outcome = Pending
           /\ budget.searches \in Nat /\ budget.sources \in Nat
<1>1. Accounts
  BY DEF Inv
<1>2. budget.searches \in Nat /\ budget.sources \in Nat
  BY <1>1 DEF Accounts, Amounts
<1> QED
  BY <1>1, <1>2, AtTop

(* A search is refused for the budget or for a query already made, or begins *)
(* (research-resolver.ts:253-265).                                           *)
LEMMA BeginSearchKeeps ==
    ASSUME Inv, BeginSearch, turn' = turn
    PROVE  Inv'
<1>1. Running /\ Top.pc = "search" /\ acq = Idle /\ UNCHANGED <<used, budget>>
  BY DEF BeginSearch
<1>2. /\ Accounts /\ Top.path \in DOMAIN gaps /\ IsLedger(gaps)
      /\ IsFrame(Top) /\ stack # <<>> /\ outcome = Pending
      /\ budget.searches \in Nat /\ budget.sources \in Nat
  BY <1>1, SearchIs
<1>3. Accounts'
  BY <1>1, <1>2 DEF Accounts
<1>4. ASSUME NEW stop, Blocked(Top.know, stop), acq' = acq,
             \A know, gap : Honest(know, stop, gap, budget')
      PROVE  Inv'
  <2> PICK know : know = Top.know
    OBVIOUS
  <2>1. Blocked(know, stop) /\ \A gap : Honest(know, stop, gap, budget')
    BY <1>4
  <2> QED
    BY <1>1, <1>3, <1>4, <2>1, BlockedKeeps
<1>5. CASE /\ UsedUp("searches") /\ Blocked(Top.know, "search_budget_exhausted")
           /\ UNCHANGED acq
  <2>1. budget'.searches = 0
    <3>1. budget.searches <= 0
      BY <1>5 DEF UsedUp
    <3> QED
      BY <1>1, <1>2, <3>1
  <2>2. \A know, gap : Honest(know, "search_budget_exhausted", gap, budget')
    BY <2>1 DEF Honest
  <2> QED
    BY <1>4, <1>5, <2>2
<1>6. CASE /\ UsedUp("sources") /\ Blocked(Top.know, "source_budget_exhausted")
           /\ UNCHANGED acq
  <2>1. budget'.sources = 0
    <3>1. budget.sources <= 0
      BY <1>6 DEF UsedUp
    <3> QED
      BY <1>1, <1>2, <3>1
  <2>2. \A know, gap : Honest(know, "source_budget_exhausted", gap, budget')
    BY <2>1 DEF Honest
  <2> QED
    BY <1>4, <1>6, <2>2
<1>7. CASE Blocked(Top.know, "no_new_knowledge") /\ UNCHANGED acq
  <2>1. \A know, gap : Honest(know, "no_new_knowledge", gap, budget')
    BY DEF Honest
  <2> QED
    BY <1>4, <1>7, <2>1
<1>8. CASE /\ ~UsedUp("searches")
           /\ acq' = Requested(IdRank(Top.path), Top.query, Cardinality(DOMAIN gaps),
                               SourcesOf(gathered.evidence), budget.sources)
           /\ UNCHANGED <<stack, gaps, gathered, active, outcome>>
  <2>1. Shape(stack, active, gaps, outcome)'
    BY <1>8 DEF Inv
  <2>2. SufficientIsEarned' /\ StopIsTrue'
    BY <1>2, <1>8 DEF SufficientIsEarned, StopIsTrue, Resolved
  <2>3. IsAcquisition(acq', budget.sources)
    BY <1>2, <1>8, RequestIs
  <2>4. Running' /\ Top' = Top
    BY <1>1, <1>8 DEF Running, Top
  <2>5. budget.searches > 0
    <3>1. ~(budget.searches <= 0)
      BY <1>8 DEF UsedUp
    <3> QED
      BY <1>2, <3>1
  <2>6. Waits'
    BY <1>1, <2>3, <2>4, <2>5 DEF Waits
  <2>7. Turning'
    BY <1>8 DEF Inv, Turning, Resolved
  <2> QED
    BY <1>3, <2>1, <2>2, <2>6, <2>7 DEF Inv
<1> QED
  BY <1>5, <1>6, <1>7, <1>8 DEF BeginSearch

(* A search that has ended is paid for, and its problem is assessed again    *)
(* with its mark released, or ends without news                              *)
(* (research-resolver.ts:265-305).                                           *)
LEMMA EndSearchKeeps ==
    ASSUME Inv, EndSearch, turn' = turn
    PROVE  Inv'
<1>1. Running /\ acq.pc = "done" /\ acq' = Idle
  BY DEF EndSearch
<1>2. acq # Idle
  BY <1>1 DEF Idle
<1>3. Top.pc = "search" /\ budget.searches > 0 /\ IsAcquisition(acq, budget.sources)
  BY <1>2 DEF Inv, Waits
<1>4. /\ Accounts /\ Top.path \in DOMAIN gaps /\ IsLedger(gaps)
      /\ IsFrame(Top) /\ stack # <<>> /\ outcome = Pending
      /\ budget.searches \in Nat /\ budget.sources \in Nat
  BY <1>1, <1>3, SearchIs
<1> PICK n : n = Len(acq.selected)
  OBVIOUS
<1>5. n \in Nat /\ n <= budget.sources
  <2>1. n \in Nat /\ n <= Least(MaxSources, budget.sources)
    BY <1>3, <1>4, OutcomeCounts DEF IsAcquisition
  <2>2. MaxSources \in Nat
    BY AcquirerAssumption
  <2> QED
    <3> PICK k, m : k = budget.sources /\ m = Least(MaxSources, k)
      OBVIOUS
    <3>1. k \in Nat /\ m \in Nat /\ m <= k
      BY <1>4, <2>2, LeastOf
    <3>2. n \in Nat /\ n <= m
      BY <2>1
    <3>3. n \in Nat /\ n <= k
      BY <3>1, <3>2
    <3> QED
      BY <3>3
<1>6. Accounts'
  <2>1. /\ budget' = [budget EXCEPT !.searches = @ - 1, !.sources = @ - n]
        /\ used' = [used EXCEPT !.searches = @ + 1, !.sources = @ + n]
    BY DEF EndSearch
  <2> QED
    BY <1>3, <1>4, <1>5, <2>1, SpendKeeps
<1>7. PICK after, learned, stop :
         /\ stop \in {"provider_unavailable", "no_new_knowledge"}
         /\ learned = JoinBounded(<<Root>>, gathered, after)
         /\ \/ /\ gaps' = Mark(Top.path, "open")
               /\ active' = Freed(Top.path)
               /\ stack' = WithTop([Top EXCEPT !.know = after, !.pc = "enter"])
               /\ outcome' = outcome /\ gathered' = learned
            \/ Return(after, stop, Mark(Top.path, "blocked"), learned, Freed(Top.path))
  BY DEF EndSearch
<1>8. CASE /\ gaps' = Mark(Top.path, "open")
           /\ active' = Freed(Top.path)
           /\ stack' = WithTop([Top EXCEPT !.know = after, !.pc = "enter"])
           /\ outcome' = outcome /\ gathered' = learned
  <2>1. PICK top : top = Top
    OBVIOUS
  <2>2. PICK f : f = [top EXCEPT !.know = after, !.pc = "enter"]
    OBVIOUS
  <2>3. IsFrame(f) /\ f.path = Top.path /\ f.pc = "enter"
    <3>1. PICK f1 : f1 = [top EXCEPT !.know = after]
      OBVIOUS
    <3>2. IsFrame(top)
      BY <1>4, <2>1
    <3>3. IsFrame(f1) /\ f1.path = top.path
      BY ONLY <3>1, <3>2, FrameSet
    <3>4. f = [f1 EXCEPT !.pc = "enter"]
      BY <2>2, <3>1
    <3>5. IsFrame(f) /\ f.path = f1.path /\ f.pc = "enter"
      BY ONLY <3>3, <3>4, FramePc
    <3> QED
      BY <2>1, <3>3, <3>5
  <2>4. Changes(gaps, Top.path, gaps')
    BY <1>4, <1>8, MarkChanges DEF Mark, Stamped
  <2>5. active' = active \ {Fingerprint(f.path)}
    BY <1>8, <2>3 DEF Freed
  <2>6. Advances(stack, active, gaps, f, active', gaps')
    BY <1>3, <1>4, <2>3, <2>4, <2>5 DEF Advances, Top
  <2>7. stack' = WithTop(f)
    BY <1>8, <2>1, <2>2
  <2> QED
    BY <1>1, <1>6, <1>8, <2>3, <2>6, <2>7, GoKeeps
<1>9. CASE Return(after, stop, Mark(Top.path, "blocked"), learned, Freed(Top.path))
  <2> PICK ledger, busy : ledger = Mark(Top.path, "blocked") /\ busy = Freed(Top.path)
    OBVIOUS
  <2>1. Changes(gaps, Top.path, ledger) /\ ledger[Top.path].status = "blocked"
    BY <1>4, MarkChanges DEF Mark, Stamped
  <2>2. Decided(ledger[Top.path])
    BY <2>1 DEF Decided
  <2>3. busy = Left(stack, active)
    BY <1>3 DEF Freed, Left, Top
  <2>4. Honest(after, stop, ledger[Top.path], budget')
    BY <1>7 DEF Honest
  <2>5. Return(after, stop, ledger, learned, busy)
    BY <1>9
  <2> QED
    BY <1>1, <1>6, <2>1, <2>2, <2>3, <2>4, <2>5, ReturnKeeps
<1> QED
  BY <1>7, <1>8, <1>9

(* The next child is called, or the problem itself again when there is none  *)
(* (research-resolver.ts:312-345).                                           *)
LEMMA NextChildKeeps ==
    ASSUME Inv, NextChild, turn' = turn
    PROVE  Inv'
<1>1. Running /\ Top.pc = "children" /\ UNCHANGED <<used, budget, acq>>
  BY DEF NextChild
<1>2. /\ IsLedger(gaps) /\ IsFrame(Top) /\ stack # <<>> /\ outcome = Pending
      /\ Shape(stack, active, gaps, Pending) /\ IsStack(stack) /\ IsSeq(stack)
      /\ Top.path \in DOMAIN gaps /\ acq = Idle
  BY <1>1, AtTop
<1>3. Accounts'
  BY <1>1 DEF Inv, Accounts
<1>4. acq' = Idle
  BY <1>1, <1>2
<1>5. PICK top : top = Top
  OBVIOUS
<1>6. CASE Depth(Top.path) >= MaxDepth /\ Blocked(Top.know, "depth_limit_reached")
  <2>1. Len(stack) # 1
    <3>1. Len(stack) = 1 => Top.path = <<Root>>
      BY <1>1, AtTop
    <3>2. Depth(<<Root>>) = 0
      BY DEF Depth
    <3>3. ~(0 >= MaxDepth)
      BY ResolverAssumption
    <3> QED
      BY <1>6, <3>1, <3>2, <3>3
  <2> PICK know : know = Top.know
    OBVIOUS
  <2>2. Blocked(know, "depth_limit_reached")
    BY <1>6
  <2> QED
    BY <1>1, <1>3, <1>4, <2>1, <2>2, BlockedKeeps
<1>7. CASE /\ stack' = Append(WithTop([Top EXCEPT !.todo = Tail(@)]),
                              Frame(Append(Top.path, Head(Top.todo)), Top.know))
           /\ UNCHANGED <<gaps, gathered, active, outcome>>
  <2>1. PICK f : f = [top EXCEPT !.todo = Tail(@)]
    OBVIOUS
  <2>2. PICK rest : f = [top EXCEPT !.todo = rest]
    BY <2>1
  <2>3. IsFrame(f) /\ f.path = Top.path /\ f.pc = "children"
    <3>1. IsFrame(top)
      BY <1>2, <1>5
    <3>2. IsFrame(f) /\ f.path = top.path /\ f.pc = top.pc
      BY ONLY <2>2, <3>1, FrameSet
    <3> QED
      BY <1>1, <1>5, <3>2
  <2>4. PICK child : child = Frame(Append(Top.path, Head(Top.todo)), Top.know)
    OBVIOUS
  <2>5. IsFrame(child) /\ child.pc = "enter"
    BY <2>4 DEF Frame, IsFrame
  <2> PICK s : s = WithTop(f)
    OBVIOUS
  <2>6. Goes(stack, f, s)
    BY <1>2, TopGoes DEF WithTop
  <2>7. Advances(stack, active, gaps, f, active, gaps)
    BY <1>1, <1>2, <2>3, NothingChanges DEF Advances, Top
  <2>8. Shape(s, active, gaps, Pending) /\ s # <<>> /\ s[Len(s)] = f
    BY <1>2, <2>6, <2>7, AdvanceShape
  <2>9. stack' = Append(s, child)
    BY <1>5, <1>7, <2>1, <2>4
  <2>10. Calls(s, child, stack')
    <3>1. IsSeq(s)
      BY <2>8 DEF Shape, IsStack
    <3> QED
      BY <2>9, <3>1, TopCalls
  <2>11. Shape(stack', active, gaps, Pending) /\ stack' # <<>> /\ stack'[Len(stack')] = child
    BY <2>3, <2>5, <2>8, <2>10, CallShape
  <2>12. Shape(stack, active, gaps, outcome)'
    BY <1>2, <1>7, <2>11
  <2>13. Waits'
    BY <1>4, <2>5, <2>11 DEF Waits, Running, Top
  <2>14. SufficientIsEarned' /\ StopIsTrue'
    BY <1>2, <1>7 DEF SufficientIsEarned, StopIsTrue, Resolved
  <2>15. Turning'
    BY <1>2, <1>7, <2>11 DEF Inv, Turning, Resolved
  <2> QED
    BY <1>3, <2>12, <2>13, <2>14, <2>15 DEF Inv
<1>8. CASE /\ active' = Freed(Top.path) /\ stack' = WithTop([Top EXCEPT !.pc = "enter"])
           /\ UNCHANGED <<gaps, gathered, outcome>>
  <2>1. PICK f : f = [top EXCEPT !.pc = "enter"]
    OBVIOUS
  <2>2. IsFrame(f) /\ f.path = Top.path /\ f.pc = "enter"
    <3>1. IsFrame(top)
      BY <1>2, <1>5
    <3>2. IsFrame(f) /\ f.path = top.path /\ f.pc = "enter"
      BY ONLY <2>1, <3>1, FramePc
    <3> QED
      BY <1>5, <3>2
  <2>3. active' = active \ {Fingerprint(f.path)}
    BY <1>8, <2>2 DEF Freed
  <2>4. Advances(stack, active, gaps, f, active', gaps')
    BY <1>1, <1>2, <1>8, <2>2, <2>3, NothingChanges DEF Advances, Top
  <2>5. stack' = WithTop(f)
    BY <1>5, <1>8, <2>1
  <2> QED
    BY <1>1, <1>3, <1>4, <1>8, <2>2, <2>4, <2>5, GoKeeps
<1> QED
  BY <1>6, <1>7, <1>8 DEF NextChild

(* What the acquirer does in between stays within what it was given.         *)
LEMMA AcquireKeeps ==
    ASSUME Inv, Acquire, turn' = turn
    PROVE  Inv'
<1>1. Running /\ UNCHANGED <<stack, gaps, used, budget, active, outcome, gathered>>
  BY DEF Acquire, resolverVars
<1>2. acq.pc \in {"search", "extract"}
  BY DEF Acquire, SearchAnswers, SearchFails, ExtractionSettles
<1>3. acq # Idle
  BY <1>2 DEF Idle
<1>4. Top.pc = "search" /\ budget.searches > 0 /\ IsAcquisition(acq, budget.sources)
  BY <1>3 DEF Inv, Waits
<1>5. Accounts /\ budget.sources \in Nat
  BY <1>1, <1>4, SearchIs
<1> PICK k, a : k = budget.sources /\ a = acq
  OBVIOUS
<1>6. IsAcquisition(acq', k)
  <2>1. CASE SearchAnswers
    <3>1. PICK raw \in SearchResults : acq' = Selected([a EXCEPT !.candidates = Canonical(raw)])
      BY <2>1 DEF SearchAnswers
    <3> PICK x : x = Canonical(raw)
      OBVIOUS
    <3>2. IsFiniteSet(DOMAIN x)
      BY CandidatesFinite
    <3>3. PICK b : b = [a EXCEPT !.candidates = x]
      OBVIOUS
    <3>4. IsAcquisition(b, k) /\ b.pc = a.pc
      BY <1>4, <3>2, <3>3, CandidatesAre
    <3>5. a.pc = "search"
      BY <2>1 DEF SearchAnswers
    <3>6. acq' = Selected(b)
      BY <3>1, <3>3
    <3> QED
      BY <1>5, <3>4, <3>5, <3>6, SelectionIs
  <2>2. CASE SearchFails
    <3>1. PICK code : acq' = [a EXCEPT !.pc = "done", !.failure = code]
      BY <2>2 DEF SearchFails
    <3>2. PICK b : b = [a EXCEPT !.pc = "done"]
      OBVIOUS
    <3>3. IsAcquisition(b, k)
      BY <1>4, <3>2, PcIs
    <3>4. acq' = [b EXCEPT !.failure = code]
      BY <3>1, <3>2
    <3> QED
      BY <3>3, <3>4, FailureIs
  <2>3. CASE ExtractionSettles
    <3>1. PICK i, result : /\ i \in InFlight(a)
                           /\ acq' = Settled([a EXCEPT !.outcome = With(@, i, result)])
      BY <2>3 DEF ExtractionSettles
    <3> PICK x : x = With(a.outcome, i, result)
      OBVIOUS
    <3>2. DOMAIN x = DOMAIN a.outcome \cup {i}
      BY DEF With
    <3>3. i \in 1..a.started /\ DOMAIN a.outcome \subseteq 1..a.started
      BY <1>4, <3>1 DEF InFlight, IsAcquisition
    <3>4. PICK b : b = [a EXCEPT !.outcome = x]
      OBVIOUS
    <3>5. IsAcquisition(b, k) /\ b.pc = a.pc
      BY <1>4, <1>5, <3>2, <3>3, <3>4, OutcomesAre
    <3>6. a.pc = "extract"
      BY <2>3 DEF ExtractionSettles
    <3>7. acq' = Settled(b)
      BY <3>1, <3>4
    <3> QED
      BY <1>5, <3>5, <3>6, <3>7, SettlingIs
  <2> QED
    BY <2>1, <2>2, <2>3 DEF Acquire
<1>7. Shape(stack, active, gaps, outcome)'
  BY <1>1 DEF Inv
<1>8. Accounts'
  BY <1>1, <1>5 DEF Accounts
<1>9. Waits'
  BY <1>1, <1>4, <1>6 DEF Waits, Running, Top
<1>10. SufficientIsEarned' /\ StopIsTrue'
  BY <1>1 DEF Inv, SufficientIsEarned, StopIsTrue, Resolved
<1>11. Turning'
  BY <1>1 DEF Inv, Turning, Resolved
<1> QED
  BY <1>7, <1>8, <1>9, <1>10, <1>11 DEF Inv


(* The invariant holds when nothing is left of a research,                   *)
LEMMA EmptyKeeps ==
    ASSUME stack' = <<>>, gaps' = <<>>, active' = {}, outcome' = Pending, acq' = Idle,
           budget' = Budget, used' = [searches |-> 0, sources |-> 0, assessments |-> 0],
           gathered' = Unit(<<Root>>, Nothing, <<>>), turn'.pc # "resolving"
    PROVE  Inv'
<1>1. IsLedger(<<>>) /\ DOMAIN <<>> = {}
  BY DEF IsLedger
<1>2. Shape(stack, active, gaps, outcome)'
  BY <1>1, EmptyShape
<1>3. Accounts'
  BY ResolverAssumption DEF Accounts, Amounts
<1>4. Waits' /\ SufficientIsEarned' /\ StopIsTrue'
  BY DEF Waits, Running, SufficientIsEarned, StopIsTrue, Resolved
<1>5. Turning'
  BY DEF Turning, Resolved
<1> QED
  BY <1>2, <1>3, <1>4, <1>5 DEF Inv

(* and when one begins.                                                      *)
LEMMA BeginsHolds ==
    ASSUME NEW ctx, Begins(ctx), turn'.pc = "resolving"
    PROVE  Inv'
<1>1. /\ stack' = <<Frame(<<Root>>, gathered')>>
      /\ gaps' = [path \in {<<Root>>} |-> OpenGap] /\ active' = {} /\ outcome' = Pending
      /\ acq' = Idle /\ budget' = Budget
      /\ used' = [searches |-> 0, sources |-> 0, assessments |-> 0]
  BY DEF Begins
<1> PICK f : f = Frame(<<Root>>, gathered')
  OBVIOUS
<1>2. IsFrame(f) /\ f.pc = "enter" /\ f.path = <<Root>>
  BY DEF Frame, IsFrame
<1> PICK s, g : s = stack' /\ g = gaps'
  OBVIOUS
<1>3. s = <<f>> /\ s \in Seq({f}) /\ Len(s) = 1 /\ s[1] = f /\ s # <<>>
  BY <1>1
<1>4. \A i \in 1..Len(s) : i = 1
  BY <1>3
<1>5. IsStack(s)
  BY <1>2, <1>3, <1>4, IsSeqOf DEF IsStack
<1>6. Entered(s) = {}
  BY <1>2, <1>3, <1>4 DEF Entered
<1>7. Marked(s, {}) /\ Booked(g, s)
  BY <1>6 DEF Marked, Booked
<1>8. IsLedger(g) /\ DOMAIN g = {<<Root>>}
  BY <1>1 DEF IsLedger, OpenGap
<1>9. Pursued(g, s)
  BY <1>2, <1>3, <1>8 DEF Pursued
<1>10. Shape(stack, active, gaps, outcome)'
  BY <1>1, <1>5, <1>7, <1>8, <1>9 DEF Shape
<1>11. Accounts'
  BY <1>1, ResolverAssumption DEF Accounts, Amounts
<1>12. Top' = f
  BY <1>3 DEF Top
<1>13. Waits'
  BY <1>1, <1>2, <1>12 DEF Waits
<1>14. SufficientIsEarned' /\ StopIsTrue'
  BY <1>1 DEF SufficientIsEarned, StopIsTrue, Resolved
<1>15. Turning'
  BY <1>1 DEF Turning, Resolved
<1> QED
  BY <1>10, <1>11, <1>13, <1>14, <1>15 DEF Inv

(* What a turn is when it has ended. *)
Cited(ended, citations) == [ended EXCEPT !.citations = citations]

(* Its fields.                                                               *)
LEMMA EndedIs ==
    ASSUME NEW status, NEW why
    PROVE  /\ Ended(status, why).pc = "ended"
           /\ Ended(status, why).status = status
  BY DEF Ended

(* The same with its citations.                                              *)
LEMMA CitedIs ==
    ASSUME NEW status, NEW why, NEW citations
    PROVE  /\ Cited(Ended(status, why), citations).pc = "ended"
           /\ Cited(Ended(status, why), citations).status = status
  BY DEF Cited, Ended

(* Whatever the model proposes, the searches return and the workers extract, *)
(* the calls, marks, gaps and accounts of a research belong together in      *)
(* every state (research-resolver.ts:170-443).                               *)
THEOREM Invariance ==
    Spec => []Inv
<1>1. Init => Inv
  <2> SUFFICES ASSUME Init
               PROVE  Inv
    OBVIOUS
  <2>1. IsLedger(<<>>) /\ DOMAIN <<>> = {}
    BY DEF IsLedger
  <2>2. Shape(stack, active, gaps, outcome)
    BY <2>1, EmptyShape DEF Init
  <2>3. Accounts
    BY ResolverAssumption DEF Init, Accounts, Amounts
  <2>4. Waits /\ SufficientIsEarned /\ StopIsTrue
    BY DEF Init, Waits, Running, SufficientIsEarned, StopIsTrue, Resolved
  <2>5. Turning
    BY DEF Init, Turning, Resolved
  <2> QED
    BY <2>2, <2>3, <2>4, <2>5 DEF Inv
<1>2. Inv /\ [Next]_vars => Inv'
  <2> SUFFICES ASSUME Inv, [Next]_vars
               PROVE  Inv'
    OBVIOUS
  <2>1. CASE UNCHANGED vars
    BY <2>1, QuietKeeps DEF vars, resolverVars
  <2>2. CASE Grow
    BY <2>2, QuietKeeps DEF Grow, resolverVars
  <2>3. CASE Ask
    <3>1. PICK ctx : ctx = ContextOf(BuildThreadContext(thread))
      OBVIOUS
    <3>2. Begins(ctx)
      BY <2>3, <3>1 DEF Ask
    <3>3. turn'.pc = "resolving"
      BY <2>3 DEF Ask
    <3> QED
      BY <3>2, <3>3, BeginsHolds
  <2>4. CASE Settle
    <3>1. Forgotten
      BY <2>4 DEF Settle
    <3>2. turn'.pc # "resolving"
      BY <2>4 DEF Settle, Ends, Ended
    <3> QED
      BY <3>1, <3>2, EmptyKeeps DEF Forgotten
  <2>5. CASE Works /\ UNCHANGED <<thread, turn, stream>>
    <3> turn' = turn
      BY <2>5
    <3>1. CASE Enter
      BY <3>1, EnterKeeps
    <3>2. CASE AssessesResolved
      BY <3>2, ResolvedKeeps
    <3>3. CASE AssessesSearch
      BY <3>3, AssessSearchKeeps
    <3>4. CASE AssessesDecompose
      BY <3>4, DecomposeKeeps
    <3>5. CASE AttemptFails
      BY <3>5, AttemptKeeps
    <3>6. CASE ProviderUnavailable
      BY <3>6, ProviderKeeps DEF ProviderUnavailable
    <3>7. CASE AssessmentThrows
      <4>1. PICK interrupted : Assessing /\ Throws(interrupted) /\ UNCHANGED <<used, budget, acq>>
        BY <3>7 DEF AssessmentThrows
      <4>2. Running /\ acq = Idle /\ Accounts
        BY <4>1, AssessingIs
      <4>3. Accounts'
        BY <4>1, <4>2 DEF Accounts
      <4> QED
        BY <4>1, <4>2, <4>3, ThrowsKeeps
    <3>8. CASE BeginSearch
      BY <3>8, BeginSearchKeeps
    <3>9. CASE EndSearch
      BY <3>9, EndSearchKeeps
    <3>10. CASE NextChild
      BY <3>10, NextChildKeeps
    <3>11. CASE Acquire
      BY <3>11, AcquireKeeps
    <3> QED
      BY <2>5, <3>1, <3>2, <3>3, <3>4, <3>5, <3>6, <3>7, <3>8, <3>9, <3>10, <3>11 DEF Works
  <2>6. CASE Abort /\ UNCHANGED <<thread, turn, stream>>
    BY <2>6, QuietKeeps DEF Abort, resolverVars
  <2>7. CASE Chunk \/ StreamEnds \/ StreamFails \/ StreamInterrupted
    <3>1. turn.pc # "resolving"
      BY <2>7 DEF Chunk, StreamEnds, StreamFails, StreamInterrupted, Streaming
    <3>2. turn'.pc # "resolving"
      <4>1. CASE Chunk
        BY <3>1, <4>1 DEF Chunk
      <4>2. CASE StreamEnds
        <5>1. \E answer : turn' = IF Shows(answer)
                                  THEN Cited(Ended("completed", turn.status), CitationsIn(answer))
                                  ELSE Ended("failed", "synthesis_unavailable")
          BY <4>2 DEF StreamEnds, Cited
        <5> QED
          BY <5>1, EndedIs, CitedIs
      <4>3. CASE StreamFails
        BY <4>3, EndedIs DEF StreamFails, Ends
      <4>4. CASE StreamInterrupted
        BY <4>4, EndedIs DEF StreamInterrupted, Ends
      <4> QED
        BY <2>7, <4>1, <4>2, <4>3, <4>4
    <3>3. Quiet
      BY <2>7 DEF Chunk, StreamEnds, StreamFails, StreamInterrupted
    <3> QED
      BY <3>1, <3>2, <3>3, QuietKeeps DEF Quiet, resolverVars
  <2>8. CASE AbortSynthesis
    BY <2>8, QuietKeeps DEF AbortSynthesis, resolverVars
  <2> QED
    BY <2>1, <2>2, <2>3, <2>4, <2>5, <2>6, <2>7, <2>8
       DEF Next
<1> QED
  BY <1>1, <1>2, PTL DEF Spec

(* No research spends what it was not given: used and left make up the       *)
(* budget (research-resolver.ts:385-387, 426-430), an acquisition selects no *)
(* more sources than are left and extracts no more at once than it has       *)
(* workers (evidence-acquirer.ts:354-427).                                   *)
THEOREM BudgetsAreKept ==
    Spec => []BudgetsHold
<1>1. Inv => BudgetsHold
  <2> SUFFICES ASSUME Inv
               PROVE  BudgetsHold
    OBVIOUS
  <2>1. Accounts /\ Waits
    BY DEF Inv
  <2>2. \A k \in DOMAIN Budget : budget[k] \in Nat /\ used[k] + budget[k] = Budget[k]
    <3>1. DOMAIN Budget = {"searches", "sources", "assessments"}
      BY ResolverAssumption
    <3>2. budget.searches \in Nat /\ budget.sources \in Nat /\ budget.assessments \in Nat
      BY <2>1 DEF Accounts, Amounts
    <3> QED
      BY <2>1, <3>1, <3>2 DEF Accounts
  <2>3. ASSUME acq.pc \in {"extract", "done"}
        PROVE  /\ Len(acq.selected) <= Least(MaxSources, budget.sources)
               /\ Cardinality(InFlight(acq)) <= Workers
    <3>1. acq # Idle
      BY <2>3 DEF Idle
    <3> PICK k, a : k = budget.sources /\ a = acq
      OBVIOUS
    <3>2. IsAcquisition(a, k)
      BY <2>1, <3>1 DEF Waits
    <3>3. Len(a.selected) <= Least(MaxSources, k)
      BY <3>2 DEF IsAcquisition
    <3> PICK c : c = Cardinality(DOMAIN a.outcome)
      OBVIOUS
    <3>4. a.started \in Nat /\ c \in Nat /\ Cardinality(InFlight(a)) = a.started - c
      BY <3>2, OutcomeCounts
    <3>5. a.started <= c + Workers /\ Workers \in Nat
      BY <3>2, AcquirerAssumption DEF IsAcquisition
    <3>6. a.started - c <= Workers
      BY <3>4, <3>5
    <3> QED
      BY <3>3, <3>4, <3>6
  <2> QED
    BY <2>2, <2>3 DEF BudgetsHold
<1> QED
  BY <1>1, Invariance, PTL

(* The fingerprints marked are those of the calls under way, one of each: a  *)
(* problem is turned away as a duplicate only below itself, and never        *)
(* resolved below itself (research-resolver.ts:202-211, 293, 303, 344, 352). *)
THEOREM CyclesAreCaught ==
    Spec => []ActiveIsStack
<1>1. Inv => ActiveIsStack
  <2> SUFFICES ASSUME Inv
               PROVE  ActiveIsStack
    OBVIOUS
  <2>1. IsSeq(stack) /\ Marked(stack, active)
    BY DEF Inv, Shape, IsStack
  <2>2. Len(stack) \in Nat /\ DOMAIN stack = 1..Len(stack)
    BY <2>1, Lengths DEF IsSeq
  <2>3. {i \in DOMAIN stack : stack[i].pc # "enter"} = Entered(stack)
    BY <2>2 DEF Entered
  <2> PICK E : E = Entered(stack)
    OBVIOUS
  <2>4. IsFiniteSet(E)
    <3>1. E \subseteq 1..Len(stack)
      BY DEF Entered
    <3> QED
      BY <2>2, <3>1, UpTo, FS_Subset
  <2> DEFINE mark == [i \in E |-> Fingerprint(stack[i].path)]
  <2>5. active = {Fingerprint(stack[i].path) : i \in E}
    BY <2>1 DEF Marked
  <2>6. mark \in Bijection(E, active)
    <3>1. \A i, j \in E : mark[i] = mark[j] => i = j
      BY <2>1 DEF Marked
    <3>2. mark \in [E -> active] /\ \A m \in active : \E i \in E : mark[i] = m
      BY <2>5
    <3> HIDE DEF mark
    <3> QED
      BY <3>1, <3>2 DEF Bijection, Injection, Surjection, IsInjective
  <2>7. Cardinality(active) = Cardinality(E)
    <3> HIDE DEF mark
    <3>1. ExistsBijection(E, active)
      BY <2>6 DEF ExistsBijection
    <3> QED
      BY <2>4, <3>1, FS_Bijection
  <2> QED
    BY <2>3, <2>5, <2>7 DEF ActiveIsStack
<1> QED
  BY <1>1, Invariance, PTL

(* When a research ends with a resolution every gap it opened is resolved or *)
(* blocked, however deep, and however each call came to its end.             *)
THEOREM GapsAreDecided ==
    Spec => []GapsDecided
<1>1. Inv => GapsDecided
  <2> SUFFICES ASSUME Inv, Resolved, NEW p \in DOMAIN gaps
               PROVE  gaps[p].status \in {"resolved", "blocked"}
    BY DEF GapsDecided
  <2>1. stack = <<>> /\ Pursued(gaps, stack)
    BY DEF Inv, Shape, Resolved
  <2>2. 1..Len(stack) = {}
    BY <2>1
  <2> QED
    BY <2>1, <2>2 DEF Pursued, Decided
<1> QED
  BY <1>1, Invariance, PTL

(* A research that calls itself sufficient has resolved the root, with       *)
(* findings and the two sources of the floor (research-resolver.ts:434-442). *)
THEOREM AnswersAreEarned ==
    Spec => []SufficientIsEarned
<1>1. Inv => SufficientIsEarned
  BY DEF Inv
<1> QED
  BY <1>1, Invariance, PTL

(* It stops for the budget it names, and never for a reason that stops only  *)
(* a part of it.                                                             *)
THEOREM ReasonsAreTrue ==
    Spec => []StopIsTrue
<1>1. Inv => StopIsTrue
  BY DEF Inv
<1> QED
  BY <1>1, Invariance, PTL


(* The turn and its stream. *)
Typed ==
    /\ turn.pc \in {"asking", "resolving", "streaming", "ended"}
    /\ turn.pc = "streaming" => turn.status \in {"sufficient", "best_effort"}
    /\ turn.pc = "ended" => turn.status \in {"completed", "failed", "interrupted", "thrown"}
    /\ stream = [text |-> stream.text, fed |-> stream.fed,
                 buffer |-> stream.buffer, parts |-> stream.parts]
    /\ stream.text \in Seq(Int)
    /\ stream.fed \in 0..Len(stream.text)

(* A stream that has not begun.                                              *)
LEMMA NoStreamFits ==
    /\ NoStream.text = <<>> /\ NoStream.fed = 0
    /\ NoStream.fed \in 0..Len(NoStream.text) /\ NoStream.text \in Seq(Int)
    /\ NoStream = [text |-> NoStream.text, fed |-> NoStream.fed,
                   buffer |-> NoStream.buffer, parts |-> NoStream.parts]
<1>1. NoStream.text = <<>> /\ NoStream.fed = 0
  BY DEF NoStream
<1>2. Len(<<>>) = 0 /\ <<>> \in Seq(Int)
  OBVIOUS
<1>3. NoStream = [text |-> NoStream.text, fed |-> NoStream.fed,
                  buffer |-> NoStream.buffer, parts |-> NoStream.parts]
  BY DEF NoStream
<1> QED
  BY <1>1, <1>2, <1>3

(* A turn that ends,                                                         *)
LEMMA EndsTyped ==
    ASSUME NEW status \in {"completed", "failed", "interrupted", "thrown"}, NEW why,
           Ends(status, why)
    PROVE  Typed'
<1>1. turn'.pc = "ended" /\ turn'.status = status
  BY EndedIs DEF Ends
<1>2. stream' = NoStream
  BY DEF Ends
<1> QED
  BY <1>1, <1>2, NoStreamFits DEF Typed

(* and one that is settled (execute-research-turn.ts).                       *)
LEMMA SettleTyped ==
    ASSUME Inv, Settle
    PROVE  Typed'
<1>1. turn.pc = "resolving" /\ outcome # Pending
  BY DEF Settle
<1>2. CASE Ends("thrown", "interrupted")
  BY <1>2, EndsTyped
<1>3. CASE Ends("interrupted", "unavailable")
  BY <1>3, EndsTyped
<1>4. CASE \E why : Ends("failed", why)
  BY <1>4, EndsTyped
<1>5. CASE /\ outcome.kind = "resolution" /\ outcome.status # "insufficient"
           /\ turn' = [pc |-> "streaming", status |-> outcome.status,
                       allowed |-> SourcesOf(outcome.knowledge.evidence)]
           /\ \E text \in Texts : stream' = [NoStream EXCEPT !.text = text]
  <2>1. outcome.status \in {"sufficient", "best_effort"}
    BY <1>1, <1>5 DEF Inv, Turning, Resolved
  <2>2. turn'.pc = "streaming" /\ turn'.status = outcome.status
    BY <1>5
  <2>3. PICK text \in Texts : stream' = [NoStream EXCEPT !.text = text]
    BY <1>5
  <2>4. text \in Seq(Int) /\ Len(text) \in Nat
    BY TextsAssumption
  <2>5. /\ stream'.text = text /\ stream'.fed = 0
        /\ stream' = [text |-> stream'.text, fed |-> stream'.fed,
                      buffer |-> stream'.buffer, parts |-> stream'.parts]
    BY <2>3 DEF NoStream
  <2>6. 0 \in 0..Len(text)
    BY <2>4
  <2> QED
    BY <2>1, <2>2, <2>4, <2>5, <2>6 DEF Typed
<1> QED
  BY <1>2, <1>3, <1>4, <1>5 DEF Settle

(* The turn and its stream keep their shape through every step. *)
LEMMA StaysTyped ==
    ASSUME Inv, Typed, [Next]_vars
    PROVE  Typed'
<1>1. CASE turn' = turn /\ stream' = stream
  BY <1>1 DEF Typed
<1>2. CASE Ask
  <2>1. turn'.pc = "resolving" /\ stream' = stream
    BY <1>2 DEF Ask
  <2> QED
    BY <2>1 DEF Typed
<1>3. CASE Settle
  BY <1>3, SettleTyped
<1>4. CASE Chunk
  <2>1. PICK to, b, p :
           /\ to \in (stream.fed + 1)..Len(stream.text)
           /\ stream' = [stream EXCEPT !.fed = to, !.buffer = b, !.parts = p]
    BY <1>4 DEF Chunk
  <2>2. turn' = turn
    BY <1>4 DEF Chunk
  <2>3. /\ stream'.text = stream.text /\ stream'.fed = to
        /\ stream' = [text |-> stream'.text, fed |-> stream'.fed,
                      buffer |-> stream'.buffer, parts |-> stream'.parts]
    BY <2>1 DEF Typed
  <2>4. to \in 0..Len(stream.text)
    BY <2>1 DEF Typed
  <2> QED
    BY <2>2, <2>3, <2>4 DEF Typed
<1>5. CASE StreamEnds
  <2>1. PICK answer :
           /\ turn' = IF Shows(answer)
                      THEN Cited(Ended("completed", turn.status), CitationsIn(answer))
                      ELSE Ended("failed", "synthesis_unavailable")
           /\ stream' = [stream EXCEPT !.buffer = <<>>, !.parts = answer]
    BY <1>5 DEF StreamEnds, Cited
  <2>2. turn'.pc = "ended" /\ turn'.status \in {"completed", "failed"}
    BY <2>1, EndedIs, CitedIs
  <2>3. /\ stream'.text = stream.text /\ stream'.fed = stream.fed
        /\ stream' = [text |-> stream'.text, fed |-> stream'.fed,
                      buffer |-> stream'.buffer, parts |-> stream'.parts]
    BY <2>1 DEF Typed
  <2> QED
    BY <2>2, <2>3 DEF Typed
<1>6. CASE StreamFails
  BY <1>6, EndsTyped DEF StreamFails
<1>7. CASE StreamInterrupted
  BY <1>7, EndsTyped DEF StreamInterrupted
<1>8. CASE AbortSynthesis
  BY <1>1, <1>8 DEF AbortSynthesis
<1> QED
  BY <1>1, <1>2, <1>3, <1>4, <1>5, <1>6, <1>7, <1>8 DEF Next, Grow, vars

=============================================================================
