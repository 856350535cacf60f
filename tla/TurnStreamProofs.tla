-------------------------- MODULE TurnStreamProofs --------------------------
(***************************************************************************)
(* The safety of a turn's stream, for every limit, every text and every    *)
(* loss: the client takes what the boundary sends for what it is.          *)
(***************************************************************************)
EXTENDS TurnStream, SequenceTheorems, TLAPS

-----------------------------------------------------------------------------
(* What the client will have when it has received frames under way.          *)

View == [draft : Nat, previews : Nat, state : States]

ViewOf(c) == [draft |-> c.draft, previews |-> c.previews, state |-> c.state]

After(v, f) ==
    [draft |-> v.draft + f.size,
     previews |-> IF f.type = "delta" THEN v.previews + 1 ELSE v.previews,
     state |-> IF f.type = "state" THEN f.state ELSE v.state]

(* seen[i] is what a client that has v now has after the first i frames of w *)
Foresees(seen, w, v) ==
    /\ seen \in [0..Len(w) -> View]
    /\ seen[0] = v
    /\ \A i \in 1..Len(w) : seen[i] = After(seen[i - 1], w[i])

-----------------------------------------------------------------------------
(* The inductive invariant. *)

(* The executor never emits more text than the boundary has room for; what   *)
(* it flushes at the end is not counted, but nothing follows it.             *)
Counts ==
    /\ executor.chars + executor.queued <= MaxChars
    /\ executor.stage \in {"resolving", "synthesizing"}
       => boundary.chars <= executor.chars
    /\ executor.stage = "resolving" => boundary.frames = 0

One(condition) == IF condition THEN 1 ELSE 0

(* The frames of a stream: one that accepts, the progress, the state, the    *)
(* previews and one that ends it.                                            *)
Places ==
    /\ boundary.seq <= 1 + One(boundary.phase # "waiting") + executor.phases
                       + One(executor.stage # "resolving") + boundary.frames
                       + One(boundary.phase = "ended")
    /\ boundary.phase = "waiting" => boundary.seq = 1
    /\ boundary.phase \in {"running", "ended"} => boundary.seq >= 2

(* The client's numbers follow the boundary's; a connection that is cut has  *)
(* lost the last ones.                                                       *)
Numbered ==
    Reading =>
        /\ client.events = client.last
        /\ client.last + Len(wire) <= boundary.seq - 1
        /\ ~cut => client.last + Len(wire) = boundary.seq - 1
        /\ \A i \in 1..Len(wire) : wire[i].seq = client.last + i

(* What may be said of each frame.                                           *)
Marked(f) ==
    /\ f.type = "accepted" <=> f.seq = 1
    /\ f.type # "delta" => f.size = 0
    /\ f.type = "error" => faulty
    /\ f.large => oversize
    /\ f.state = "malformed" => faulty

FramesMarked == \A i \in 1..Len(wire) : Marked(wire[i])

(* Only its fault, or the loss of its client, aborts an execution.           *)
Aborts ==
    /\ boundary.invalid => faulty
    /\ boundary.abort => faulty \/ cut
    /\ boundary.gone => cut

(* The end of a stream is under way until the client has read it.            *)
EndComes ==
    boundary.phase = "ended" /\ ~cut /\ Reading
    => /\ wire # <<>>
       /\ wire[Len(wire)].type \in {"terminal", "error"}

(* Whatever the client will have fits what the boundary has counted, and has *)
(* the research behind it.                                                   *)
Within(v, b) ==
    /\ v.draft <= b.chars
    /\ v.previews <= b.frames
    /\ v.previews > 0 => v.state = "resolution"

Foreseen ==
    Reading =>
    \E seen \in [0..Len(wire) -> View] :
        /\ Foresees(seen, wire, ViewOf(client))
        /\ \A i \in 0..Len(wire) : Within(seen[i], boundary)
        /\ executor.stage = "synthesizing" /\ ~boundary.abort /\ ~cut
           => seen[Len(wire)].state = "resolution"

Outcomes ==
    /\ EndsAgree /\ GoodTurnsSurvive /\ LossIsReal /\ DraftHasState
    /\ client.state = "malformed" => faulty

IInv ==
    /\ TypeOK /\ Counts /\ Places /\ Numbered /\ FramesMarked /\ Aborts
    /\ EndComes /\ Foreseen /\ Outcomes

-----------------------------------------------------------------------------
(* The types, one variable at a time. *)

Executors ==
    [stage : {"resolving", "synthesizing", "returning", "done"},
     phases : 0..MaxPhases, fragments : 0..MaxFragments,
     queued : 0..MaxChars, chars : 0..MaxChars, frames : 0..MaxFrames]

Boundaries ==
    [phase : {"waiting", "running", "ended", "refused"}, seq : Nat,
     abort : BOOLEAN, gone : BOOLEAN, invalid : BOOLEAN,
     chars : 0..MaxChars, frames : 0..MaxFrames]

Clients ==
    [phase : {"reading", "terminal", "failed", "interrupted"},
     last : Nat, events : 0..MaxEvents, draft : 0..MaxChars,
     previews : 0..MaxFrames, state : States, cancelled : BOOLEAN,
     error : {"none", "invalid_event", "turn_error", "invalid_terminal"}]

Typed(x, b, c, w) ==
    x \in Executors /\ b \in Boundaries /\ c \in Clients /\ w \in Seq(Frame)

(* Typed says of the four parts what TypeOK says of the state.               *)
LEMMA Types ==
    /\ TypeOK <=> /\ Typed(executor, boundary, client, wire)
                  /\ cut \in BOOLEAN /\ faulty \in BOOLEAN /\ oversize \in BOOLEAN
    /\ TypeOK' <=> /\ Typed(executor', boundary', client', wire')
                   /\ cut' \in BOOLEAN /\ faulty' \in BOOLEAN /\ oversize' \in BOOLEAN
BY DEF TypeOK, Typed, Executors, Boundaries, Clients

(* The numbers among the fields.                                             *)
LEMMA FieldTypes ==
    ASSUME TypeOK
    PROVE  /\ MaxFrames \in Nat /\ MaxChars \in Nat /\ MaxPhases \in Nat
           /\ MaxFragments \in Nat /\ MaxEvents \in Nat
           /\ executor.phases \in 0..MaxPhases /\ executor.fragments \in 0..MaxFragments
           /\ executor.queued \in 0..MaxChars /\ executor.chars \in 0..MaxChars
           /\ executor.frames \in 0..MaxFrames
           /\ boundary.seq \in Nat /\ boundary.chars \in 0..MaxChars
           /\ boundary.frames \in 0..MaxFrames
           /\ client.last \in Nat /\ client.events \in 0..MaxEvents
           /\ client.draft \in 0..MaxChars /\ client.previews \in 0..MaxFrames
BY LimitsAssumption DEF TypeOK

(* And their bounds.                                                         *)
LEMMA FieldBounds ==
    ASSUME TypeOK
    PROVE  /\ executor.phases \in Nat /\ executor.phases <= MaxPhases
           /\ executor.queued \in Nat /\ executor.chars \in Nat
           /\ boundary.chars \in Nat /\ boundary.chars <= MaxChars
           /\ boundary.frames \in Nat /\ boundary.frames <= MaxFrames
           /\ client.events \in Nat /\ client.events <= MaxEvents
           /\ client.draft \in Nat /\ client.draft <= MaxChars
           /\ client.previews \in Nat /\ client.previews <= MaxFrames
BY FieldTypes

-----------------------------------------------------------------------------
(* What is foreseen as frames are sent, received and lost. *)

(* What a frame changes is a view.                                           *)
LEMMA AfterType ==
    ASSUME NEW v \in View, NEW f \in Frame
    PROVE  After(v, f) \in View
BY DEF View, After, Frame

(* A frame that is sent is received last.                                    *)
LEMMA ForeseesAppend ==
    ASSUME NEW w \in Seq(Frame), NEW f \in Frame, NEW v \in View,
           NEW seen, Foresees(seen, w, v)
    PROVE  \E later \in [0..Len(Append(w, f)) -> View] :
               /\ Foresees(later, Append(w, f), v)
               /\ \A i \in 0..Len(w) : later[i] = seen[i]
               /\ later[Len(w) + 1] = After(seen[Len(w)], f)
<1> DEFINE n == Len(w)
           last == After(seen[n], f)
           later == [i \in 0..(n + 1) |-> IF i = n + 1 THEN last ELSE seen[i]]
<1>1. /\ n \in Nat
      /\ Len(Append(w, f)) = n + 1
      /\ \A i \in 1..n : Append(w, f)[i] = w[i]
      /\ Append(w, f)[n + 1] = f
  BY LenProperties, AppendProperties
<1>2. seen \in [0..n -> View] /\ seen[0] = v
      /\ \A i \in 1..n : seen[i] = After(seen[i - 1], w[i])
  BY DEF Foresees
<1>3. last \in View
  BY <1>1, <1>2, AfterType
<1> HIDE DEF last, n
<1>4. /\ later \in [0..(n + 1) -> View]
      /\ \A i \in 0..n : later[i] = seen[i]
      /\ later[n + 1] = last
  BY <1>1, <1>2, <1>3
<1> HIDE DEF later
<1>5. later[0] = v
  BY <1>1, <1>2, <1>4
<1>6. \A i \in 1..(n + 1) : later[i] = After(later[i - 1], Append(w, f)[i])
  <2> TAKE i \in 1..(n + 1)
  <2>1. CASE i = n + 1
    BY <2>1, <1>1, <1>4 DEF last
  <2>2. CASE i \in 1..n
    <3>1. later[i] = seen[i] /\ later[i - 1] = seen[i - 1]
      BY <2>2, <1>1, <1>4
    <3> QED
      BY <2>2, <3>1, <1>1, <1>2
  <2> QED
    BY <2>1, <2>2, <1>1
<1>7. Foresees(later, Append(w, f), v)
  BY <1>1, <1>4, <1>5, <1>6 DEF Foresees
<1> QED
  BY <1>1, <1>4, <1>7 DEF n, last

(* A frame that is received is no longer ahead.                              *)
LEMMA ForeseesTail ==
    ASSUME NEW w \in Seq(Frame), w # <<>>, NEW v \in View,
           NEW seen, Foresees(seen, w, v)
    PROVE  \E later \in [0..Len(Tail(w)) -> View] :
               /\ Foresees(later, Tail(w), After(v, Head(w)))
               /\ \A i \in 0..Len(Tail(w)) : later[i] = seen[i + 1]
<1> DEFINE n == Len(Tail(w))
           later == [i \in 0..n |-> seen[i + 1]]
<1>1. /\ n \in Nat /\ Len(w) = n + 1
      /\ \A i \in 1..n : Tail(w)[i] = w[i + 1]
      /\ Head(w) = w[1]
  BY LenProperties, HeadTailProperties, EmptySeq
<1>2. seen \in [0..(n + 1) -> View] /\ seen[0] = v
      /\ \A i \in 1..(n + 1) : seen[i] = After(seen[i - 1], w[i])
  BY <1>1 DEF Foresees
<1> HIDE DEF n
<1>3. /\ later \in [0..n -> View]
      /\ \A i \in 0..n : later[i] = seen[i + 1]
  BY <1>1, <1>2
<1> HIDE DEF later
<1>4. later[0] = After(v, Head(w))
  <2>1. seen[1] = After(seen[1 - 1], w[1])
    BY <1>1, <1>2
  <2> QED
    BY <2>1, <1>1, <1>2, <1>3
<1>5. \A i \in 1..n : later[i] = After(later[i - 1], Tail(w)[i])
  <2> TAKE i \in 1..n
  <2>1. later[i] = seen[i + 1] /\ later[i - 1] = seen[i]
    BY <1>1, <1>3
  <2>2. seen[i + 1] = After(seen[i], w[i + 1])
    BY <1>1, <1>2
  <2> QED
    BY <2>1, <2>2, <1>1
<1>6. Foresees(later, Tail(w), After(v, Head(w)))
  BY <1>3, <1>4, <1>5 DEF Foresees, n
<1> QED
  BY <1>3, <1>6 DEF n

(* The frames that are left when the last ones are lost.                     *)
LEMMA Prefix ==
    ASSUME NEW w \in Seq(Frame), NEW n \in 0..Len(w)
    PROVE  /\ SubSeq(w, 1, n) \in Seq(Frame)
           /\ Len(SubSeq(w, 1, n)) = n
           /\ \A i \in 1..n : SubSeq(w, 1, n)[i] = w[i]
<1>1. Len(w) \in Nat /\ \A i \in 1..n : w[i] \in Frame
  BY LenProperties, ElementOfSeq
<1>2. n \in Int /\ 1 \in Int /\ n - 1 + 1 = n
  BY <1>1
<1>3. /\ SubSeq(w, 1, n) \in Seq(Frame)
      /\ Len(SubSeq(w, 1, n)) = IF 1 <= n THEN n - 1 + 1 ELSE 0
      /\ \A i \in 1..(n - 1 + 1) : SubSeq(w, 1, n)[i] = w[1 + i - 1]
  BY <1>1, <1>2, SubSeqProperties
<1> QED
  BY <1>1, <1>2, <1>3

(* What is lost is not foreseen.                                             *)
LEMMA ForeseesPrefix ==
    ASSUME NEW w \in Seq(Frame), NEW n \in 0..Len(w), NEW v \in View,
           NEW seen, Foresees(seen, w, v)
    PROVE  \E later \in [0..n -> View] :
               /\ Foresees(later, SubSeq(w, 1, n), v)
               /\ \A i \in 0..n : later[i] = seen[i]
<1> DEFINE later == [i \in 0..n |-> seen[i]]
<1>1. Len(w) \in Nat
  BY LenProperties
<1>2. /\ SubSeq(w, 1, n) \in Seq(Frame)
      /\ Len(SubSeq(w, 1, n)) = n
      /\ \A i \in 1..n : SubSeq(w, 1, n)[i] = w[i]
  BY Prefix
<1>3. seen \in [0..Len(w) -> View] /\ seen[0] = v
      /\ \A i \in 1..Len(w) : seen[i] = After(seen[i - 1], w[i])
  BY DEF Foresees
<1>4. later \in [0..n -> View] /\ \A i \in 0..n : later[i] = seen[i]
  BY <1>1, <1>3
<1> HIDE DEF later
<1>5. later[0] = v
  BY <1>1, <1>3, <1>4
<1>6. \A i \in 1..n : later[i] = After(later[i - 1], SubSeq(w, 1, n)[i])
  <2> TAKE i \in 1..n
  <2>1. later[i] = seen[i] /\ later[i - 1] = seen[i - 1]
    BY <1>1, <1>4
  <2> QED
    BY <2>1, <1>1, <1>2, <1>3
<1>7. Foresees(later, SubSeq(w, 1, n), v)
  BY <1>2, <1>4, <1>5, <1>6 DEF Foresees
<1> QED
  BY <1>4, <1>7

-----------------------------------------------------------------------------
(* What the server's steps do to the invariant. *)

(* A frame that is written, to a connection that is cut or not.              *)
LEMMA SentFits ==
    ASSUME IInv, NEW f \in Frame, f.seq = boundary.seq,
           wire' = IF cut THEN wire ELSE Append(wire, f),
           UNCHANGED <<client, cut>>, faulty => faulty', oversize => oversize',
           boundary'.seq = boundary.seq + 1,
           boundary'.chars = boundary.chars + f.size,
           boundary'.frames = boundary.frames + One(f.type = "delta"),
           ~cut => Marked(f)',
           f.type = "delta" => executor.stage = "synthesizing" /\ ~boundary.abort,
           f.type = "state" => executor.stage = "resolving",
           executor'.stage = "synthesizing" /\ ~boundary'.abort
           => \/ executor.stage = "synthesizing" /\ ~boundary.abort
              \/ f.type = "state" /\ f.state = "resolution"
    PROVE  wire' \in Seq(Frame) /\ Numbered' /\ FramesMarked' /\ Foreseen'
<1> DEFINE n == Len(wire)
<1>1. /\ wire \in Seq(Frame) /\ n \in Nat /\ boundary.seq \in Nat /\ client.last \in Nat
      /\ boundary.chars \in Nat /\ boundary.frames \in Nat /\ f.size \in Nat
      /\ cut \in BOOLEAN /\ n = Len(wire)
  BY LenProperties, LimitsAssumption DEF IInv, TypeOK, Frame
<1>2. /\ Append(wire, f) \in Seq(Frame) /\ Len(Append(wire, f)) = n + 1
      /\ \A i \in 1..n : Append(wire, f)[i] = wire[i]
      /\ Append(wire, f)[n + 1] = f
  BY <1>1, AppendProperties
<1> HIDE DEF n
<1>3. wire' \in Seq(Frame)
  BY <1>1, <1>2
<1>4. Reading' <=> Reading
  BY DEF Reading
<1>5. Numbered'
  <2> SUFFICES ASSUME Reading
               PROVE  /\ client.events = client.last
                      /\ client.last + Len(wire') <= boundary.seq
                      /\ ~cut => client.last + Len(wire') = boundary.seq
                      /\ \A i \in 1..Len(wire') : wire'[i].seq = client.last + i
    <3>1. boundary'.seq - 1 = boundary.seq
      BY <1>1
    <3> QED
      BY <3>1, <1>4 DEF Numbered
  <2>1. /\ client.events = client.last
        /\ client.last + n <= boundary.seq - 1
        /\ ~cut => client.last + n = boundary.seq - 1
        /\ \A i \in 1..n : wire[i].seq = client.last + i
    BY <1>1 DEF IInv, Numbered
  <2>2. CASE cut
    BY <2>1, <2>2, <1>1
  <2>3. CASE ~cut
    <3>1. /\ Len(wire') = n + 1 /\ wire'[n + 1] = f
          /\ \A i \in 1..n : wire'[i] = wire[i]
      BY <2>3, <1>2
    <3>2. \A i \in 1..(n + 1) : i \in 1..n \/ i = n + 1
      BY <1>1
    <3>3. boundary.seq = client.last + (n + 1)
      <4>1. client.last + n = boundary.seq - 1
        BY <2>1, <2>3
      <4>2. boundary.seq \in Int /\ client.last \in Int /\ n \in Int
        BY <1>1
      <4>3. \A a, b, c \in Int : b + c = a - 1 => a = b + (c + 1)
        OBVIOUS
      <4> QED
        BY <4>1, <4>2, <4>3, Zenon
    <3>4. \A i \in 1..(n + 1) : wire'[i].seq = client.last + i
      BY <2>1, <3>1, <3>2, <3>3
    <3>5. \A i \in 1..Len(wire') : wire'[i].seq = client.last + i
      BY <3>1, <3>4
    <3>6. client.last + Len(wire') = boundary.seq
      BY <3>1, <3>3
    <3>7. client.last + Len(wire') <= boundary.seq
      BY <3>6, <1>1
    <3> QED
      BY <2>1, <3>5, <3>6, <3>7
  <2> QED
    BY <2>2, <2>3
<1>6. FramesMarked'
  <2>1. \A i \in 1..n : Marked(wire[i])'
    BY <1>1 DEF IInv, FramesMarked, Marked
  <2>2. CASE cut
    BY <2>1, <2>2, <1>1 DEF FramesMarked, Marked
  <2>3. CASE ~cut
    <3>1. \A i \in 1..(n + 1) : i \in 1..n \/ i = n + 1
      BY <1>1
    <3> QED
      BY <2>1, <2>3, <3>1, <1>1, <1>2 DEF FramesMarked, Marked
  <2> QED
    BY <2>2, <2>3
<1>7. Foreseen'
  <2> SUFFICES ASSUME Reading
               PROVE  \E later \in [0..Len(wire') -> View] :
                        /\ Foresees(later, wire', ViewOf(client))
                        /\ \A i \in 0..Len(wire') : Within(later[i], boundary')
                        /\ executor'.stage = "synthesizing" /\ ~boundary'.abort /\ ~cut
                           => later[Len(wire')].state = "resolution"
    BY <1>4 DEF Foreseen, ViewOf
  <2>1. PICK seen \in [0..n -> View] :
          /\ Foresees(seen, wire, ViewOf(client))
          /\ \A i \in 0..n : Within(seen[i], boundary)
          /\ executor.stage = "synthesizing" /\ ~boundary.abort /\ ~cut
             => seen[n].state = "resolution"
    BY <1>1 DEF IInv, Foreseen
  <2>2. \A v \in View : Within(v, boundary) => Within(v, boundary')
    BY <1>1 DEF Within, View, One
  <2>3. CASE cut
    BY <2>1, <2>2, <2>3, <1>1
  <2>4. CASE ~cut
    <3>1. ViewOf(client) \in View
      BY LimitsAssumption DEF IInv, TypeOK, ViewOf, View
    <3>2. PICK later \in [0..Len(Append(wire, f)) -> View] :
            /\ Foresees(later, Append(wire, f), ViewOf(client))
            /\ \A i \in 0..n : later[i] = seen[i]
            /\ later[n + 1] = After(seen[n], f)
      <4>1. Foresees(seen, wire, ViewOf(client))
        BY <2>1
      <4> QED
        BY <4>1, <1>1, <3>1, ForeseesAppend DEF n
    <3>3. seen[n] \in View /\ Within(seen[n], boundary)
      BY <1>1, <2>1
    <3>4. After(seen[n], f).state
            = IF f.type = "state" THEN f.state ELSE seen[n].state
      BY DEF After
    <3>5. Within(later[n + 1], boundary')
      <4>1. f.type = "state" => seen[n].previews = 0
        BY <3>3, <1>1 DEF Within, View, IInv, Counts
      <4>2. f.type = "delta" => seen[n].state = "resolution"
        BY <2>1, <2>4
      <4> DEFINE v == seen[n]
                 u == later[n + 1]
      <4>3. /\ u.draft = v.draft + f.size
            /\ u.previews = v.previews + One(f.type = "delta")
            /\ u.state = IF f.type = "state" THEN f.state ELSE v.state
        BY <3>2, <3>3, <1>1 DEF After, One, View
      <4>4. v.draft \in Nat /\ v.previews \in Nat /\ Within(v, boundary)
        BY <3>3 DEF View
      <4>5. One(f.type = "delta") \in {0, 1} /\ (One(f.type = "delta") = 1 => f.type = "delta")
        BY DEF One
      <4> HIDE DEF u, v
      <4>6. u.draft <= boundary'.chars /\ u.previews <= boundary'.frames
        BY <4>3, <4>4, <4>5, <1>1 DEF Within
      <4>7. u.previews > 0 => u.state = "resolution"
        BY <4>1, <4>2, <4>3, <4>4, <4>5, <1>1 DEF Within, v
      <4> QED
        BY <4>6, <4>7 DEF Within, u
    <3>6. \A i \in 0..(n + 1) : Within(later[i], boundary')
      <4>1. \A i \in 0..(n + 1) : i \in 0..n \/ i = n + 1
        BY <1>1
      <4>2. \A i \in 0..n : seen[i] \in View /\ Within(seen[i], boundary)
        BY <2>1
      <4>3. \A i \in 0..n : Within(later[i], boundary')
        BY <2>2, <3>2, <4>2
      <4> QED
        BY <4>1, <4>3, <3>2, <3>5
    <3>7. executor'.stage = "synthesizing" /\ ~boundary'.abort
          => later[n + 1].state = "resolution"
      BY <2>1, <2>4, <3>2, <3>4
    <3> QED
      BY <2>4, <3>2, <3>6, <3>7, <1>2
  <2> QED
    BY <2>3, <2>4
<1> QED
  BY <1>3, <1>5, <1>6, <1>7

(* A step that writes nothing.                                               *)
LEMMA UnsentFits ==
    ASSUME IInv, wire' = wire, UNCHANGED <<client, cut>>,
           faulty => faulty', oversize => oversize',
           boundary'.seq = boundary.seq, boundary'.chars = boundary.chars,
           boundary'.frames = boundary.frames,
           executor'.stage = "synthesizing" /\ ~boundary'.abort
           => executor.stage = "synthesizing" /\ ~boundary.abort
    PROVE  wire' \in Seq(Frame) /\ Numbered' /\ FramesMarked' /\ Foreseen'
<1>1. /\ wire \in Seq(Frame) /\ Len(wire) \in Nat /\ boundary.seq \in Nat
      /\ client.last \in Nat /\ cut \in BOOLEAN
  BY LenProperties DEF IInv, TypeOK
<1>2. Reading' <=> Reading
  BY DEF Reading
<1>3. Numbered'
  BY <1>1, <1>2 DEF IInv, Numbered
<1>4. FramesMarked'
  BY DEF IInv, FramesMarked, Marked
<1>5. Foreseen'
  <2>1. \A v \in View : Within(v, boundary') <=> Within(v, boundary)
    BY DEF Within
  <2>2. ASSUME Reading
        PROVE  \E seen \in [0..Len(wire) -> View] :
                 /\ Foresees(seen, wire, ViewOf(client))
                 /\ \A i \in 0..Len(wire) : Within(seen[i], boundary')
                 /\ executor'.stage = "synthesizing" /\ ~boundary'.abort /\ ~cut
                    => seen[Len(wire)].state = "resolution"
    <3>1. PICK seen \in [0..Len(wire) -> View] :
            /\ Foresees(seen, wire, ViewOf(client))
            /\ \A i \in 0..Len(wire) : Within(seen[i], boundary)
            /\ executor.stage = "synthesizing" /\ ~boundary.abort /\ ~cut
               => seen[Len(wire)].state = "resolution"
      BY <2>2 DEF IInv, Foreseen
    <3>2. \A i \in 0..Len(wire) : Within(seen[i], boundary')
      BY <2>1, <3>1
    <3> QED
      BY <3>1, <3>2
  <2> QED
    BY <2>2, <1>2 DEF Foreseen
<1> QED
  BY <1>1, <1>3, <1>4, <1>5

(* Write, as the steps below use it.                                         *)
LEMMA WriteFits ==
    ASSUME IInv,
           NEW type \in {"accepted", "progress", "state", "delta", "terminal", "error"},
           NEW size \in Nat, NEW state \in States, NEW large \in BOOLEAN,
           Write(type, size, state, large),
           UNCHANGED <<client, cut>>, faulty => faulty', oversize => oversize',
           boundary'.seq = boundary.seq + 1,
           boundary'.chars = boundary.chars + size,
           boundary'.frames = boundary.frames + One(type = "delta"),
           type = "accepted" <=> boundary.seq = 1,
           type # "delta" => size = 0,
           ~cut => (type = "error" => faulty'),
           large => oversize', state = "malformed" => faulty',
           type = "delta" => executor.stage = "synthesizing" /\ ~boundary.abort,
           type = "state" => executor.stage = "resolving",
           executor'.stage = "synthesizing" /\ ~boundary'.abort
           => \/ executor.stage = "synthesizing" /\ ~boundary.abort
              \/ type = "state" /\ state = "resolution"
    PROVE  /\ wire' \in Seq(Frame) /\ Numbered' /\ FramesMarked' /\ Foreseen'
           /\ ~cut => /\ wire' # <<>>
                      /\ wire'[Len(wire')].type = type
<1>1. wire \in Seq(Frame) /\ boundary.seq \in Nat /\ Len(wire) \in Nat
  BY LenProperties DEF IInv, TypeOK
<1>2. PICK f \in Frame : f = [type |-> type, seq |-> boundary.seq, size |-> size,
                             state |-> state, large |-> large]
  BY <1>1 DEF Frame
<1>3. /\ f.type = type /\ f.seq = boundary.seq /\ f.size = size
      /\ f.state = state /\ f.large = large
  BY <1>2
<1>4. wire' = IF cut THEN wire ELSE Append(wire, f)
  BY <1>2 DEF Write
<1>5. ~cut => Marked(f)'
  BY <1>3 DEF Marked
<1>6. wire' \in Seq(Frame) /\ Numbered' /\ FramesMarked' /\ Foreseen'
  BY <1>3, <1>4, <1>5, SentFits
<1>7. ~cut => wire' # <<>> /\ wire'[Len(wire')].type = type
  BY <1>1, <1>3, <1>4, AppendProperties
<1> QED
  BY <1>6, <1>7

(* What is left of the invariant when the client and the connection are not  *)
(* concerned.                                                                *)
LEMMA OutcomesKept ==
    ASSUME IInv, UNCHANGED <<client, cut>>,
           faulty => faulty', oversize => oversize',
           boundary.phase = "refused" => boundary'.phase = "refused"
    PROVE  Outcomes'
BY DEF IInv, Outcomes, EndsAgree, GoodTurnsSurvive, LossIsReal, DraftHasState

(* How far an execution is, in frames that are not previews.                 *)
Done(x) == x.phases + One(x.stage # "resolving")

(* The measure of an execution is a number.                                  *)
LEMMA DoneType ==
    ASSUME NEW x \in Executors
    PROVE  /\ x.phases \in Nat /\ x.chars \in Nat /\ x.queued \in Nat /\ x.frames \in Nat
           /\ Done(x) \in Nat
           /\ x.stage = "resolving" => Done(x) = x.phases
           /\ x.stage # "resolving" => Done(x) = x.phases + 1
<1>1. x.phases \in 0..MaxPhases /\ x.chars \in 0..MaxChars /\ x.queued \in 0..MaxChars
      /\ x.frames \in 0..MaxFrames
  BY DEF Executors
<1>2. x.phases \in Nat /\ x.chars \in Nat /\ x.queued \in Nat /\ x.frames \in Nat
  BY <1>1, LimitsAssumption
<1> QED
  BY <1>2 DEF Done, One

(* It grows with the phases and when the resolver is done.                   *)
LEMMA DoneGrows ==
    ASSUME NEW x \in Executors, NEW y \in Executors, y.phases = x.phases,
           y.stage = "resolving" => x.stage = "resolving"
    PROVE  Done(x) <= Done(y)
<1>1. x.phases \in Nat /\ One(x.stage # "resolving") \in {0, 1}
  BY DoneType DEF One
<1>2. One(x.stage # "resolving") <= One(y.stage # "resolving")
  BY DEF One
<1>3. One(y.stage # "resolving") \in {0, 1}
  BY DEF One
<1> QED
  BY <1>1, <1>2, <1>3 DEF Done

(* The boundary has numbered no frame the execution has not earned.          *)
LEMMA Room ==
    ASSUME TypeOK, Places, boundary.phase = "running"
    PROVE  boundary.seq <= 2 + Done(executor) + boundary.frames
<1>1. boundary.seq <= 1 + 1 + executor.phases + One(executor.stage # "resolving")
                      + boundary.frames + 0
  BY DEF Places, One
<1>2. /\ executor.phases \in Nat /\ One(executor.stage # "resolving") \in {0, 1}
      /\ boundary.frames \in Nat /\ boundary.seq \in Nat
  BY FieldTypes DEF One
<1> QED
  BY <1>1, <1>2 DEF Done

(* onSignal: it refuses nothing but what the executor should not have sent.  *)
LEMMA SignalKeeps ==
    ASSUME IInv, boundary.phase = "running",
           NEW type \in {"progress", "state", "delta"}, NEW size \in Nat,
           NEW state \in States, NEW large \in BOOLEAN, NEW valid \in BOOLEAN,
           OnSignal(type, size, state, large, valid),
           UNCHANGED <<client, cut>>, faulty' \in BOOLEAN, oversize' \in BOOLEAN,
           faulty => faulty', oversize => oversize',
           ~valid => faulty', large => oversize', state = "malformed" => faulty',
           type # "delta" => size = 0 /\ Done(executor) + 1 <= Done(executor'),
           type = "delta" => /\ executor.stage = "synthesizing"
                             /\ executor'.stage # "resolving"
                             /\ boundary.chars + size <= MaxChars,
           type = "state" => executor.stage = "resolving" /\ executor'.stage # "resolving",
           executor'.stage = "synthesizing"
           => executor.stage = "synthesizing" \/ (type = "state" /\ state = "resolution"),
           executor' \in Executors,
           executor'.chars + executor'.queued <= MaxChars,
           executor'.stage \in {"resolving", "synthesizing"}
           => /\ executor.stage \in {"resolving", "synthesizing"}
              /\ executor.chars + size <= executor'.chars,
           executor'.stage = "resolving" => executor.stage = "resolving",
           Done(executor) <= Done(executor')
    PROVE  IInv'
<1>1. /\ boundary \in Boundaries /\ client \in Clients /\ executor \in Executors
      /\ wire \in Seq(Frame) /\ boundary.seq >= 2
      /\ Counts /\ Aborts /\ Places
      /\ cut \in BOOLEAN /\ faulty \in BOOLEAN /\ oversize \in BOOLEAN
  BY Types DEF Typed, IInv, Places
<1>2. /\ MaxChars \in Nat /\ MaxFrames \in Nat /\ boundary.seq \in Nat
      /\ boundary.chars \in 0..MaxChars /\ boundary.frames \in 0..MaxFrames
      /\ boundary.abort \in BOOLEAN /\ boundary.gone \in BOOLEAN
      /\ boundary.invalid \in BOOLEAN
  BY <1>1, LimitsAssumption DEF Boundaries
<1>3. /\ Done(executor) \in Nat /\ Done(executor') \in Nat
      /\ executor.chars \in Nat /\ executor'.chars \in Nat
      /\ One(type = "delta") = IF type = "delta" THEN 1 ELSE 0
  BY <1>1, DoneType DEF One
<1>4. boundary.seq <= 2 + Done(executor) + boundary.frames
  BY Room DEF IInv
<1>5. ASSUME boundary' \in Boundaries, boundary'.phase = "running", boundary'.seq >= 2,
             wire' \in Seq(Frame), Numbered', FramesMarked', Foreseen', Aborts',
             boundary'.chars <= boundary.chars + size,
             boundary'.frames <= boundary.frames + One(type = "delta"),
             boundary'.seq <= 2 + Done(executor') + boundary'.frames
      PROVE  IInv'
  <2>1. TypeOK'
    BY <1>1, <1>5, Types DEF Typed
  <2>2. boundary'.seq \in Nat /\ boundary'.chars \in Nat /\ boundary'.frames \in Nat
    BY <1>5, <1>2 DEF Boundaries
  <2>3. Counts'
    <3>1. executor'.stage \in {"resolving", "synthesizing"}
          => boundary'.chars <= executor'.chars
      <4>1. executor'.stage \in {"resolving", "synthesizing"}
            => boundary.chars <= executor.chars /\ executor.chars + size <= executor'.chars
        BY <1>1 DEF Counts
      <4>2. boundary.chars \in Nat
        BY <1>2
      <4> QED
        BY <4>1, <4>2, <1>3, <1>5, <2>2, SMTT(30)
    <3>2. executor'.stage = "resolving" => boundary'.frames = 0
      BY <1>1, <1>2, <1>3, <1>5, <2>2 DEF Counts
    <3> QED
      BY <3>1, <3>2 DEF Counts
  <2>4. Places'
    <3>1. boundary'.seq <= 1 + 1 + executor'.phases + One(executor'.stage # "resolving")
                           + boundary'.frames + 0
      BY <1>5, <2>2, DoneType, SMTT(30) DEF One
    <3> QED
      BY <1>5, <3>1 DEF Places, One
  <2>5. EndComes' /\ Outcomes'
    BY <1>5, OutcomesKept DEF EndComes
  <2> QED
    BY <1>5, <2>1, <2>3, <2>4, <2>5 DEF IInv
<1>6. CASE UNCHANGED <<boundary, wire>> /\ (boundary.abort \/ type = "delta")
  <2>1. executor'.stage = "synthesizing" /\ ~boundary'.abort
        => executor.stage = "synthesizing" /\ ~boundary.abort
    BY <1>6
  <2>2. wire' \in Seq(Frame) /\ Numbered' /\ FramesMarked' /\ Foreseen'
    BY <1>6, <2>1, UnsentFits
  <2>3. Aborts'
    BY <1>1, <1>6 DEF Aborts
  <2>4. boundary'.seq <= 2 + Done(executor') + boundary'.frames
    BY <1>2, <1>3, <1>4, <1>6
  <2>5. /\ boundary'.chars <= boundary.chars + size
        /\ boundary'.frames <= boundary.frames + One(type = "delta")
    BY <1>2, <1>3, <1>6
  <2> QED
    BY <1>1, <1>5, <1>6, <2>2, <2>3, <2>4, <2>5
<1>7. CASE /\ ~valid
           /\ boundary' = [boundary EXCEPT !.invalid = TRUE, !.abort = TRUE]
           /\ UNCHANGED wire
  <2>1. /\ boundary'.phase = "running" /\ boundary'.seq = boundary.seq /\ boundary'.abort
        /\ boundary'.chars = boundary.chars /\ boundary'.frames = boundary.frames
        /\ boundary'.gone = boundary.gone /\ boundary' \in Boundaries
    BY <1>1, <1>7 DEF Boundaries
  <2>2. wire' \in Seq(Frame) /\ Numbered' /\ FramesMarked' /\ Foreseen'
    BY <1>7, <2>1, UnsentFits
  <2>3. Aborts'
    BY <1>1, <1>7, <2>1 DEF Aborts
  <2>4. boundary'.seq <= 2 + Done(executor') + boundary'.frames
    BY <1>2, <1>3, <1>4, <2>1
  <2>5. /\ boundary'.chars <= boundary.chars + size
        /\ boundary'.frames <= boundary.frames + One(type = "delta")
    BY <1>2, <1>3, <2>1
  <2> QED
    BY <1>1, <1>5, <2>1, <2>2, <2>3, <2>4, <2>5
<1>8. CASE /\ ~boundary.abort /\ (type = "delta" => ~PreviewFull)
           /\ Write(type, size, state, large)
           /\ boundary' = [boundary EXCEPT
                             !.seq = @ + 1, !.chars = @ + size,
                             !.frames = IF type = "delta" THEN @ + 1 ELSE @]
  <2>1. /\ boundary'.phase = "running" /\ boundary'.seq = boundary.seq + 1
        /\ boundary'.chars = boundary.chars + size
        /\ boundary'.frames = boundary.frames + One(type = "delta")
        /\ boundary'.abort = boundary.abort /\ boundary'.gone = boundary.gone
        /\ boundary'.invalid = boundary.invalid
    BY <1>1, <1>8 DEF One, Boundaries
  <2>2. ~(type = "accepted") /\ ~(type = "error") /\ boundary.seq # 1
    BY <1>1
  <2>3. wire' \in Seq(Frame) /\ Numbered' /\ FramesMarked' /\ Foreseen'
    BY <1>8, <2>1, <2>2, WriteFits
  <2>4. Aborts'
    BY <1>1, <2>1 DEF Aborts
  <2>5. boundary' \in Boundaries
    <3>1. boundary.chars + size \in 0..MaxChars
      BY <1>2, <1>1 DEF Boundaries
    <3>2. type = "delta" => boundary.frames + 1 \in 0..MaxFrames
      BY <1>2, <1>8 DEF PreviewFull
    <3>3. boundary.seq + 1 \in Nat
      BY <1>2
    <3>4. (IF type = "delta" THEN boundary.frames + 1 ELSE boundary.frames) \in 0..MaxFrames
      BY <1>2, <3>2
    <3> QED
      BY <1>1, <1>8, <3>1, <3>3, <3>4 DEF Boundaries
  <2>6. boundary'.seq <= 2 + Done(executor') + boundary'.frames
    BY <1>2, <1>3, <1>4, <2>1
  <2>7. boundary'.seq >= 2
    BY <1>1, <1>2, <2>1
  <2>8. /\ boundary'.chars <= boundary.chars + size
        /\ boundary'.frames <= boundary.frames + One(type = "delta")
    BY <1>2, <1>3, <2>1
  <2> QED
    BY <1>5, <2>1, <2>3, <2>4, <2>5, <2>6, <2>7, <2>8
<1>9. ~(type = "delta" /\ Overflows(size))
  BY <1>2 DEF Overflows
<1> QED
  BY <1>6, <1>7, <1>8, <1>9 DEF OnSignal

(* The request is accepted.                                                  *)
LEMMA AcceptKeeps == IInv /\ Accept => IInv'
<1> SUFFICES ASSUME IInv, Accept
             PROVE  IInv'
  OBVIOUS
<1>1. TypeOK /\ Counts /\ Places /\ Aborts /\ boundary.phase = "waiting" /\ boundary.seq = 1
  BY DEF IInv, Places, Accept
<1>2. /\ boundary' = [boundary EXCEPT !.phase = "running", !.seq = @ + 1]
      /\ UNCHANGED <<executor, cut, client, faulty, oversize>>
      /\ Write("accepted", 0, "none", FALSE)
  BY DEF Accept
<1>3. /\ boundary'.phase = "running" /\ boundary'.seq = 2 /\ boundary'.abort = boundary.abort
      /\ boundary'.chars = boundary.chars /\ boundary'.frames = boundary.frames
      /\ boundary'.invalid = boundary.invalid /\ boundary'.gone = boundary.gone
      /\ boundary.chars \in Nat /\ boundary.frames \in Nat
  BY <1>1, <1>2, LimitsAssumption DEF TypeOK
<1>4. wire' \in Seq(Frame) /\ Numbered' /\ FramesMarked' /\ Foreseen'
  <2>1. /\ boundary'.seq = boundary.seq + 1
        /\ boundary'.chars = boundary.chars + 0
        /\ boundary'.frames = boundary.frames + One("accepted" = "delta")
        /\ "none" \in States
    BY <1>1, <1>3 DEF One, States
  <2> QED
    BY <1>1, <1>2, <1>3, <2>1, WriteFits
<1>5. TypeOK'
  <2>1. boundary.seq + 1 \in Nat
    BY <1>1
  <2>2. boundary' \in Boundaries
    BY <1>1, <1>2, <2>1, Types DEF Typed, Boundaries
  <2> QED
    BY <1>1, <1>2, <1>4, <2>2, Types DEF Typed
<1>6. Counts' /\ Places' /\ Aborts'
  <2>1. executor.phases \in Nat
    BY <1>1, FieldTypes
  <2> QED
    BY <1>1, <1>2, <1>3, <2>1 DEF Counts, Places, Aborts, One
<1>7. EndComes' /\ Outcomes'
  BY <1>1, <1>2, <1>3, OutcomesKept DEF EndComes
<1> QED
  BY <1>4, <1>5, <1>6, <1>7 DEF IInv

(* A step of the boundary that neither writes nor counts.                    *)
LEMMA SilentKeeps ==
    ASSUME IInv, UNCHANGED <<executor, wire, cut, client, faulty, oversize>>,
           NEW phase \in {"waiting", "running", "ended", "refused"},
           NEW abort \in BOOLEAN, NEW gone \in BOOLEAN,
           boundary' = [boundary EXCEPT !.phase = phase, !.gone = gone, !.abort = abort],
           \/ boundary.phase = "waiting" /\ phase = "refused"
           \/ phase = boundary.phase,
           boundary.abort => abort,
           abort => boundary.abort \/ cut, gone => boundary.gone \/ cut
    PROVE  IInv'
<1>1. TypeOK /\ Counts /\ Places /\ Aborts /\ EndComes
  BY DEF IInv
<1>2. /\ boundary'.phase = phase /\ boundary'.seq = boundary.seq
      /\ boundary'.chars = boundary.chars /\ boundary'.frames = boundary.frames
      /\ boundary'.invalid = boundary.invalid
      /\ boundary'.abort = abort /\ boundary'.gone = gone
  BY <1>1 DEF TypeOK
<1>3. wire' \in Seq(Frame) /\ Numbered' /\ FramesMarked' /\ Foreseen'
  BY <1>2, UnsentFits
<1>4. TypeOK'
  <2>1. boundary' \in Boundaries
    BY <1>1, Types DEF Typed, Boundaries
  <2> QED
    BY <1>1, <1>3, <2>1, Types DEF Typed
<1>5. Counts' /\ Places' /\ Aborts'
  <2>1. /\ executor.phases \in Nat /\ boundary.frames \in Nat /\ boundary.seq \in Nat
        /\ boundary.chars \in Nat
    BY <1>1, FieldTypes
  <2>2. Counts'
    BY <1>1, <1>2 DEF Counts
  <2>3. Places'
    BY <1>1, <1>2, <2>1 DEF Places, One
  <2>4. Aborts'
    BY <1>1, <1>2 DEF Aborts
  <2> QED
    BY <2>2, <2>3, <2>4
<1>6. EndComes' /\ Outcomes'
  BY <1>1, <1>2, OutcomesKept DEF EndComes, Reading
<1> QED
  BY <1>3, <1>4, <1>5, <1>6 DEF IInv

(* A request that is refused never reaches the executor.                     *)
LEMMA RefuseKeeps == IInv /\ Refuse => IInv'
<1> SUFFICES ASSUME IInv, Refuse
             PROVE  IInv'
  OBVIOUS
<1>1. boundary' = [boundary EXCEPT !.phase = "refused", !.gone = boundary.gone,
                                   !.abort = boundary.abort]
      /\ boundary.abort \in BOOLEAN /\ boundary.gone \in BOOLEAN
  BY DEF IInv, TypeOK, Refuse
<1> QED
  BY <1>1, SilentKeeps DEF Refuse

(* The boundary notices that nobody reads any more.                          *)
LEMMA NoticeLossKeeps == IInv /\ NoticeLoss => IInv'
<1> SUFFICES ASSUME IInv, NoticeLoss
             PROVE  IInv'
  OBVIOUS
<1>1. boundary' = [boundary EXCEPT !.phase = boundary.phase, !.gone = TRUE, !.abort = TRUE]
      /\ boundary.phase \in {"waiting", "running", "ended", "refused"}
  BY DEF IInv, TypeOK, NoticeLoss
<1> QED
  BY <1>1, SilentKeeps DEF NoticeLoss

(* What a signal does, where the executor's own step fits.                   *)
LEMMA ProgressKeeps == IInv /\ Progress => IInv'
<1> SUFFICES ASSUME IInv, Progress
             PROVE  IInv'
  OBVIOUS
<1>1. TypeOK /\ Counts /\ Places /\ boundary.phase = "running"
      /\ executor.stage \in {"resolving", "synthesizing"} /\ executor.phases < MaxPhases
      /\ executor' = [executor EXCEPT !.phases = @ + 1]
      /\ UNCHANGED <<cut, client, oversize>>
  BY DEF IInv, Progress, Running
<1>2. PICK valid \in BOOLEAN : /\ OnSignal("progress", 0, "none", FALSE, valid)
                              /\ faulty' = (faulty \/ ~valid)
  BY DEF Progress
<1>3. /\ executor'.stage = executor.stage /\ executor'.phases = executor.phases + 1
      /\ executor'.chars = executor.chars /\ executor'.queued = executor.queued
      /\ executor' \in Executors
  <2>1. executor.phases + 1 \in 0..MaxPhases
    BY <1>1, FieldTypes
  <2> QED
    BY <1>1, <2>1, Types DEF Typed, Executors
<1>4. Done(executor) + 1 <= Done(executor')
  BY <1>1, <1>3, FieldTypes DEF Done, One
<1> DEFINE type == "progress"
<1>5. /\ type \in {"progress", "state", "delta"} /\ type # "delta" /\ type # "state"
      /\ OnSignal(type, 0, "none", FALSE, valid)
  BY <1>2
<1> HIDE DEF type
<1>6. /\ "none" \in States /\ 0 \in Nat /\ FALSE \in BOOLEAN
      /\ faulty' \in BOOLEAN /\ oversize' \in BOOLEAN
      /\ (faulty => faulty') /\ (oversize => oversize')
      /\ ~valid => faulty'
  BY <1>1, <1>2, Types DEF States
<1>7. /\ executor'.chars + executor'.queued <= MaxChars
      /\ executor.chars + 0 <= executor'.chars
      /\ Done(executor) <= Done(executor')
  BY <1>1, <1>3, <1>4, DoneType, Types DEF Counts, Typed
<1> QED
  BY <1>1, <1>2, <1>3, <1>4, <1>5, <1>6, <1>7, SignalKeeps

(* The research state goes out before synthesis begins.                      *)
LEMMA ResearchStateKeeps == IInv /\ ResearchState => IInv'
<1> SUFFICES ASSUME IInv, ResearchState
             PROVE  IInv'
  OBVIOUS
<1>1. PICK state \in States \ {"none"}, valid \in BOOLEAN, large \in BOOLEAN :
        /\ OnSignal("state", 0, state, large, valid)
        /\ faulty' = (faulty \/ ~valid \/ state = "malformed")
        /\ oversize' = (oversize \/ large)
        /\ executor' = [executor EXCEPT !.stage = StageAfter(state)]
  BY DEF ResearchState
<1>2. /\ TypeOK /\ Counts /\ boundary.phase = "running" /\ executor.stage = "resolving"
      /\ executor \in Executors /\ UNCHANGED <<cut, client>>
  BY Types DEF IInv, ResearchState, Running, Typed
<1>3. /\ StageAfter(state) \in {"synthesizing", "returning"}
      /\ StageAfter(state) = "synthesizing" => state = "resolution"
  BY DEF StageAfter
<1>4. /\ executor'.stage = StageAfter(state) /\ executor'.phases = executor.phases
      /\ executor'.chars = executor.chars /\ executor'.queued = executor.queued
      /\ executor' \in Executors
  BY <1>1, <1>2, <1>3 DEF Executors
<1>5. Done(executor') = Done(executor) + 1
  BY <1>2, <1>3, <1>4, DoneType
<1> DEFINE type == "state"
<1>6. /\ type \in {"progress", "state", "delta"} /\ type # "delta" /\ type = "state"
      /\ OnSignal(type, 0, state, large, valid)
  BY <1>1
<1> HIDE DEF type
<1>7. /\ state \in States /\ 0 \in Nat
      /\ faulty' \in BOOLEAN /\ oversize' \in BOOLEAN
      /\ (faulty => faulty') /\ (oversize => oversize')
      /\ (~valid => faulty') /\ (large => oversize')
      /\ (state = "malformed" => faulty')
  BY <1>1, <1>2, Types
<1>8. /\ executor'.chars + executor'.queued <= MaxChars
      /\ executor.chars + 0 <= executor'.chars
      /\ Done(executor) + 1 <= Done(executor') /\ Done(executor) <= Done(executor')
  BY <1>2, <1>4, <1>5, DoneType DEF Counts
<1>9. /\ executor'.stage # "resolving"
      /\ executor'.stage = "synthesizing" => state = "resolution"
  BY <1>3, <1>4
<1> QED
  BY <1>2, <1>4, <1>6, <1>7, <1>8, <1>9, SignalKeeps

(* What the executor does without a signal.                                  *)
LEMMA WorkKeeps ==
    ASSUME IInv, boundary.phase = "running",
           UNCHANGED <<boundary, wire, cut, client, faulty, oversize>>,
           executor' \in Executors,
           executor'.chars + executor'.queued <= MaxChars,
           executor.chars <= executor'.chars,
           executor'.stage = "resolving" => executor.stage = "resolving",
           executor'.stage = "synthesizing" => executor.stage = "synthesizing",
           Done(executor) <= Done(executor')
    PROVE  IInv'
<1>1. /\ TypeOK /\ Counts /\ Places /\ executor \in Executors /\ boundary \in Boundaries
      /\ boundary.seq \in Nat /\ boundary.frames \in Nat /\ boundary.chars \in Nat
  BY Types, FieldTypes, SMTT(30) DEF IInv, Typed
<1>2. wire' \in Seq(Frame) /\ Numbered' /\ FramesMarked' /\ Foreseen'
  BY UnsentFits
<1>3. TypeOK'
  BY <1>1, <1>2, Types DEF Typed
<1>4. Counts'
  BY <1>1, DoneType DEF Counts
<1>5. Places'
  <2>1. boundary.seq <= 2 + Done(executor) + boundary.frames
    BY <1>1, Room
  <2>2. /\ Done(executor) \in Nat /\ Done(executor') \in Nat /\ executor'.phases \in Nat
        /\ One(executor'.stage # "resolving") \in {0, 1}
    BY <1>1, DoneType DEF One
  <2>3. boundary.seq <= 2 + Done(executor') + boundary.frames
    BY <1>1, <2>1, <2>2
  <2>4. boundary.seq <= 1 + 1 + executor'.phases + One(executor'.stage # "resolving")
                        + boundary.frames + 0
    BY <1>1, <2>2, <2>3 DEF Done
  <2> QED
    BY <1>1, <2>4 DEF Places, One
<1>6. Aborts' /\ EndComes' /\ Outcomes'
  BY OutcomesKept DEF IInv, Aborts, EndComes, Reading
<1> QED
  BY <1>2, <1>3, <1>4, <1>5, <1>6 DEF IInv

(* A search has no state to send.                                            *)
LEMMA SearchReturnsKeeps == IInv /\ SearchReturns => IInv'
<1> SUFFICES ASSUME IInv, SearchReturns
             PROVE  IInv'
  OBVIOUS
<1>1. /\ TypeOK /\ Counts /\ executor \in Executors /\ executor.stage = "resolving"
      /\ boundary.phase = "running"
      /\ executor' = [executor EXCEPT !.stage = "returning"]
      /\ UNCHANGED <<boundary, wire, cut, client, faulty, oversize>>
  BY Types DEF IInv, SearchReturns, Running, Typed
<1>2. /\ executor'.stage = "returning" /\ executor'.phases = executor.phases
      /\ executor'.chars = executor.chars /\ executor'.queued = executor.queued
      /\ executor' \in Executors
  BY <1>1 DEF Executors
<1>3. /\ executor'.chars + executor'.queued <= MaxChars
      /\ executor.chars <= executor'.chars
  BY <1>1, <1>2, DoneType DEF Counts
<1>4. Done(executor) <= Done(executor')
  BY <1>1, <1>2, DoneGrows
<1> QED
  BY <1>1, <1>2, <1>3, <1>4, WorkKeeps

(* What is queued never exceeds the room that is left.                       *)
LEMMA FittingFits ==
    ASSUME TypeOK, Counts, NEW n \in FragmentSizes
    PROVE  /\ executor.queued + Fitting(n) \in Nat
           /\ executor.chars + (executor.queued + Fitting(n)) <= MaxChars
<1>1. n \in Nat
  BY LimitsAssumption
<1>2. /\ executor.chars \in Nat /\ executor.queued \in Nat /\ MaxChars \in Nat
      /\ executor.chars + executor.queued <= MaxChars
  BY FieldTypes DEF Counts
<1> QED
  BY <1>1, <1>2 DEF Fitting

(* A piece of the draft is kept back or sent as a preview.                   *)
LEMMA FragmentKeeps == IInv /\ Fragment => IInv'
<1> SUFFICES ASSUME IInv, Fragment
             PROVE  IInv'
  OBVIOUS
<1>1. /\ TypeOK /\ Counts /\ executor \in Executors /\ executor.stage = "synthesizing"
      /\ boundary.phase = "running" /\ executor.fragments < MaxFragments
      /\ executor.frames < MaxFrames
      /\ UNCHANGED <<cut, client, faulty, oversize>>
  BY Types DEF IInv, Fragment, Running, Typed
<1>2. PICK n \in FragmentSizes :
        LET queued == executor.queued + Fitting(n)
        IN \/ /\ Keeps(queued)
              /\ UNCHANGED <<boundary, wire>>
           \/ /\ OnSignal("delta", queued, "none", FALSE, queued <= MaxChars)
              /\ executor' = [executor EXCEPT
                                !.queued = 0, !.fragments = @ + 1,
                                !.chars = @ + queued, !.frames = @ + 1]
  BY DEF Fragment
<1> DEFINE queued == executor.queued + Fitting(n)
<1>3. queued \in Nat /\ executor.chars + queued <= MaxChars
  BY <1>1, FittingFits
<1>4. /\ \/ Keeps(queued) /\ UNCHANGED <<boundary, wire>>
         \/ /\ OnSignal("delta", queued, "none", FALSE, queued <= MaxChars)
            /\ executor' = [executor EXCEPT
                              !.queued = 0, !.fragments = @ + 1,
                              !.chars = @ + queued, !.frames = @ + 1]
  BY <1>2
<1> HIDE DEF queued
<1>5. /\ MaxChars \in Nat /\ executor.chars \in Nat /\ executor.phases \in Nat
      /\ queued \in 0..MaxChars
      /\ executor.chars + queued \in 0..MaxChars
      /\ executor.fragments + 1 \in 0..MaxFragments
      /\ executor.frames + 1 \in 0..MaxFrames /\ 0 \in 0..MaxChars
  BY <1>1, <1>3, FieldTypes
<1>6. CASE Keeps(queued) /\ UNCHANGED <<boundary, wire>>
  <2>1. executor' = [executor EXCEPT !.queued = queued, !.fragments = @ + 1]
    BY <1>6 DEF Keeps
  <2>2. /\ executor' \in Executors /\ executor'.stage = executor.stage
        /\ executor'.phases = executor.phases
        /\ executor'.chars = executor.chars /\ executor'.queued = queued
    BY <1>1, <1>5, <2>1 DEF Executors
  <2>3. Done(executor) <= Done(executor')
    BY <1>1, <2>2, DoneGrows
  <2>4. /\ executor'.chars + executor'.queued <= MaxChars
        /\ executor.chars <= executor'.chars
    BY <1>3, <1>5, <2>2
  <2> QED
    BY <1>1, <1>6, <2>2, <2>3, <2>4, WorkKeeps
<1>7. CASE /\ OnSignal("delta", queued, "none", FALSE, queued <= MaxChars)
           /\ executor' = [executor EXCEPT
                             !.queued = 0, !.fragments = @ + 1,
                             !.chars = @ + queued, !.frames = @ + 1]
  <2>1. /\ executor' \in Executors /\ executor'.stage = executor.stage
        /\ executor'.phases = executor.phases
        /\ executor'.chars = executor.chars + queued /\ executor'.queued = 0
    BY <1>1, <1>5, <1>7 DEF Executors
  <2>2. Done(executor) <= Done(executor')
    BY <1>1, <2>1, DoneGrows
  <2>3. /\ executor'.chars + executor'.queued <= MaxChars
        /\ executor.chars + queued <= executor'.chars
    BY <1>3, <1>5, <2>1
  <2>4. boundary.chars + queued <= MaxChars
    <3>1. boundary.chars <= executor.chars /\ boundary.chars \in Nat
      BY <1>1, FieldTypes DEF Counts
    <3> QED
      BY <3>1, <1>3, <1>5
  <2> DEFINE type == "delta"
             valid == queued <= MaxChars
  <2>5. /\ type \in {"progress", "state", "delta"} /\ type = "delta" /\ type # "state"
        /\ OnSignal(type, queued, "none", FALSE, valid)
    BY <1>7
  <2>6. valid \in BOOLEAN /\ valid
    BY <1>5
  <2> HIDE DEF type, valid
  <2>7. /\ "none" \in States /\ FALSE \in BOOLEAN
        /\ faulty' \in BOOLEAN /\ oversize' \in BOOLEAN
        /\ (faulty => faulty') /\ (oversize => oversize')
        /\ executor'.stage # "resolving"
    BY <1>1, <2>1, Types DEF States
  <2> QED
    BY <1>1, <1>3, <2>1, <2>2, <2>3, <2>4, <2>5, <2>6, <2>7, SignalKeeps
<1> QED
  BY <1>4, <1>6, <1>7

(* The rest of the draft is flushed when synthesis has ended.                *)
LEMMA SynthesizedKeeps == IInv /\ Synthesized => IInv'
<1> SUFFICES ASSUME IInv, Synthesized
             PROVE  IInv'
  OBVIOUS
<1>1. /\ TypeOK /\ Counts /\ executor \in Executors /\ executor.stage = "synthesizing"
      /\ boundary.phase = "running"
      /\ executor' = [executor EXCEPT !.stage = "returning", !.queued = 0]
      /\ UNCHANGED <<cut, client, faulty, oversize>>
  BY Types DEF IInv, Synthesized, Running, Typed
<1>2. /\ MaxChars \in Nat /\ executor.chars \in 0..MaxChars /\ executor.queued \in Nat
      /\ executor.chars + executor.queued <= MaxChars /\ 0 \in 0..MaxChars
      /\ boundary.chars <= executor.chars /\ boundary.chars \in Nat
  BY <1>1, FieldTypes DEF Counts
<1>3. /\ executor' \in Executors /\ executor'.stage = "returning"
      /\ executor'.phases = executor.phases
      /\ executor'.chars = executor.chars /\ executor'.queued = 0
  BY <1>1, <1>2 DEF Executors
<1>4. Done(executor) <= Done(executor')
  BY <1>1, <1>3, DoneGrows
<1>5. executor'.chars + executor'.queued <= MaxChars /\ executor.chars <= executor'.chars
  BY <1>2, <1>3
<1>6. CASE UNCHANGED <<boundary, wire>>
  BY <1>1, <1>3, <1>4, <1>5, <1>6, WorkKeeps
<1>7. CASE OnSignal("delta", executor.queued, "none", FALSE, TRUE)
  <2> DEFINE type == "delta"
             valid == TRUE
             size == executor.queued
  <2>1. /\ type \in {"progress", "state", "delta"} /\ type = "delta" /\ type # "state"
        /\ OnSignal(type, size, "none", FALSE, valid) /\ valid \in BOOLEAN /\ valid
    BY <1>7
  <2>3. size \in Nat /\ boundary.chars + size <= MaxChars
    BY <1>2
  <2> HIDE DEF type, valid, size
  <2>2. /\ "none" \in States /\ FALSE \in BOOLEAN
        /\ faulty' \in BOOLEAN /\ oversize' \in BOOLEAN
        /\ (faulty => faulty') /\ (oversize => oversize')
        /\ executor'.stage # "resolving" /\ executor'.stage # "synthesizing"
    BY <1>1, <1>3, Types DEF States
  <2> QED
    BY <1>1, <1>3, <1>4, <1>5, <2>1, <2>2, <2>3, SignalKeeps
<1> QED
  BY <1>6, <1>7 DEF Synthesized

(* The last frame of a stream: an error blames the execution, or goes        *)
(* nowhere.                                                                  *)
LEMMA EndKeeps ==
    ASSUME IInv, boundary.phase = "running",
           NEW type \in {"terminal", "error"}, NEW large \in BOOLEAN,
           End(type, large),
           executor' = [executor EXCEPT !.stage = "done"],
           UNCHANGED <<cut, client>>, faulty' \in BOOLEAN, oversize' \in BOOLEAN,
           faulty => faulty', oversize => oversize', large => oversize',
           ~cut => (type = "error" => faulty')
    PROVE  IInv'
<1>1. /\ TypeOK /\ Counts /\ Places /\ Aborts /\ executor \in Executors
      /\ boundary \in Boundaries /\ client \in Clients
      /\ boundary.seq \in Nat /\ boundary.seq >= 2 /\ boundary.frames \in Nat
      /\ boundary.chars \in Nat /\ cut \in BOOLEAN
  BY Types, FieldTypes DEF IInv, Typed, Places
<1>2. /\ boundary'.phase = "ended" /\ boundary'.seq = boundary.seq + 1
      /\ boundary'.chars = boundary.chars /\ boundary'.frames = boundary.frames
      /\ boundary'.abort = boundary.abort /\ boundary'.gone = boundary.gone
      /\ boundary'.invalid = boundary.invalid /\ boundary' \in Boundaries
      /\ Write(type, 0, "none", large)
  <2>1. boundary.seq + 1 \in Nat
    BY <1>1
  <2>2. /\ boundary' = [boundary EXCEPT !.phase = "ended", !.seq = boundary.seq + 1]
        /\ Write(type, 0, "none", large)
    BY DEF End
  <2>3. boundary' \in Boundaries
    BY <1>1, <2>1, <2>2 DEF Boundaries
  <2> QED
    BY <1>1, <2>2, <2>3 DEF Boundaries
<1>3. /\ executor' \in Executors /\ executor'.stage = "done"
      /\ executor'.phases = executor.phases
      /\ executor'.chars = executor.chars /\ executor'.queued = executor.queued
  BY <1>1 DEF Executors
<1>4. /\ wire' \in Seq(Frame) /\ Numbered' /\ FramesMarked' /\ Foreseen'
      /\ ~cut => wire' # <<>> /\ wire'[Len(wire')].type = type
  <2>1. /\ 0 \in Nat /\ "none" \in States
        /\ boundary'.chars = boundary.chars + 0
        /\ boundary'.frames = boundary.frames + One(type = "delta")
        /\ type # "accepted" /\ boundary.seq # 1 /\ type # "delta" /\ type # "state"
        /\ type \in {"accepted", "progress", "state", "delta", "terminal", "error"}
    BY <1>1, <1>2 DEF States, One
  <2> QED
    BY <2>1, <1>2, <1>3, WriteFits
<1>5. TypeOK'
  BY <1>1, <1>2, <1>3, <1>4, Types DEF Typed
<1>6. Counts'
  BY <1>1, <1>2, <1>3 DEF Counts
<1>7. Places'
  <2>1. boundary.seq <= 2 + Done(executor) + boundary.frames
    BY <1>1, Room
  <2>2. Done(executor) <= Done(executor')
    BY <1>1, <1>3, DoneGrows
  <2>3. Done(executor) \in Nat /\ Done(executor') \in Nat /\ executor'.phases \in Nat
    BY <1>1, <1>3, DoneType
  <2>4. Done(executor') = executor'.phases + 1
    BY <1>3, <2>3 DEF Done, One
  <2>5. boundary'.seq <= 1 + 1 + executor'.phases + 1 + boundary'.frames + 1
    BY <1>1, <1>2, <2>1, <2>2, <2>3, <2>4
  <2> QED
    BY <1>1, <1>2, <1>3, <2>5 DEF Places, One
<1>8. Aborts'
  BY <1>1, <1>2 DEF Aborts
<1>9. EndComes' /\ Outcomes'
  BY <1>2, <1>4, OutcomesKept DEF EndComes
<1> QED
  BY <1>4, <1>5, <1>6, <1>7, <1>8, <1>9 DEF IInv

(* The execution returns and the boundary sends its only terminal frame.     *)
LEMMA ReturnKeeps == IInv /\ Return => IInv'
<1> SUFFICES ASSUME IInv, Return
             PROVE  IInv'
  OBVIOUS
<1>1. PICK valid \in BOOLEAN, large \in BOOLEAN :
        /\ \/ TerminalStands(valid) /\ End("terminal", large)
           \/ ~TerminalStands(valid) /\ End("error", FALSE)
        /\ faulty' = (faulty \/ ~valid)
        /\ oversize' = (oversize \/ large)
  BY DEF Return
<1>2. /\ boundary.phase = "running" /\ executor' = [executor EXCEPT !.stage = "done"]
      /\ UNCHANGED <<cut, client>> /\ Aborts
      /\ faulty' \in BOOLEAN /\ oversize' \in BOOLEAN
      /\ (faulty => faulty') /\ (oversize => oversize')
  BY <1>1, Types DEF Return, Running, IInv
<1>3. CASE TerminalStands(valid) /\ End("terminal", large)
  <2> DEFINE type == "terminal"
  <2>1. End(type, large) /\ type \in {"terminal", "error"} /\ type # "error"
    BY <1>3
  <2> HIDE DEF type
  <2>2. large => oversize'
    BY <1>1
  <2> QED
    BY <1>2, <2>1, <2>2, EndKeeps
<1>4. CASE ~TerminalStands(valid) /\ End("error", FALSE)
  <2>1. ~cut => faulty'
    BY <1>1, <1>2, <1>4 DEF TerminalStands, Aborts
  <2>2. "error" \in {"terminal", "error"} /\ FALSE \in BOOLEAN /\ End("error", FALSE)
    BY <1>4
  <2> QED
    BY <1>2, <2>1, <2>2, EndKeeps
<1> QED
  BY <1>1, <1>3, <1>4

(* It throws, and the boundary sends an error or nothing.                    *)
LEMMA ThrowKeeps == IInv /\ Throw => IInv'
<1> SUFFICES ASSUME IInv, Throw
             PROVE  IInv'
  OBVIOUS
<1>1. /\ boundary.phase = "running" /\ executor' = [executor EXCEPT !.stage = "done"]
      /\ faulty' = (faulty \/ ~boundary.abort)
      /\ UNCHANGED <<cut, client, oversize>> /\ Aborts /\ TypeOK /\ Counts /\ Places
      /\ executor \in Executors /\ boundary \in Boundaries
      /\ faulty \in BOOLEAN /\ faulty' \in BOOLEAN /\ oversize' \in BOOLEAN
      /\ boundary.abort \in BOOLEAN
      /\ (faulty => faulty') /\ (oversize => oversize')
  BY Types DEF Throw, IInv, Typed, Boundaries
<1>2. CASE ~boundary.gone /\ End("error", FALSE)
  <2>1. ~cut => faulty'
    BY <1>1 DEF Aborts
  <2>2. "error" \in {"terminal", "error"} /\ FALSE \in BOOLEAN
    OBVIOUS
  <2> QED
    BY <1>1, <1>2, <2>1, <2>2, EndKeeps
<1>3. CASE boundary.gone /\ boundary' = [boundary EXCEPT !.phase = "ended"] /\ UNCHANGED wire
  <2>1. /\ boundary'.phase = "ended" /\ boundary'.seq = boundary.seq
        /\ boundary'.chars = boundary.chars /\ boundary'.frames = boundary.frames
        /\ boundary'.abort = boundary.abort /\ boundary'.gone = boundary.gone
        /\ boundary'.invalid = boundary.invalid /\ boundary' \in Boundaries
        /\ cut
    BY <1>1, <1>3 DEF Boundaries, Aborts
  <2>2. /\ executor' \in Executors /\ executor'.stage = "done"
        /\ executor'.phases = executor.phases
        /\ executor'.chars = executor.chars /\ executor'.queued = executor.queued
    BY <1>1 DEF Executors
  <2>3. wire' \in Seq(Frame) /\ Numbered' /\ FramesMarked' /\ Foreseen'
    BY <1>1, <1>3, <2>1, <2>2, UnsentFits
  <2>4. TypeOK'
    BY <1>1, <2>1, <2>2, <2>3, Types DEF Typed
  <2>5. Counts' /\ Aborts'
    BY <1>1, <2>1, <2>2 DEF Counts, Aborts
  <2>6. Places'
    <3>1. boundary.seq <= 2 + Done(executor) + boundary.frames
      BY <1>1, Room
    <3>2. Done(executor) <= Done(executor')
      BY <1>1, <2>2, DoneGrows
    <3>3. /\ Done(executor) \in Nat /\ Done(executor') \in Nat /\ executor'.phases \in Nat
          /\ boundary.seq \in Nat /\ boundary.frames \in Nat
      BY <1>1, <2>2, DoneType, FieldTypes
    <3>4. Done(executor') = executor'.phases + 1
      BY <2>2, <3>3 DEF Done, One
    <3>5. boundary'.seq <= 1 + 1 + executor'.phases + 1 + boundary'.frames + 1
      BY <2>1, <3>1, <3>2, <3>3, <3>4
    <3> QED
      BY <1>1, <2>1, <2>2, <3>5 DEF Places, One
  <2>7. EndComes' /\ Outcomes'
    BY <1>1, <2>1, OutcomesKept DEF EndComes
  <2> QED
    BY <2>3, <2>4, <2>5, <2>6, <2>7 DEF IInv
<1> QED
  BY <1>2, <1>3 DEF Throw

-----------------------------------------------------------------------------
(* What the connection and the client do to it. *)

(* Nothing is left to show of a client that has stopped reading but how it   *)
(* came to.                                                                  *)
LEMMA StoppedKeeps ==
    ASSUME IInv, UNCHANGED <<executor, boundary, faulty, oversize>>,
           wire' \in Seq(Frame), FramesMarked', client' \in Clients, cut' \in BOOLEAN,
           cut => cut', ~Reading', Outcomes'
    PROVE  IInv'
<1>1. TypeOK'
  BY Types DEF IInv, Typed
<1>2. Counts' /\ Places' /\ Aborts'
  BY DEF IInv, Counts, Places, Aborts
<1>3. Numbered' /\ EndComes' /\ Foreseen'
  BY DEF Numbered, EndComes, Foreseen
<1> QED
  BY <1>1, <1>2, <1>3 DEF IInv

(* The connection breaks and takes the last frames with it; what has been    *)
(* received stays as it was.                                                 *)
LEMMA BreakKeeps == IInv /\ Break => IInv'
<1> SUFFICES ASSUME IInv, Break
             PROVE  IInv'
  OBVIOUS
<1>1. PICK n \in 0..Len(wire) : wire' = SubSeq(wire, 1, n)
  BY DEF Break
<1>2. /\ UNCHANGED <<executor, boundary, client, faulty, oversize>> /\ cut'
      /\ cut' \in BOOLEAN
      /\ TypeOK /\ wire \in Seq(Frame) /\ Len(wire) \in Nat /\ n \in Nat
      /\ client \in Clients /\ client.last \in Nat /\ boundary.seq \in Nat
  BY Types, FieldTypes, LenProperties DEF Break, IInv, Typed
<1>3. ViewOf(client) \in View
  BY <1>2, FieldTypes, LimitsAssumption DEF Clients, ViewOf, View
<1>4. /\ wire' \in Seq(Frame) /\ Len(wire') = n
      /\ \A i \in 1..n : wire'[i] = wire[i]
  BY <1>1, <1>2, Prefix
<1>5. FramesMarked'
  BY <1>2, <1>4 DEF IInv, FramesMarked, Marked
<1>6. Reading' <=> Reading
  BY <1>2 DEF Reading
<1>7. Numbered'
  <2>1. ASSUME Reading
        PROVE  /\ client.events = client.last
               /\ client.last + n <= boundary.seq - 1
               /\ \A i \in 1..n : wire'[i].seq = client.last + i
    <3>1. /\ client.events = client.last
          /\ client.last + Len(wire) <= boundary.seq - 1
          /\ \A i \in 1..Len(wire) : wire[i].seq = client.last + i
      BY <2>1 DEF IInv, Numbered
    <3>2. n <= Len(wire) /\ \A i \in 1..n : i \in 1..Len(wire)
      BY <1>2
    <3>3. client.last + n <= boundary.seq - 1
      BY <3>1, <3>2, <1>2
    <3>4. \A i \in 1..n : wire'[i].seq = client.last + i
      BY <3>1, <3>2, <1>4
    <3> QED
      BY <3>1, <3>3, <3>4
  <2> QED
    BY <2>1, <1>2, <1>4, <1>6 DEF Numbered
<1>8. Foreseen'
  <2>1. ASSUME Reading
        PROVE  \E later \in [0..n -> View] :
                 /\ Foresees(later, wire', ViewOf(client))
                 /\ \A i \in 0..n : Within(later[i], boundary)
    <3>1. PICK seen \in [0..Len(wire) -> View] :
            /\ Foresees(seen, wire, ViewOf(client))
            /\ \A i \in 0..Len(wire) : Within(seen[i], boundary)
      BY <2>1 DEF IInv, Foreseen
    <3>2. PICK later \in [0..n -> View] :
            /\ Foresees(later, wire', ViewOf(client))
            /\ \A i \in 0..n : later[i] = seen[i]
      <4>1. \E later \in [0..n -> View] :
              /\ Foresees(later, SubSeq(wire, 1, n), ViewOf(client))
              /\ \A i \in 0..n : later[i] = seen[i]
        <5>1. n \in 0..Len(wire) /\ wire \in Seq(Frame) /\ ViewOf(client) \in View
          BY <1>1, <1>2, <1>3
        <5>2. Foresees(seen, wire, ViewOf(client))
          BY <3>1
        <5> QED
          BY <5>1, <5>2, ForeseesPrefix
      <4> QED
        BY <4>1, <1>1
    <3> QED
      BY <1>2, <3>1, <3>2
  <2> QED
    BY <2>1, <1>2, <1>4, <1>6 DEF Foreseen
<1>9. TypeOK' /\ Counts' /\ Places' /\ Aborts' /\ EndComes' /\ Outcomes'
  <2>1. TypeOK'
    BY <1>2, <1>4, Types DEF Typed
  <2>2. Counts' /\ Places' /\ Aborts' /\ EndComes'
    BY <1>2 DEF IInv, Counts, Places, Aborts, EndComes
  <2>3. Outcomes'
    BY <1>2 DEF IInv, Outcomes, EndsAgree, GoodTurnsSurvive, LossIsReal, DraftHasState
  <2> QED
    BY <2>1, <2>2, <2>3
<1> QED
  BY <1>5, <1>7, <1>8, <1>9 DEF IInv

(* The user cancels.                                                         *)
LEMMA CancelKeeps == IInv /\ Cancel => IInv'
<1> SUFFICES ASSUME IInv, Cancel
             PROVE  IInv'
  OBVIOUS
<1>1. /\ UNCHANGED <<executor, boundary, wire, faulty, oversize>> /\ cut'
      /\ client' = [client EXCEPT !.cancelled = TRUE, !.draft = 0]
      /\ client.phase = "reading" /\ cut' \in BOOLEAN
      /\ TypeOK /\ FramesMarked /\ client \in Clients /\ wire \in Seq(Frame)
  BY Types DEF Cancel, IInv, Typed
<1>2. /\ client'.phase = "reading" /\ client'.cancelled /\ client'.error = client.error
      /\ client'.previews = client.previews /\ client'.state = client.state
  BY <1>1 DEF Clients
<1>3. client' \in Clients
  <2>1. 0 \in 0..MaxChars
    BY LimitsAssumption
  <2> QED
    BY <1>1, <2>1 DEF Clients
<1>4. Outcomes'
  BY <1>1, <1>2 DEF IInv, Outcomes, EndsAgree, GoodTurnsSurvive, LossIsReal, DraftHasState
<1>5. FramesMarked' /\ ~Reading'
  BY <1>1, <1>2 DEF FramesMarked, Marked, Reading
<1> QED
  BY <1>1, <1>3, <1>4, <1>5, StoppedKeeps

(* finishInterruption, where its cause is real.                              *)
LEMMA InterruptionKeeps ==
    ASSUME IInv, Interruption, client.phase = "reading",
           UNCHANGED <<executor, boundary, wire, cut, faulty, oversize>>,
           client.cancelled \/ cut \/ boundary.phase = "refused" \/ oversize
    PROVE  IInv'
<1>1. /\ TypeOK /\ FramesMarked /\ client \in Clients /\ wire \in Seq(Frame)
      /\ cut' \in BOOLEAN /\ Kept(client.state) \in States
      /\ client.state = "resolution" => Kept(client.state) = "resolution"
  BY Types DEF IInv, Typed, Clients, Kept, States
<1>2. 0 \in 0..MaxChars /\ 0 \in 0..MaxEvents
  BY LimitsAssumption
<1>3. CASE /\ client.state # "malformed"
           /\ client' = [client EXCEPT !.phase = "interrupted", !.draft = 0,
                                       !.state = Kept(client.state), !.events = 0]
  <2>1. /\ client'.phase = "interrupted" /\ client'.cancelled = client.cancelled
        /\ client'.error = client.error
        /\ client'.previews = client.previews /\ client'.state = Kept(client.state)
    BY <1>1, <1>3 DEF Clients
  <2>2. client' \in Clients
    BY <1>1, <1>2, <1>3 DEF Clients
  <2>3. Kept(client.state) # "malformed"
    BY <1>3 DEF Kept
  <2>4. Outcomes'
    BY <1>1, <2>1, <2>3
       DEF IInv, Outcomes, EndsAgree, GoodTurnsSurvive, LossIsReal, DraftHasState
  <2>5. FramesMarked' /\ ~Reading'
    BY <1>1, <2>1 DEF FramesMarked, Marked, Reading
  <2> QED
    BY <1>1, <2>2, <2>4, <2>5, StoppedKeeps
<1>4. CASE /\ client.state = "malformed"
           /\ client' = [client EXCEPT !.phase = "failed", !.error = "invalid_terminal",
                                       !.draft = 0, !.events = 0]
  <2>1. /\ client'.phase = "failed" /\ client'.error = "invalid_terminal"
        /\ client'.previews = client.previews /\ client'.state = client.state
    BY <1>1, <1>4 DEF Clients
  <2>2. client' \in Clients
    BY <1>1, <1>2, <1>4 DEF Clients
  <2>3. Outcomes'
    BY <1>1, <1>4, <2>1
       DEF IInv, Outcomes, EndsAgree, GoodTurnsSurvive, LossIsReal, DraftHasState
  <2>4. FramesMarked' /\ ~Reading'
    BY <1>1, <2>1 DEF FramesMarked, Marked, Reading
  <2> QED
    BY <1>1, <2>2, <2>3, <2>4, StoppedKeeps
<1> QED
  BY <1>3, <1>4 DEF Interruption

(* A frame that does not parse ends the reading.                             *)
LEMMA ParseFailsKeeps == IInv /\ ParseFails => IInv'
<1> SUFFICES ASSUME IInv, ParseFails
             PROVE  IInv'
  OBVIOUS
<1>1. wire \in Seq(Frame)
  BY Types DEF IInv, Typed
<1>2. oversize
  <2>1. PICK i \in 1..Len(wire) : wire[i].large
    BY <1>1, LenProperties DEF ParseFails
  <2> QED
    BY <2>1 DEF IInv, FramesMarked, Marked
<1> QED
  BY <1>2, InterruptionKeeps DEF ParseFails, Reading

(* The stream is over without a terminal frame.                              *)
LEMMA InterruptedKeeps == IInv /\ Interrupted => IInv'
<1> SUFFICES ASSUME IInv, Interrupted
             PROVE  IInv'
  OBVIOUS
<1>1. client.cancelled \/ cut \/ boundary.phase = "refused"
  BY DEF Interrupted, Over, IInv, EndComes, Reading
<1> QED
  BY <1>1, InterruptionKeeps DEF Interrupted

(* What is foreseen of the frame that is next.                               *)
LEMMA NextSeen ==
    ASSUME IInv, Reading, wire # <<>>
    PROVE  /\ After(ViewOf(client), Head(wire)) \in View
           /\ Within(After(ViewOf(client), Head(wire)), boundary)
<1>1. /\ TypeOK /\ wire \in Seq(Frame) /\ Len(wire) \in Nat /\ Len(wire) # 0
      /\ Head(wire) = wire[1]
  BY Types, LenProperties, EmptySeq, HeadTailProperties DEF IInv, Typed
<1>2. PICK seen \in [0..Len(wire) -> View] :
        /\ Foresees(seen, wire, ViewOf(client))
        /\ \A i \in 0..Len(wire) : Within(seen[i], boundary)
  BY DEF IInv, Foreseen
<1>3. 0 \in 0..Len(wire) /\ 1 \in 0..Len(wire) /\ 1 \in 1..Len(wire) /\ 1 - 1 = 0
  BY <1>1
<1>4. seen[1] = After(seen[1 - 1], wire[1]) /\ seen[0] = ViewOf(client)
  BY <1>2, <1>3 DEF Foresees
<1>5. seen[1] = After(ViewOf(client), Head(wire))
  BY <1>1, <1>3, <1>4
<1> QED
  BY <1>2, <1>3, <1>5

(* The client expects every frame it is given.                               *)
LEMMA FramesExpected ==
    ASSUME IInv, Reading, wire # <<>>
    PROVE  /\ Head(wire) \in Frame /\ Marked(Head(wire)) /\ Expected(Head(wire))
           /\ Head(wire).seq = client.last + 1
<1> DEFINE f == Head(wire)
<1>1. /\ TypeOK /\ wire \in Seq(Frame) /\ Len(wire) \in Nat /\ Len(wire) >= 1
      /\ f \in Frame /\ f = wire[1] /\ 1 \in 1..Len(wire)
      /\ client.last \in Nat /\ boundary.seq \in Nat
  BY Types, FieldTypes, LenProperties, EmptySeq, HeadTailProperties DEF IInv, Typed
<1>2. Marked(f)
  BY <1>1 DEF IInv, FramesMarked
<1>3. /\ f.seq = client.last + 1 /\ client.events = client.last
      /\ client.last + Len(wire) <= boundary.seq - 1
  BY <1>1 DEF IInv, Numbered
<1>4. client.events < MaxEvents
  <2>1. /\ executor.phases \in Nat /\ executor.phases <= MaxPhases
        /\ boundary.frames \in Nat /\ boundary.frames <= MaxFrames
        /\ MaxPhases \in Nat /\ MaxFrames \in Nat /\ MaxEvents \in Nat
        /\ MaxEvents >= MaxFrames + MaxPhases + 3
    BY <1>1, FieldTypes, FieldBounds, LimitsAssumption
  <2>2. /\ One(boundary.phase # "waiting") \in {0, 1}
        /\ One(executor.stage # "resolving") \in {0, 1}
        /\ One(boundary.phase = "ended") \in {0, 1}
    BY DEF One
  <2>3. boundary.seq <= 1 + One(boundary.phase # "waiting") + executor.phases
                        + One(executor.stage # "resolving") + boundary.frames
                        + One(boundary.phase = "ended")
    BY DEF IInv, Places
  <2>4. boundary.seq <= MaxFrames + MaxPhases + 4
    <3> DEFINE a == One(boundary.phase # "waiting")
               b == One(executor.stage # "resolving")
               c == One(boundary.phase = "ended")
    <3>1. a \in {0, 1} /\ b \in {0, 1} /\ c \in {0, 1}
      BY <2>2
    <3>2. boundary.seq <= 1 + a + executor.phases + b + boundary.frames + c
      BY <2>3
    <3> HIDE DEF a, b, c
    <3>3. 1 + a + executor.phases + b + boundary.frames + c <= MaxFrames + MaxPhases + 4
      BY <2>1, <3>1
    <3>4. /\ boundary.seq \in Int /\ MaxFrames + MaxPhases + 4 \in Int
          /\ 1 + a + executor.phases + b + boundary.frames + c \in Int
      BY <1>1, <2>1, <3>1
    <3>5. \A x, y, z \in Int : x <= y /\ y <= z => x <= z
      OBVIOUS
    <3> QED
      BY <3>2, <3>3, <3>4, <3>5, Zenon
  <2> QED
    BY <1>1, <1>3, <2>1, <2>4
<1>5. f.type = "delta" => DraftFits(f)
  <2>1. /\ After(ViewOf(client), f) \in View
        /\ Within(After(ViewOf(client), f), boundary)
    BY NextSeen
  <2>2. /\ After(ViewOf(client), f).draft = client.draft + f.size
        /\ f.type = "delta" => After(ViewOf(client), f).previews = client.previews + 1
    BY DEF After, ViewOf
  <2>3. /\ boundary.chars \in Nat /\ boundary.chars <= MaxChars
        /\ boundary.frames \in Nat /\ boundary.frames <= MaxFrames
        /\ MaxChars \in Nat /\ MaxFrames \in Nat /\ client.previews \in Nat
        /\ client.draft \in Nat
    BY <1>1, FieldTypes, FieldBounds
  <2>8. f.size \in Nat
    BY <1>1 DEF Frame
  <2>4. client.draft + f.size <= boundary.chars
    BY <2>1, <2>2 DEF Within
  <2>5. f.type = "delta" => client.previews + 1 <= boundary.frames
    BY <2>1, <2>2 DEF Within
  <2>6. client.draft + f.size <= MaxChars
    BY <2>3, <2>4, <2>8
  <2>7. f.type = "delta" => client.previews < MaxFrames
    BY <2>3, <2>5
  <2> QED
    BY <2>6, <2>7 DEF DraftFits
<1>6. (client.last = 0) <=> (f.type = "accepted")
  <2>1. (client.last = 0) <=> (f.seq = 1)
    BY <1>1, <1>3
  <2> QED
    BY <1>2, <2>1 DEF Marked
<1> QED
  BY <1>1, <1>2, <1>3, <1>4, <1>5, <1>6 DEF Expected

(* A frame is received: in sequence it is accepted, and the bounds on events *)
(* and draft are those the server keeps.                                     *)
LEMMA ReceiveKeeps == IInv /\ Receive => IInv'
<1> SUFFICES ASSUME IInv, Receive
             PROVE  IInv'
  OBVIOUS
<1> DEFINE f == Head(wire)
           n == Len(wire)
<1>1. /\ Reading /\ wire # <<>> /\ wire' = Tail(wire)
      /\ UNCHANGED <<executor, boundary, faulty, oversize>>
  BY DEF Receive
<1>2. /\ f \in Frame /\ Marked(f) /\ Expected(f) /\ f.seq = client.last + 1
  BY <1>1, FramesExpected
<1>3. /\ TypeOK /\ client \in Clients /\ wire \in Seq(Frame) /\ n \in Nat /\ n >= 1
      /\ wire' \in Seq(Frame) /\ Len(wire') = n - 1 /\ f = wire[1]
      /\ \A i \in 1..(n - 1) : wire'[i] = wire[i + 1]
      /\ cut \in BOOLEAN /\ client.last \in Nat /\ client.events \in Nat
      /\ client.draft \in Nat /\ client.previews \in Nat
      /\ f.size \in Nat /\ boundary.seq \in Nat
  <2>1. /\ TypeOK /\ client \in Clients /\ wire \in Seq(Frame) /\ cut \in BOOLEAN
    BY Types DEF IInv, Typed
  <2>2. /\ client.last \in Nat /\ client.events \in Nat
        /\ client.draft \in Nat /\ client.previews \in Nat /\ boundary.seq \in Nat
    BY <2>1, FieldTypes, FieldBounds
  <2>3. n \in Nat /\ n >= 1
    BY <1>1, <2>1, LenProperties, EmptySeq
  <2>4. /\ Tail(wire) \in Seq(Frame) /\ Len(Tail(wire)) = n - 1 /\ f = wire[1]
        /\ \A i \in 1..Len(Tail(wire)) : Tail(wire)[i] = wire[i + 1]
    BY <1>1, <2>1, HeadTailProperties
  <2>5. f.size \in Nat
    BY <1>2 DEF Frame
  <2> QED
    BY <1>1, <2>1, <2>2, <2>3, <2>4, <2>5
<1>4. FramesMarked'
  BY <1>1, <1>3 DEF IInv, FramesMarked, Marked
<1>5. /\ 0 \in 0..MaxChars /\ 0 \in 0..MaxEvents
  BY LimitsAssumption
<1>6. CASE f.type = "error" /\ Fail("turn_error")
  <2>1. /\ client' = [client EXCEPT !.phase = "failed", !.error = "turn_error",
                                    !.draft = 0, !.events = 0]
        /\ cut' = TRUE
    BY <1>6 DEF Fail
  <2>2. /\ client'.phase = "failed" /\ client'.error = "turn_error"
        /\ client'.previews = client.previews /\ client'.state = client.state
        /\ client' \in Clients
    BY <1>3, <1>5, <2>1 DEF Clients
  <2>3. Outcomes'
    BY <1>1, <1>2, <1>6, <2>2
       DEF IInv, Marked, Outcomes, EndsAgree, GoodTurnsSurvive, LossIsReal, DraftHasState
  <2>4. ~Reading'
    BY <2>2 DEF Reading
  <2> QED
    BY <1>1, <1>3, <1>4, <2>1, <2>2, <2>3, <2>4, StoppedKeeps
<1>7. CASE /\ f.type # "error"
           /\ client' = [client EXCEPT
                 !.last = f.seq, !.events = @ + 1, !.draft = @ + f.size,
                 !.previews = IF f.type = "delta" THEN @ + 1 ELSE @,
                 !.state = IF f.type = "state" THEN f.state ELSE @,
                 !.phase = IF f.type = "terminal" THEN "terminal" ELSE @]
           /\ UNCHANGED cut
  <2>1. /\ client'.last = client.last + 1 /\ client'.events = client.events + 1
        /\ client'.draft = client.draft + f.size
        /\ client'.previews = IF f.type = "delta" THEN client.previews + 1 ELSE client.previews
        /\ client'.state = IF f.type = "state" THEN f.state ELSE client.state
        /\ client'.phase = IF f.type = "terminal" THEN "terminal" ELSE "reading"
        /\ ~client'.cancelled /\ client'.error = client.error
    BY <1>1, <1>2, <1>3, <1>7 DEF Clients, Reading
  <2>2. client' \in Clients
    <3>1. client.events + 1 \in 0..MaxEvents
      <4>1. client.events < MaxEvents /\ MaxEvents \in Nat
        BY <1>2, <1>3, FieldTypes DEF Expected
      <4> QED
        BY <1>3, <4>1
    <3>2. client.draft + f.size \in 0..MaxChars
      <4>1. f.type = "delta" => client.draft + f.size <= MaxChars
        BY <1>2 DEF Expected, DraftFits
      <4>2. f.type # "delta" => f.size = 0
        BY <1>2 DEF Marked
      <4>3. client.draft <= MaxChars /\ MaxChars \in Nat
        BY <1>3, FieldTypes, FieldBounds
      <4> QED
        BY <1>3, <4>1, <4>2, <4>3
    <3>3. (IF f.type = "delta" THEN client.previews + 1 ELSE client.previews) \in 0..MaxFrames
      <4>1. f.type = "delta" => client.previews < MaxFrames
        BY <1>2 DEF Expected, DraftFits
      <4>2. client.previews \in 0..MaxFrames /\ MaxFrames \in Nat
        BY <1>3, FieldTypes
      <4> QED
        BY <4>1, <4>2
    <3>4. /\ (IF f.type = "state" THEN f.state ELSE client.state) \in States
          /\ f.seq \in Nat
      BY <1>2, <1>3 DEF Frame, Clients
    <3> QED
      BY <1>3, <1>7, <3>1, <3>2, <3>3, <3>4 DEF Clients
  <2>3. ViewOf(client') = After(ViewOf(client), f)
    BY <2>1 DEF ViewOf, After
  <2>4. client'.previews > 0 => client'.state = "resolution"
    <3>1. Within(After(ViewOf(client), f), boundary)
      BY <1>1, NextSeen
    <3>2. Within(ViewOf(client'), boundary)
      BY <2>3, <3>1
    <3> QED
      BY <3>2 DEF Within, ViewOf
  <2>5. Outcomes'
    <3>1. client'.state = "malformed" => faulty'
      BY <1>1, <1>2, <2>1 DEF IInv, Outcomes, Marked
    <3> QED
      BY <1>1, <2>1, <2>4, <3>1
         DEF IInv, Reading, Outcomes, EndsAgree, GoodTurnsSurvive, LossIsReal, DraftHasState
  <2>6. CASE f.type = "terminal"
    <3>1. ~Reading'
      BY <2>1, <2>6 DEF Reading
    <3>2. cut' \in BOOLEAN /\ (cut => cut') /\ wire' \in Seq(Frame)
      BY <1>3, <1>7
    <3> QED
      BY <1>1, <1>4, <2>2, <2>5, <3>1, <3>2, StoppedKeeps
  <2>7. CASE f.type # "terminal"
    <3>1. Reading'
      BY <2>1, <2>7 DEF Reading
    <3>2. TypeOK'
      BY <1>1, <1>3, <1>7, <2>2, Types DEF Typed
    <3>3. Counts' /\ Places' /\ Aborts'
      BY <1>1, <1>7 DEF IInv, Counts, Places, Aborts
    <3>4. Numbered'
      <4>1. /\ client.events = client.last
            /\ client.last + n <= boundary.seq - 1
            /\ ~cut => client.last + n = boundary.seq - 1
            /\ \A i \in 1..n : wire[i].seq = client.last + i
        BY <1>1 DEF IInv, Numbered
      <4>2. client'.events = client'.last
        BY <2>1, <4>1
      <4>3. client'.last + Len(wire') = client.last + n
        BY <1>3, <2>1
      <4>4. \A i \in 1..(n - 1) : wire'[i].seq = client'.last + i
        <5> TAKE i \in 1..(n - 1)
        <5>1. i + 1 \in 1..n
          BY <1>3
        <5>2. client.last + (i + 1) = client'.last + i
          <6>1. client'.last = client.last + 1
            BY <2>1
          <6>2. i \in Int /\ client.last \in Int
            BY <1>3
          <6> QED
            BY <6>1, <6>2
        <5>3. wire[i + 1].seq = client.last + (i + 1)
          BY <4>1, <5>1
        <5> QED
          BY <1>3, <5>2, <5>3
      <4> QED
        BY <1>1, <1>3, <1>7, <4>1, <4>2, <4>3, <4>4 DEF Numbered
    <3>5. EndComes'
      <4> SUFFICES ASSUME boundary.phase = "ended", ~cut
                   PROVE  wire' # <<>> /\ wire'[Len(wire')].type \in {"terminal", "error"}
        BY <1>1, <1>7 DEF EndComes
      <4>1. wire[n].type \in {"terminal", "error"}
        BY <1>1 DEF IInv, EndComes
      <4>2. n # 1
        BY <1>3, <1>7, <2>7, <4>1
      <4>3. n - 1 \in 1..(n - 1) /\ n - 1 + 1 = n
        BY <1>3, <4>2
      <4>4. wire'[n - 1] = wire[n]
        BY <1>3, <4>3
      <4>5. wire' # <<>>
        BY <1>3, <4>2, EmptySeq
      <4> QED
        BY <1>3, <4>1, <4>4, <4>5
    <3>6. Foreseen'
      <4>1. PICK seen \in [0..n -> View] :
              /\ Foresees(seen, wire, ViewOf(client))
              /\ \A i \in 0..n : Within(seen[i], boundary)
              /\ executor.stage = "synthesizing" /\ ~boundary.abort /\ ~cut
                 => seen[n].state = "resolution"
        BY <1>1 DEF IInv, Foreseen
      <4>2. PICK later \in [0..Len(Tail(wire)) -> View] :
              /\ Foresees(later, Tail(wire), After(ViewOf(client), f))
              /\ \A i \in 0..Len(Tail(wire)) : later[i] = seen[i + 1]
        <5>1. Foresees(seen, wire, ViewOf(client))
          BY <4>1
        <5>2. ViewOf(client) \in View
          BY <1>3 DEF ViewOf, View, Clients
        <5>3. wire \in Seq(Frame) /\ wire # <<>>
          BY <1>1, <1>3
        <5> QED
          BY <5>1, <5>2, <5>3, ForeseesTail
      <4>3. /\ later \in [0..(n - 1) -> View]
            /\ Foresees(later, wire', ViewOf(client'))
            /\ \A i \in 0..(n - 1) : later[i] = seen[i + 1]
        BY <1>1, <1>3, <2>3, <4>2
      <4>4. \A i \in 0..(n - 1) : Within(later[i], boundary)
        <5>1. \A i \in 0..(n - 1) : i + 1 \in 0..n
          BY <1>3
        <5> QED
          BY <4>1, <4>3, <5>1
      <4>5. later[n - 1] = seen[n]
        <5>1. n - 1 \in 0..(n - 1) /\ n - 1 + 1 = n
          BY <1>3
        <5> QED
          BY <4>3, <5>1
      <4> HIDE DEF n, f
      <4>6. Len(wire') = n - 1
        BY <1>3
      <4> QED
        BY <1>1, <1>7, <4>1, <4>3, <4>4, <4>5, <4>6 DEF Foreseen
    <3> QED
      BY <1>4, <2>5, <3>2, <3>3, <3>4, <3>5, <3>6 DEF IInv
  <2> QED
    BY <2>6, <2>7
<1> QED
  BY <1>2, <1>6, <1>7 DEF Receive

-----------------------------------------------------------------------------
(* The theorems. *)

(* The invariant holds before the request is sent.                           *)
LEMMA InitHolds == Init => IInv
<1> SUFFICES ASSUME Init
             PROVE  IInv
  OBVIOUS
<1>1. TypeOK
  <2>1. /\ 0 \in 0..MaxPhases /\ 0 \in 0..MaxFragments /\ 0 \in 0..MaxChars
        /\ 0 \in 0..MaxFrames /\ 0 \in 0..MaxEvents
    BY LimitsAssumption
  <2>2. executor \in Executors /\ boundary \in Boundaries /\ client \in Clients
    BY <2>1 DEF Init, Executors, Boundaries, Clients, States
  <2>3. wire \in Seq(Frame)
    BY EmptySeq DEF Init
  <2> QED
    BY <2>2, <2>3, Types DEF Typed, Init
<1>2. Len(wire) = 0
  BY EmptySeq DEF Init
<1>3. Counts /\ Places /\ Aborts /\ EndComes /\ Outcomes
  BY LimitsAssumption DEF Init, Counts, Places, One, Aborts, EndComes,
     Outcomes, EndsAgree, GoodTurnsSurvive, LossIsReal, DraftHasState
<1>4. Numbered /\ FramesMarked
  BY <1>2 DEF Init, Numbered, FramesMarked
<1>5. Foreseen
  <2> DEFINE seen == [i \in 0..0 |-> ViewOf(client)]
  <2>1. ViewOf(client) \in View
    BY DEF Init, ViewOf, View, States
  <2>2. seen \in [0..Len(wire) -> View] /\ seen[0] = ViewOf(client)
    BY <1>2, <2>1
  <2>3. Foresees(seen, wire, ViewOf(client))
    BY <1>2, <2>2 DEF Foresees
  <2>4. \A i \in 0..Len(wire) : Within(seen[i], boundary)
    <3>1. Within(ViewOf(client), boundary)
      BY DEF Init, ViewOf, Within
    <3>2. \A i \in 0..Len(wire) : seen[i] = ViewOf(client)
      BY <1>2
    <3> QED
      BY <3>1, <3>2
  <2>5. executor.stage # "synthesizing"
    BY DEF Init
  <2> HIDE DEF seen
  <2> QED
    BY <2>2, <2>3, <2>4, <2>5 DEF Foreseen
<1> QED
  BY <1>1, <1>3, <1>4, <1>5 DEF IInv

(* It says nothing of what else changes.                                     *)
LEMMA StutterKeeps == IInv /\ UNCHANGED vars => IInv'
<1> SUFFICES ASSUME IInv, UNCHANGED vars
             PROVE  IInv'
  OBVIOUS
<1>1. UNCHANGED <<executor, boundary, wire, cut, client, faulty, oversize>>
  BY DEF vars
<1>2. wire' \in Seq(Frame) /\ Numbered' /\ FramesMarked' /\ Foreseen'
  BY <1>1, UnsentFits
<1>3. TypeOK'
  BY <1>1, Types DEF IInv
<1>4. Counts' /\ Places' /\ Aborts' /\ EndComes' /\ Outcomes'
  BY <1>1, OutcomesKept DEF IInv, Counts, Places, Aborts, EndComes, Reading
<1> QED
  BY <1>2, <1>3, <1>4 DEF IInv

(* Every step keeps it.                                                      *)
LEMMA NextKeeps == IInv /\ [Next]_vars => IInv'
<1> SUFFICES ASSUME IInv, [Next]_vars
             PROVE  IInv'
  OBVIOUS
<1>1. CASE Accept \/ Refuse \/ NoticeLoss \/ Break \/ Cancel
  BY <1>1, AcceptKeeps, RefuseKeeps, NoticeLossKeeps, BreakKeeps, CancelKeeps
<1>2. CASE ExecutorStep
  BY <1>2, ProgressKeeps, ResearchStateKeeps, SearchReturnsKeeps, FragmentKeeps,
     SynthesizedKeeps, ReturnKeeps, ThrowKeeps DEF ExecutorStep
<1>3. CASE ClientStep
  BY <1>3, ReceiveKeeps, ParseFailsKeeps, InterruptedKeeps DEF ClientStep
<1>4. CASE Quiet \/ UNCHANGED vars
  BY <1>4, StutterKeeps DEF Quiet
<1> QED
  BY <1>1, <1>2, <1>3, <1>4 DEF Next

(* It holds in every behaviour.                                              *)
LEMMA IInvHolds == Spec => []IInv
BY InitHolds, NextKeeps, PTL DEF Spec

(* The states of a stream are what their types say.                          *)
THEOREM TypeCorrect == Spec => []TypeOK
<1>1. IInv => TypeOK
  BY DEF IInv
<1> QED
  BY <1>1, IInvHolds, PTL

(* The client never takes a stream of the boundary for a broken one,         *)
(* whatever the limits of both, the text and the loss                        *)
(* (turn-controller.ts:166-186).                                             *)
THEOREM StreamsAreTaken == Spec => []EndsAgree
<1>1. IInv => EndsAgree
  BY DEF IInv, Outcomes
<1> QED
  BY <1>1, IInvHolds, PTL

(* A turn is given up without a trace only if its execution was at fault.    *)
THEOREM TurnsSurvive == Spec => []GoodTurnsSurvive
<1>1. IInv => GoodTurnsSurvive
  BY DEF IInv, Outcomes
<1> QED
  BY <1>1, IInvHolds, PTL

(* A run that nobody cancelled is interrupted only for a reason.             *)
THEOREM LossesAreReal == Spec => []LossIsReal
<1>1. IInv => LossIsReal
  BY DEF IInv, Outcomes
<1> QED
  BY <1>1, IInvHolds, PTL

(* An answer the user has begun to see has its research behind it.           *)
THEOREM DraftsHaveState == Spec => []DraftHasState
<1>1. IInv => DraftHasState
  BY DEF IInv, Outcomes
<1> QED
  BY <1>1, IInvHolds, PTL
=============================================================================
