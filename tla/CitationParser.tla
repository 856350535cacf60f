---------------------------- MODULE CitationParser ----------------------------
(***************************************************************************)
(* How the stream of an answer becomes text and citations: the             *)
(* CitationParser of src/src/infrastructure/providers/anthropic.ts.        *)
(*                                                                         *)
(* A character is a number: a source id is one character, the source       *)
(* itself, and the marker "[[cite:" is three, for what follows its         *)
(* brackets repeats nothing.                                               *)
(***************************************************************************)
EXTENDS Integers, SequencesExt

Open == -1       \* "["
Cite == -2       \* "cite:"
Close == -3      \* "]"
Letter == -4     \* anything else that shows
Blank == -5      \* white space

Marker == <<Open, Open, Cite>>

Text(c) == [kind |-> "text", at |-> c]
Citation(s) == [kind |-> "citation", at |-> s]
AsText(chars) == [i \in DOMAIN chars |-> Text(chars[i])]

(* indexOf: the first place from which the text goes on with the pattern.    *)
IsAt(text, pattern, i) ==
    /\ i + Len(pattern) - 1 <= Len(text)
    /\ SubSeq(text, i, i + Len(pattern) - 1) = pattern
IndexOf(text, pattern, from) ==
    IF \E i \in from..Len(text) : IsAt(text, pattern, i)
    THEN CHOOSE i \in from..Len(text) :
            IsAt(text, pattern, i) /\ \A j \in from..(i - 1) : ~IsAt(text, pattern, j)
    ELSE 0

Shortest(n) == IF n < Len(Marker) THEN n ELSE Len(Marker) - 1

(* The longest end of the text that may turn out to begin a marker.          *)
NothingHeld(text) == 0   \* a mutant
Held(text) ==
    CHOOSE n \in 0..Shortest(Len(text)) :
        /\ SubSeq(text, Len(text) - n + 1, Len(text)) = SubSeq(Marker, 1, n)
        /\ \A m \in (n + 1)..Shortest(Len(text)) :
              SubSeq(text, Len(text) - m + 1, Len(text)) # SubSeq(Marker, 1, m)

(* drain: what can be told of the buffer, and what stays in it; `from' is    *)
(* the loop, at a place of the buffer.                                       *)
Drain(buffer, final, allowed) ==
    LET n == Len(buffer)
        Source(start, end) ==
            IF end = start + Len(Marker) + 1 /\ buffer[end - 1] \in allowed
            THEN <<Citation(buffer[end - 1])>>
            ELSE AsText(SubSeq(buffer, start, end + 1))
        from[i \in 1..(n + 1)] ==
            LET start == IndexOf(buffer, Marker, i)
                end == IndexOf(buffer, <<Close, Close>>, start + Len(Marker))
                kept == IF final THEN 0 ELSE Held(SubSeq(buffer, i, n))
                before == AsText(SubSeq(buffer, i, start - 1))
            IN IF start = 0
               THEN [parts |-> AsText(SubSeq(buffer, i, n - kept)),
                     buffer |-> SubSeq(buffer, n - kept + 1, n)]
               ELSE IF end = 0
               THEN [parts |-> IF final THEN before \o AsText(SubSeq(buffer, i, n))
                                        ELSE before,
                     buffer |-> IF final THEN <<>> ELSE SubSeq(buffer, start, n)]
               ELSE [parts |-> before \o Source(start, end) \o from[end + 2].parts,
                     buffer |-> from[end + 2].buffer]
    IN from[1]

(* The characters that parts stand for.                                      *)
Rendered(parts) ==
    FlattenSeq([i \in DOMAIN parts |->
        IF parts[i].kind = "text" THEN <<parts[i].at>>
        ELSE Marker \o <<parts[i].at, Close, Close>>])

(* The whole text in one piece. *)
ParsedWhole(text, allowed) ==
    LET fed == Drain(text, FALSE, allowed)
    IN fed.parts \o Drain(fed.buffer, TRUE, allowed).parts
=============================================================================
