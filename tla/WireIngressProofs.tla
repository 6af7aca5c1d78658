--------------------------- MODULE WireIngressProofs ---------------------------
(***************************************************************************)
(* Proofs about WireIngress, for every bound of the nesting and of the     *)
(* collections, and for texts of any length.                               *)
(*                                                                         *)
(* The readers are compared through the bare grammar, which no check of a  *)
(* reader interrupts.  The readers that have not refused have all made of  *)
(* the text what the grammar makes of it (SameText), because a symbol that *)
(* only some may refuse leaves the grammar's parser Doomed: it carries a   *)
(* mark that no continuation removes and that all the readers refuse,      *)
(* some at once, at a key or a member, and Python in its walk of the       *)
(* whole value.  What Python cannot leave for later, the nesting and the   *)
(* members of an object that closes, all refuse at the same symbol         *)
(* (Forbidden).  Go, TypeScript and .NET, which never walk the value, are  *)
(* Clean as long as they have not refused: with nothing left to find at    *)
(* the end, and with none of the others having found anything.             *)
(***************************************************************************)
EXTENDS WireIngress, SequenceTheorems, FiniteSetTheorems, TLAPS

\* The grammar alone: Parse for a reader with no check of its own.
Grammar(p, c) == Parse("grammar", p, c)

\* A frame of an object has read fewer different keys than members (k: one
\* more key than members), or has more members than the bound.
Short(frame, k) ==
    \/ frame.size > MaxCollection
    \/ frame.kind = "{" /\ Cardinality(frame.keys) < frame.size + k

\* No frame has more keys than members, or one more while a member is begun.
Sound(frame, k) ==
    /\ IsFiniteSet(frame.keys)
    /\ \/ frame.size > MaxCollection
       \/ frame.kind = "["
       \/ Cardinality(frame.keys) <= frame.size + k

\* 1 while a member of the i-th frame is begun: its key is read, its value not.
Pending(p, i) ==
    IF \/ i < Len(p.stack) \/ p.place \in {"colon", "value"}
       \/ InString(p) /\ ~p.is_key
    THEN 1 ELSE 0

\* No reader accepts a text that continues this one.
Doomed(p) ==
    \/ p.late
    \/ p.units \in {"lone", "separator"}
    \/ \E i \in 1..Len(p.stack) : Short(p.stack[i], Pending(p, i))

\* The places a parser can be at, for what its stack holds.
WellFormed(p) ==
    /\ p \in Parsers
    /\ p.place \in {"first", "colon", "key", "next"} => p.stack # <<>>
    /\ p.place \in {"colon", "key"} \/ p.is_key => Inside(p, "{")
    /\ p.place = "end" => p.stack = <<>>
    /\ p.is_key => InString(p)
    /\ ~InString(p) => p.units = "plain"
    /\ \A i \in 1..Len(p.stack) : Sound(p.stack[i], Pending(p, i))

Places == {"value", "first", "key", "colon", "next", "end", "string", "escape"}
Units == {"plain", "high", "lone", "separator"}

\* The fields of a parser.
LEMMA ParserFields ==
    ASSUME NEW p \in Parsers
    PROVE  /\ p.stack \in Seq(Frames) /\ p.place \in Places /\ p.is_key \in BOOLEAN
           /\ p.key \in Keys /\ p.units \in Units /\ p.object \in BOOLEAN /\ p.late \in BOOLEAN
           /\ p # Refused
BY DEF Parsers, Places, Units, Refused

\* A parser that only changes its place.
LEMMA PlaceUpdate ==
    ASSUME NEW p \in Parsers, NEW place \in Places
    PROVE  LET q == [p EXCEPT !.place = place]
           IN  /\ q \in Parsers
               /\ q.place = place
               /\ q.stack = p.stack /\ q.is_key = p.is_key /\ q.key = p.key
               /\ q.units = p.units /\ q.object = p.object /\ q.late = p.late
BY DEF Parsers, Places

\* A parser that enters a string.
LEMMA StringUpdate ==
    ASSUME NEW p \in Parsers, NEW is_key \in BOOLEAN
    PROVE  LET q == [p EXCEPT !.place = "string", !.is_key = is_key]
           IN  /\ q \in Parsers
               /\ q.place = "string" /\ q.is_key = is_key
               /\ q.stack = p.stack /\ q.key = p.key
               /\ q.units = p.units /\ q.object = p.object /\ q.late = p.late
BY DEF Parsers

\* A frame that counts a member.
LEMMA FrameUpdate ==
    ASSUME NEW f \in Frames, WireBounds
    PROVE  LET g == [f EXCEPT !.size = IF @ > MaxCollection THEN @ ELSE @ + 1]
           IN  /\ g \in Frames
               /\ g.kind = f.kind /\ g.keys = f.keys
               /\ g.size = IF f.size > MaxCollection THEN f.size ELSE f.size + 1
               /\ f.size \in Nat /\ f.kind \in Opening /\ f.keys \in SUBSET Keys
BY DEF Frames, WireBounds

\* What a reader is as long as it has not refused.
LEMMA OutcomeFields ==
    ASSUME NEW s \in Scans, NEW p \in Parsers
    PROVE  /\ [scan |-> s, parser |-> p] # Refused
           /\ s # Refused
           /\ [scan |-> s, parser |-> p].scan = s
           /\ [scan |-> s, parser |-> p].parser = p
BY DEF Refused, Scans

-----------------------------------------------------------------------------
(* Frames and stacks *)

\* A stack that is not empty has a top frame.
LEMMA TopFrame ==
    ASSUME NEW p \in Parsers, p.stack # <<>>
    PROVE  /\ Len(p.stack) \in Nat \ {0} /\ Len(p.stack) \in 1..Len(p.stack)
           /\ Top(p) \in Frames /\ Top(p).kind \in Opening
<1>1. p.stack \in Seq(Frames)
  BY ParserFields
<1>2. Len(p.stack) \in Nat \ {0}
  BY <1>1, EmptySeq
<1>3. Len(p.stack) \in 1..Len(p.stack)
  BY <1>2
<1>4. p.stack[Len(p.stack)] \in Frames
  BY <1>1, <1>3, ElementOfSeq
<1> QED
  BY <1>2, <1>3, <1>4 DEF Top, Frames

\* The stack of a parser consists of frames.
LEMMA StackFrames ==
    ASSUME NEW p \in Parsers
    PROVE  /\ Len(p.stack) \in Nat
           /\ \A i \in 1..Len(p.stack) : p.stack[i] \in Frames
           /\ p.stack = <<>> => Len(p.stack) = 0
           /\ Len(p.stack) = 0 => p.stack = <<>>
BY ParserFields, EmptySeq, ElementOfSeq, LenProperties

\* A frame is the top one or lies below it.
LEMMA TopOrBelow ==
    ASSUME NEW p \in Parsers, NEW i \in 1..Len(p.stack)
    PROVE  /\ i < Len(p.stack) \/ (i = Len(p.stack) /\ p.stack[i] = Top(p))
           /\ p.stack # <<>>
<1>1. Len(p.stack) \in Nat
  BY StackFrames
<1>2. Len(p.stack) # 0
  BY <1>1
<1>3. p.stack # <<>>
  BY <1>2, StackFrames
<1> QED
  BY <1>1, <1>3 DEF Top

\* WithTop replaces the top frame and nothing else.
LEMMA TopReplaced ==
    ASSUME NEW p \in Parsers, p.stack # <<>>, NEW f \in Frames
    PROVE  /\ WithTop(p, f) \in Seq(Frames)
           /\ Len(WithTop(p, f)) = Len(p.stack)
           /\ \A i \in 1..Len(p.stack) :
                 WithTop(p, f)[i] = IF i = Len(p.stack) THEN f ELSE p.stack[i]
BY ParserFields, TopFrame, ExceptSeq DEF WithTop

\* What a frame lacks or has does not depend on k when it is an array's.
LEMMA ArrayFrames ==
    ASSUME NEW f \in Frames, f.kind = "[", NEW k, NEW l
    PROVE  (Sound(f, k) <=> Sound(f, l)) /\ (Short(f, k) <=> Short(f, l))
<1>1. f.kind # "{"
  OBVIOUS
<1> QED
  BY <1>1 DEF Sound, Short

\* The frames are the same, and as far with their members where they have keys.
Alike(p, q) ==
    /\ q.stack = p.stack
    /\ \A i \in 1..Len(p.stack) : p.stack[i].kind = "{" => Pending(q, i) = Pending(p, i)

\* Parsers that are alike have the same frames Sound and the same Short.
LEMMA AlikeFrames ==
    ASSUME NEW p \in Parsers, NEW q \in Parsers, Alike(p, q)
    PROVE  \A i \in 1..Len(p.stack) :
              /\ Sound(q.stack[i], Pending(q, i)) <=> Sound(p.stack[i], Pending(p, i))
              /\ Short(q.stack[i], Pending(q, i)) <=> Short(p.stack[i], Pending(p, i))
<1> SUFFICES ASSUME NEW i \in 1..Len(p.stack)
             PROVE  /\ Sound(q.stack[i], Pending(q, i)) <=> Sound(p.stack[i], Pending(p, i))
                    /\ Short(q.stack[i], Pending(q, i)) <=> Short(p.stack[i], Pending(p, i))
  OBVIOUS
<1>1. p.stack[i] \in Frames /\ p.stack[i].kind \in Opening
  BY StackFrames DEF Frames
<1>2. q.stack[i] = p.stack[i]
  BY DEF Alike
<1>3. CASE p.stack[i].kind = "["
  BY <1>1, <1>2, <1>3, ArrayFrames
<1>4. CASE p.stack[i].kind = "{"
  BY <1>2, <1>4 DEF Alike
<1> QED
  BY <1>1, <1>3, <1>4 DEF Opening

\* Nothing that a walk of the value so far would find.
Clean(p) == ~p.late /\ \A i \in 1..Len(p.stack) : ~Short(p.stack[i], Pending(p, i))

\* All members that are begun are complete values: what holds of the frames
\* while a value is read.
ValueBegun(p) ==
    \A i \in 1..Len(p.stack) :
        /\ Sound(p.stack[i], 1) <=> Sound(p.stack[i], Pending(p, i))
        /\ Short(p.stack[i], 1) <=> Short(p.stack[i], Pending(p, i))

\* Where a value may begin or a string that is one ends, every member is begun.
LEMMA ValueExpected ==
    ASSUME NEW p \in Parsers, ExpectsValue(p) \/ (InString(p) /\ ~p.is_key)
    PROVE  ValueBegun(p)
<1> SUFFICES ASSUME NEW i \in 1..Len(p.stack)
             PROVE  /\ Sound(p.stack[i], 1) <=> Sound(p.stack[i], Pending(p, i))
                    /\ Short(p.stack[i], 1) <=> Short(p.stack[i], Pending(p, i))
  BY DEF ValueBegun
<1>0. p.stack[i] \in Frames /\ Len(p.stack) \in Nat
  BY StackFrames
<1>1. CASE Pending(p, i) = 1
  BY <1>1
<1>2. CASE Pending(p, i) # 1
  <2>1. i = Len(p.stack) /\ p.place # "value" /\ ~(InString(p) /\ ~p.is_key)
    BY <1>0, <1>2 DEF Pending
  <2>2. Top(p).kind = "["
    BY <2>1 DEF ExpectsValue, Inside
  <2>3. p.stack[i].kind = "["
    BY <2>1, <2>2 DEF Top
  <2> QED
    BY <2>3, <1>0, ArrayFrames
<1> QED
  BY <1>1, <1>2

\* One more member.
Counted(f) == [f EXCEPT !.size = IF @ > MaxCollection THEN @ ELSE @ + 1]

\* A begun member that is counted leaves a frame as sound, and as short, as before,
\* unless the count passes the bound.
LEMMA CountedFrame ==
    ASSUME NEW f \in Frames, WireBounds
    PROVE  /\ Counted(f) \in Frames
           /\ Sound(f, 1) => Sound(Counted(f), 0)
           /\ Short(f, 1) => Short(Counted(f), 0)
           /\ Short(Counted(f), 0) => Short(f, 1) \/ Counted(f).size > MaxCollection
<1> DEFINE g == Counted(f)
<1>1. /\ g \in Frames /\ g.kind = f.kind /\ g.keys = f.keys
      /\ g.size = IF f.size > MaxCollection THEN f.size ELSE f.size + 1
      /\ f.size \in Nat
  BY FrameUpdate DEF Counted
<1>2. IsFiniteSet(f.keys) => Cardinality(f.keys) \in Nat
  BY FS_CardinalityType
<1>3. MaxCollection \in Nat
  BY DEF WireBounds
<1> HIDE DEF g
<1>4. Sound(f, 1) => Sound(g, 0)
  BY <1>1, <1>2, <1>3 DEF Sound
<1>5. Short(f, 1) => Short(g, 0)
  <2> DEFINE n == Cardinality(f.keys)
  <2>1. n = Cardinality(g.keys)
    BY <1>1
  <2> HIDE DEF n
  <2> SUFFICES ASSUME Short(f, 1), ~(f.size > MaxCollection) PROVE Short(g, 0)
    BY <1>1, <1>3 DEF Short
  <2>2. g.size = f.size + 1
    BY <1>1
  <2>3. g.size + 0 = f.size + 1
    BY <2>2, <1>1
  <2>4. f.kind = "{" /\ n < f.size + 1
    BY DEF Short, n
  <2> QED
    BY <2>1, <2>3, <2>4, <1>1 DEF Short
<1>6. Short(g, 0) => Short(f, 1) \/ g.size > MaxCollection
  <2> DEFINE n == Cardinality(f.keys)
  <2>1. n = Cardinality(g.keys)
    BY <1>1
  <2> HIDE DEF n
  <2> SUFFICES ASSUME Short(g, 0), ~(g.size > MaxCollection) PROVE Short(f, 1)
    OBVIOUS
  <2>2. g.kind = "{" /\ n < g.size + 0
    BY <2>1 DEF Short
  <2>3. g.size + 0 = f.size + 1
    BY <1>1, <1>3
  <2> QED
    BY <2>2, <2>3, <1>1 DEF Short, n
<1> QED
  BY <1>1, <1>4, <1>5, <1>6 DEF g

-----------------------------------------------------------------------------
(* A value is complete *)

\* The readers that look while they read, and not only at the end.
Strict == {"go", "typescript", "dotnet"}

\* The grammar has no bound of its own; a reader that has one refuses when it
\* is passed.
LEMMA MembersCounted ==
    ASSUME NEW r, NEW p \in Parsers, p.stack # <<>>
    PROVE  LET frame == Counted(Top(p))
               q == [p EXCEPT !.stack = WithTop(p, frame), !.place = "next"]
           IN  /\ Completed("grammar", p) = q
               /\ Completed(r, p) = IF r \in Strict /\ frame.size > MaxCollection
                                    THEN Refused ELSE q
BY DEF Completed, Counted, RefusesMember, Strict

\* Completed keeps the frames sound and short frames short; a reader that refuses
\* the member leaves a parser that is doomed.
LEMMA ValueCompleted ==
    ASSUME WireBounds, NEW r, NEW p \in Parsers, ~p.is_key, p.units = "plain",
           \A i \in 1..Len(p.stack) : Sound(p.stack[i], 1)
    PROVE  LET q == Completed("grammar", p)
           IN  /\ WellFormed(q) /\ q.late = p.late /\ Len(q.stack) = Len(p.stack)
               /\ ~InString(q)
               /\ (\E i \in 1..Len(p.stack) : Short(p.stack[i], 1)) => Doomed(q)
               /\ Completed(r, p) \in {Refused, q}
               /\ Completed(r, p) = Refused => Doomed(q)
               /\ r \in Strict /\ Completed(r, p) # Refused /\ ~p.late
                  /\ (\A i \in 1..Len(p.stack) : ~Short(p.stack[i], 1)) => Clean(q)
<1> DEFINE q == Completed("grammar", p)
<1>0. /\ Len(p.stack) \in Nat /\ (p.stack = <<>> <=> Len(p.stack) = 0)
      /\ \A i \in 1..Len(p.stack) : p.stack[i] \in Frames
  BY StackFrames
<1>1. CASE p.stack = <<>>
  <2>1. q = [p EXCEPT !.place = "end"] /\ Completed(r, p) = q
    BY <1>1 DEF Completed
  <2> HIDE DEF q
  <2>2. /\ q \in Parsers /\ q.place = "end" /\ q.stack = <<>> /\ ~q.is_key
        /\ q.units = "plain" /\ q.late = p.late
    <3>1. "end" \in Places
      BY DEF Places
    <3>2. /\ q \in Parsers /\ q.place = "end" /\ q.stack = p.stack /\ q.is_key = p.is_key
          /\ q.units = p.units /\ q.late = p.late
      BY <2>1, <3>1, PlaceUpdate
    <3> QED
      BY <3>2, <1>1
  <2>3. \A i \in 1..Len(p.stack) : FALSE
    BY <1>0, <1>1
  <2>4. ~InString(q)
    BY <2>2 DEF InString
  <2>5. WellFormed(q)
    BY <2>2, <2>3, <2>4, <1>1 DEF WellFormed
  <2>6. ~p.late => Clean(q)
    BY <2>2, <2>3, <1>1 DEF Clean
  <2>7. q # Refused
    BY <2>2, ParserFields
  <2> QED
    BY <2>1, <2>2, <2>3, <2>4, <2>5, <2>6, <2>7, <1>1 DEF q
<1>2. CASE p.stack # <<>>
  <2> DEFINE n == Len(p.stack)
             frame == Counted(Top(p))
             full == frame.size > MaxCollection
  <2>0. n \in Nat \ {0} /\ n \in 1..n /\ Top(p) \in Frames /\ Top(p) = p.stack[n]
    BY <1>2, TopFrame DEF Top
  <2>1. /\ frame \in Frames
        /\ Sound(Top(p), 1) => Sound(frame, 0)
        /\ Short(Top(p), 1) => Short(frame, 0)
        /\ Short(frame, 0) => Short(Top(p), 1) \/ full
    BY <2>0, CountedFrame
  <2>2. full => Short(frame, 0)
    BY DEF Short
  <2>3. /\ q = [p EXCEPT !.stack = WithTop(p, frame), !.place = "next"]
        /\ Completed(r, p) = IF r \in Strict /\ full THEN Refused ELSE q
    BY <1>2, MembersCounted
  <2> HIDE DEF frame, full, q
  <2>4. /\ WithTop(p, frame) \in Seq(Frames)
        /\ Len(WithTop(p, frame)) = n
        /\ \A i \in 1..n : WithTop(p, frame)[i] = IF i = n THEN frame ELSE p.stack[i]
    BY <1>2, <2>1, TopReplaced
  <2>5. /\ q \in Parsers /\ q.place = "next" /\ q.stack = WithTop(p, frame) /\ ~q.is_key
        /\ q.units = "plain" /\ q.late = p.late
    <3>1. "next" \in Places
      BY DEF Places
    <3> DEFINE stack == WithTop(p, frame)
    <3>3. stack \in Seq(Frames)
      BY <2>4
    <3>4. q = [p EXCEPT !.stack = stack, !.place = "next"]
      BY <2>3
    <3> HIDE DEF stack
    <3>5. /\ q \in Parsers /\ q.place = "next" /\ q.stack = stack
          /\ q.is_key = p.is_key /\ q.units = p.units /\ q.late = p.late
      BY <3>3, <3>4, <3>1 DEF Parsers, Places
    <3>2. /\ q \in Parsers /\ q.place = "next" /\ q.stack = WithTop(p, frame)
          /\ q.is_key = p.is_key /\ q.units = p.units /\ q.late = p.late
      BY <3>5 DEF stack
    <3> QED
      BY <3>2
  <2>6. ~InString(q)
    BY <2>5 DEF InString
  <2>7. \A i \in 1..n : Pending(q, i) = IF i = n THEN 0 ELSE 1
    BY <2>0, <2>4, <2>5, <2>6 DEF Pending
  <2>8. Len(q.stack) = n /\ q.stack # <<>>
    BY <2>4, <2>5, <2>0, EmptySeq
  <2>9. \A i \in 1..n : /\ i = n => q.stack[i] = frame /\ Pending(q, i) = 0
                        /\ i # n => q.stack[i] = p.stack[i] /\ Pending(q, i) = 1
    BY <2>4, <2>5, <2>7
  <2> HIDE DEF n
  <2>10. \A i \in 1..n : Sound(q.stack[i], Pending(q, i))
    BY <2>0, <2>1, <2>9 DEF n
  <2>11. WellFormed(q)
    BY <2>5, <2>6, <2>8, <2>10 DEF WellFormed
  <2>12. (\E i \in 1..n : Short(p.stack[i], 1)) => Doomed(q)
    <3> SUFFICES ASSUME NEW i \in 1..n, Short(p.stack[i], 1) PROVE Doomed(q)
      OBVIOUS
    <3>1. Short(q.stack[i], Pending(q, i))
      BY <2>0, <2>1, <2>9
    <3> QED
      BY <3>1, <2>8 DEF Doomed
  <2>13. full => Doomed(q)
    <3>1. full => Short(q.stack[n], Pending(q, n))
      BY <2>0, <2>2, <2>9
    <3> QED
      BY <3>1, <2>0, <2>8 DEF Doomed
  <2>14. ~full /\ ~p.late /\ (\A i \in 1..n : ~Short(p.stack[i], 1)) => Clean(q)
    <3> SUFFICES ASSUME ~full, ~p.late, \A i \in 1..n : ~Short(p.stack[i], 1)
                 PROVE  Clean(q)
      OBVIOUS
    <3>1. \A i \in 1..n : ~Short(q.stack[i], Pending(q, i))
      BY <2>0, <2>1, <2>9
    <3> QED
      BY <3>1, <2>5, <2>8 DEF Clean
  <2>15. q # Refused
    BY <2>5, ParserFields
  <2> QED
    BY <2>3, <2>5, <2>6, <2>8, <2>11, <2>12, <2>13, <2>14, <2>15 DEF q, n
<1> QED
  BY <1>1, <1>2

-----------------------------------------------------------------------------
(* One symbol: what the grammar makes of it, and what a reader does *)

\* q is what the grammar makes of p, o what reader r makes of it: it takes q or
\* refuses, and then q is refused by everyone in the end.  What is doomed stays
\* doomed, and a reader that checks at once has let nothing pass.
Taken(r, p, q, o) ==
    /\ WellFormed(q)
    /\ Doomed(p) => Doomed(q)
    /\ o \in {Refused, q}
    /\ o = Refused => Doomed(q)
    /\ r \in Strict /\ o # Refused /\ Clean(p) => Clean(q)

\* A step between parsers that are alike is taken by every reader.
LEMMA AlikeIsTaken ==
    ASSUME NEW r, NEW p, WellFormed(p), NEW q \in Parsers, Alike(p, q),
           q.late = p.late, p.units \in {"lone", "separator"} => q.units = p.units,
           q.place \in {"first", "colon", "key", "next"} => q.stack # <<>>,
           q.place \in {"colon", "key"} \/ q.is_key => Inside(q, "{"),
           q.place = "end" => q.stack = <<>>,
           q.is_key => InString(q),
           ~InString(q) => q.units = "plain"
    PROVE  Taken(r, p, q, q)
<1>0. p \in Parsers
  BY DEF WellFormed
<1>1. \A i \in 1..Len(p.stack) :
              /\ Sound(q.stack[i], Pending(q, i)) <=> Sound(p.stack[i], Pending(p, i))
              /\ Short(q.stack[i], Pending(q, i)) <=> Short(p.stack[i], Pending(p, i))
  BY <1>0, AlikeFrames
<1>2. q.stack = p.stack
  BY DEF Alike
<1>3. WellFormed(q)
  BY <1>1, <1>2 DEF WellFormed
<1>4. Doomed(p) => Doomed(q)
  BY <1>1, <1>2 DEF Doomed
<1>5. Clean(p) => Clean(q)
  BY <1>1, <1>2 DEF Clean
<1>6. q # Refused
  BY ParserFields
<1> QED
  BY <1>3, <1>4, <1>5, <1>6 DEF Taken

\* A quote that opens a value, or a key.
LEMMA StringBegins ==
    ASSUME NEW r, NEW p, WellFormed(p), NEW is_key \in BOOLEAN, ~InString(p),
           is_key = TRUE => ExpectsKey(p), is_key = FALSE => ExpectsValue(p)
    PROVE  LET q == [p EXCEPT !.place = "string", !.is_key = is_key]
           IN  Taken(r, p, q, q) /\ q.place = "string" /\ q.stack = p.stack
<1> DEFINE q == [p EXCEPT !.place = "string", !.is_key = is_key]
<1>0. p \in Parsers
  BY DEF WellFormed
<1>1. /\ q \in Parsers /\ q.place = "string" /\ q.is_key = is_key
      /\ q.stack = p.stack /\ q.units = p.units /\ q.late = p.late
  BY <1>0, StringUpdate
<1> HIDE DEF q
<1>2. InString(q)
  BY <1>1 DEF InString
<1>3. Alike(p, q)
  <2> SUFFICES ASSUME NEW i \in 1..Len(p.stack), p.stack[i].kind = "{"
               PROVE  Pending(q, i) = Pending(p, i)
    BY <1>1 DEF Alike
  <2>1. CASE i < Len(p.stack)
    BY <2>1, <1>1 DEF Pending
  <2>2. CASE ~(i < Len(p.stack))
    <3>1. i = Len(p.stack) /\ Top(p).kind = "{"
      BY <2>2, <1>0, TopOrBelow
    <3>2. CASE is_key = TRUE
      <4>1. p.place \in {"key", "first"}
        BY <3>2 DEF ExpectsKey
      <4> QED
        BY <4>1, <3>1, <3>2, <1>1, <1>2, <1>0, StackFrames DEF Pending, InString
    <3>3. CASE is_key = FALSE
      <4>1. p.place = "value"
        BY <3>1, <3>3 DEF ExpectsValue, Inside
      <4> QED
        BY <4>1, <3>1, <3>3, <1>1, <1>2 DEF Pending
    <3> QED
      BY <3>2, <3>3
  <2> QED
    BY <2>1, <2>2
<1>4. q.is_key => Inside(q, "{")
  <2> SUFFICES ASSUME q.is_key PROVE Inside(p, "{")
    BY <1>1 DEF Inside, Top
  <2>1. ExpectsKey(p)
    BY <1>1
  <2> QED
    BY <2>1 DEF ExpectsKey, WellFormed
<1> QED
  BY <1>1, <1>2, <1>3, <1>4, AlikeIsTaken DEF q

\* A symbol that only moves on: after a key, between members, into an escape.
LEMMA PlaceMoves ==
    ASSUME NEW r, NEW p, WellFormed(p), NEW place \in Places,
           \/ p.place = "colon" /\ place = "value"
           \/ p.place = "next" /\ Inside(p, "{") /\ place = "key"
           \/ p.place = "next" /\ ~Inside(p, "{") /\ place = "value"
           \/ p.place = "string" /\ place = "escape"
    PROVE  LET q == [p EXCEPT !.place = place]
           IN  Taken(r, p, q, q) /\ q.place = place /\ q.stack = p.stack
               /\ q.units = p.units
<1> DEFINE q == [p EXCEPT !.place = place]
<1>0. p \in Parsers
  BY DEF WellFormed
<1>1. /\ q \in Parsers /\ q.place = place /\ q.is_key = p.is_key
      /\ q.stack = p.stack /\ q.units = p.units /\ q.late = p.late
  BY <1>0, PlaceUpdate
<1> HIDE DEF q
<1>2. InString(q) <=> InString(p)
  BY <1>1 DEF InString
<1>3. Alike(p, q)
  <2> SUFFICES ASSUME NEW i \in 1..Len(p.stack), p.stack[i].kind = "{"
               PROVE  Pending(q, i) = Pending(p, i)
    BY <1>1 DEF Alike
  <2>1. CASE i < Len(p.stack)
    BY <2>1, <1>1 DEF Pending
  <2>2. CASE ~(i < Len(p.stack))
    <3>1. i = Len(p.stack) /\ Top(p).kind = "{"
      BY <2>2, <1>0, TopOrBelow
    <3>2. p.stack # <<>>
      BY <1>0, TopOrBelow
    <3>3. Inside(p, "{")
      BY <3>1, <3>2 DEF Inside
    <3> QED
      BY <3>1, <3>3, <1>1, <1>2 DEF Pending, InString
  <2> QED
    BY <2>1, <2>2
<1>4. Inside(q, "{") <=> Inside(p, "{")
  BY <1>1 DEF Inside, Top
<1>5. /\ p.place = "colon" => Inside(p, "{")
      /\ p.place \in {"colon", "next"} => p.stack # <<>>
      /\ p.is_key => InString(p) /\ Inside(p, "{")
      /\ ~InString(p) => p.units = "plain"
  BY DEF WellFormed
<1>6. q.place \in {"first", "colon", "key", "next"} => q.stack # <<>>
  BY <1>1, <1>5
<1>7. q.place \in {"colon", "key"} \/ q.is_key => Inside(q, "{")
  BY <1>1, <1>4, <1>5
<1>8. q.place # "end"
  BY <1>1
<1>9. /\ q.is_key => InString(q)
      /\ ~InString(q) => q.units = "plain"
  BY <1>1, <1>2, <1>5
<1> QED
  BY <1>1, <1>3, <1>6, <1>7, <1>8, <1>9, AlikeIsTaken DEF q

\* A bracket that opens a value.
LEMMA ValueOpens ==
    ASSUME NEW r, NEW p, WellFormed(p), WireBounds, NEW c \in Opening, ExpectsValue(p),
           Len(p.stack) < MaxDepth
    PROVE  LET q == Open("grammar", p, c)
           IN  /\ Taken(r, p, q, Open(r, p, c))
               /\ Len(q.stack) = Len(p.stack) + 1
               /\ ~InString(q)
<1> DEFINE q == Open("grammar", p, c)
           frame == [kind |-> c, keys |-> {}, size |-> 0]
           n == Len(p.stack)
           stack == Append(p.stack, frame)
           object == IF p.stack = <<>> THEN c = "{" ELSE p.object
<1>0. p \in Parsers /\ n \in Nat /\ p.stack \in Seq(Frames)
  BY StackFrames, ParserFields DEF WellFormed
<1>1. frame \in Frames /\ frame.keys = {} /\ frame.size = 0
  BY DEF Frames, WireBounds
<1>2. /\ stack \in Seq(Frames) /\ Len(stack) = n + 1 /\ stack # <<>>
      /\ \A i \in 1..n : stack[i] = p.stack[i]
      /\ stack[n + 1] = frame
  <2> HIDE DEF frame
  <2> QED
    BY <1>0, <1>1, AppendProperties
<1>3. Open(r, p, c) = q /\ q = [p EXCEPT !.stack = stack, !.place = "first", !.object = object]
  BY <1>0 DEF Open, RefusesOpening, WireBounds
<1>4. object \in BOOLEAN
  BY <1>0, ParserFields
<1> HIDE DEF q, stack, object, frame
<1>5. /\ q \in Parsers /\ q.stack = stack /\ q.place = "first"
      /\ q.is_key = p.is_key /\ q.units = p.units /\ q.late = p.late
  BY <1>0, <1>2, <1>3, <1>4 DEF Parsers
<1>6. ~InString(q)
  BY <1>5 DEF InString
<1>7. ~InString(p) /\ p.units = "plain" /\ p.is_key = FALSE
  <2>1. ~InString(p)
    BY DEF ExpectsValue, InString
  <2> QED
    BY <2>1, ParserFields, <1>0 DEF WellFormed
<1>8. ValueBegun(p)
  BY <1>0, ValueExpected
<1> HIDE DEF n
<1>9. \A i \in 1..n : q.stack[i] = p.stack[i] /\ Pending(q, i) = 1
  BY <1>0, <1>2, <1>5, <1>6 DEF Pending
<1>10. Sound(frame, 0) /\ ~Short(frame, 0)
  <2>1. IsFiniteSet(frame.keys) /\ Cardinality(frame.keys) = 0
    BY <1>1, FS_EmptySet
  <2>2. frame.size = 0 /\ ~(0 > MaxCollection) /\ ~(0 < 0 + 0) /\ 0 <= 0 + 0
    BY <1>1 DEF WireBounds
  <2> QED
    BY <2>1, <2>2 DEF Sound, Short
<1>11. q.stack[n + 1] = frame /\ Pending(q, n + 1) = 0
  BY <1>0, <1>2, <1>5, <1>6 DEF Pending
<1>12. \A i \in 1..(n + 1) : i \in 1..n \/ i = n + 1
  BY <1>0
<1>13. \A i \in 1..n : i \in 1..(n + 1)
  BY <1>0
<1>14. \A i \in 1..(n + 1) : Sound(q.stack[i], Pending(q, i))
  BY <1>8, <1>9, <1>10, <1>11, <1>12 DEF WellFormed, ValueBegun, n
<1>15. WellFormed(q)
  BY <1>2, <1>5, <1>6, <1>7, <1>14 DEF WellFormed
<1>16. Doomed(p) => Doomed(q)
  <2>1. \A i \in 1..n : Short(p.stack[i], Pending(p, i)) => Short(q.stack[i], Pending(q, i))
    BY <1>8, <1>9 DEF ValueBegun, n
  <2> QED
    BY <2>1, <1>2, <1>5, <1>13 DEF Doomed, n
<1>17. Clean(p) => Clean(q)
  <2> SUFFICES ASSUME Clean(p) PROVE Clean(q)
    OBVIOUS
  <2>1. \A i \in 1..n : ~Short(q.stack[i], Pending(q, i))
    BY <1>8, <1>9 DEF ValueBegun, Clean, n
  <2>2. \A i \in 1..(n + 1) : ~Short(q.stack[i], Pending(q, i))
    BY <2>1, <1>10, <1>11, <1>12
  <2> QED
    BY <2>2, <1>2, <1>5 DEF Clean
<1>18. q # Refused
  BY <1>5, ParserFields
<1> QED
  BY <1>2, <1>3, <1>5, <1>6, <1>15, <1>16, <1>17, <1>18 DEF Taken, q, n

\* Indices of a sequence without its last element.
LEMMA OneLess ==
    ASSUME NEW n \in Nat \ {0}
    PROVE  /\ n - 1 \in Nat /\ 1 \in Int /\ n - 1 \in Int
           /\ (IF 1 <= n - 1 THEN (n - 1) - 1 + 1 ELSE 0) = n - 1
           /\ \A i \in 1..(n - 1) : i \in 1..n /\ i < n /\ 1 + i - 1 = i
           /\ \A i \in 1..n : i = n \/ i \in 1..(n - 1)
           /\ ~(n < n)
OBVIOUS

\* A number between two equal bounds.
LEMMA Squeezed ==
    ASSUME NEW m \in Nat, NEW k \in Nat, ~(m < k + 0), m <= k + 0
    PROVE  m = k
OBVIOUS

\* A sequence without its last element.
LEMMA AllButLast ==
    ASSUME NEW S, NEW s \in Seq(S), s # <<>>
    PROVE  LET t == SubSeq(s, 1, Len(s) - 1)
           IN  /\ t \in Seq(S) /\ Len(t) = Len(s) - 1
               /\ \A i \in 1..(Len(s) - 1) : t[i] = s[i]
<1> DEFINE n == Len(s)
           t == SubSeq(s, 1, n - 1)
<1>1. n \in Nat \ {0}
  BY EmptySeq
<1>2. \A i \in 1..n : s[i] \in S
  BY ElementOfSeq
<1> HIDE DEF n
<1>3. \A i \in 1..(n - 1) : s[i] \in S
  BY <1>1, <1>2, OneLess
<1>4. /\ t \in Seq(S) /\ Len(t) = IF 1 <= n - 1 THEN (n - 1) - 1 + 1 ELSE 0
      /\ \A i \in 1..(n - 1 - 1 + 1) : t[i] = s[1 + i - 1]
  BY <1>1, <1>3, OneLess, SubSeqProperties
<1>5. Len(t) = n - 1
  BY <1>1, <1>4, OneLess
<1>6. \A i \in 1..(n - 1) : t[i] = s[i]
  BY <1>1, <1>4, OneLess
<1> QED
  BY <1>4, <1>5, <1>6 DEF n

\* A bracket that closes: both scans of Python look at an object here.
LEMMA ValueCloses ==
    ASSUME NEW r, NEW p, WellFormed(p), WireBounds, p.stack # <<>>,
           p.place \in {"first", "next"},
           Top(p).kind = "{" => ~Short(Top(p), 0)
    PROVE  LET q == Close("grammar", p)
           IN  /\ Taken(r, p, q, Close(r, p))
               /\ Len(q.stack) = Len(p.stack) - 1
               /\ ~InString(q)
<1> DEFINE n == Len(p.stack)
           stack == SubSeq(p.stack, 1, n - 1)
           late == p.late \/ Top(p).size > MaxCollection
           before == [p EXCEPT !.stack = stack, !.late = late]
           q == Completed("grammar", before)
<1>0. /\ p \in Parsers /\ n \in Nat \ {0} /\ p.stack \in Seq(Frames)
      /\ Top(p) \in Frames /\ Top(p) = p.stack[n] /\ n \in 1..n
  BY TopFrame, ParserFields DEF WellFormed, Top
<1>1. ~InString(p) /\ p.units = "plain" /\ p.is_key = FALSE
  <2>1. ~InString(p)
    BY DEF InString
  <2> QED
    BY <2>1, ParserFields, <1>0 DEF WellFormed
<1>2. (\A i \in 1..(n - 1) : Pending(p, i) = 1) /\ Pending(p, n) = 0
  <2>1. \A i \in 1..(n - 1) : i < n
    BY <1>0, OneLess
  <2>2. ~(n < n)
    BY <1>0, OneLess
  <2>3. p.place \notin {"colon", "value"}
    OBVIOUS
  <2> QED
    BY <2>1, <2>2, <2>3, <1>1 DEF Pending
<1>3. /\ stack \in Seq(Frames) /\ Len(stack) = n - 1
      /\ \A i \in 1..(n - 1) : stack[i] = p.stack[i]
  BY <1>0, AllButLast
<1>4. late \in BOOLEAN
  OBVIOUS
<1>5. Close(r, p) = (IF RefusesClosing(r, Top(p)) THEN Refused ELSE Completed(r, before))
      /\ Close("grammar", p) = q
  BY DEF Close, RefusesClosing
<1> HIDE DEF stack, late
<1>6. /\ before \in Parsers /\ before.stack = stack /\ before.late = late
      /\ before.is_key = p.is_key /\ before.units = p.units
  BY <1>0, <1>3, <1>4 DEF Parsers
<1> HIDE DEF before, n
<1>7. Sound(Top(p), 0)
  BY <1>0, <1>2 DEF WellFormed, n
<1>8. ~RefusesClosing(r, Top(p))
  <2> DEFINE f == Top(p)
             m == Cardinality(f.keys)
  <2>0. f.size \in Nat /\ MaxCollection \in Nat
    BY <1>0, FrameUpdate DEF WireBounds
  <2>1. IsFiniteSet(f.keys) => m \in Nat
    BY FS_CardinalityType
  <2> HIDE DEF m
  <2>2. f.kind = "{" => m = f.size /\ ~(f.size > MaxCollection)
    <3> SUFFICES ASSUME f.kind = "{" PROVE m = f.size /\ ~(f.size > MaxCollection)
      OBVIOUS
    <3>1. ~(f.size > MaxCollection) /\ ~(m < f.size + 0)
      BY DEF Short, m
    <3>2. f.kind # "[" /\ IsFiniteSet(f.keys)
      BY <1>7 DEF Sound
    <3>3. m <= f.size + 0
      BY <1>7, <3>1, <3>2 DEF Sound, m
    <3>4. m \in Nat
      BY <2>1, <3>2
    <3> DEFINE k == f.size
    <3>5. k \in Nat /\ ~(k > MaxCollection) /\ ~(m < k + 0) /\ m <= k + 0
      BY <2>0, <3>1, <3>3
    <3> HIDE DEF k
    <3>6. m = k
      BY <3>4, <3>5, Squeezed
    <3> QED
      BY <3>5, <3>6 DEF k
  <2> QED
    BY <2>2 DEF RefusesClosing, RejectDuplicateKeys, Unique, Duplicates, m
<1>9. Close(r, p) = Completed(r, before)
  BY <1>5, <1>8
<1>10. \A i \in 1..Len(before.stack) :
          /\ i \in 1..Len(p.stack) /\ before.stack[i] = p.stack[i] /\ Pending(p, i) = 1
          /\ Sound(before.stack[i], 1)
  <2>1. \A i \in 1..(n - 1) : i \in 1..n
    BY <1>0, OneLess
  <2> QED
    BY <2>1, <1>2, <1>3, <1>6 DEF WellFormed, n
<1>11. ~before.is_key /\ before.units = "plain"
  <2>1. before.is_key = FALSE
    BY <1>1, <1>6
  <2> QED
    BY <2>1, <1>1, <1>6
<1>12. /\ WellFormed(q) /\ q.late = before.late /\ Len(q.stack) = Len(before.stack)
       /\ ~InString(q)
       /\ (\E i \in 1..Len(before.stack) : Short(before.stack[i], 1)) => Doomed(q)
       /\ Completed(r, before) \in {Refused, q}
       /\ Completed(r, before) = Refused => Doomed(q)
       /\ r \in Strict /\ Completed(r, before) # Refused /\ ~before.late
          /\ (\A i \in 1..Len(before.stack) : ~Short(before.stack[i], 1)) => Clean(q)
  BY <1>6, <1>10, <1>11, ValueCompleted
<1> HIDE DEF q
<1>13. Short(Top(p), 0) => late
  <2>1. Short(Top(p), 0) => Top(p).size > MaxCollection
    BY DEF Short
  <2> QED
    BY <2>1 DEF late
<1>14. late => Doomed(q)
  BY <1>6, <1>12 DEF Doomed
<1>15. Doomed(p) => Doomed(q)
  <2>1. p.late => late
    BY DEF late
  <2>2. p.units \notin {"lone", "separator"}
    BY <1>1
  <2>3. ASSUME NEW i \in 1..Len(p.stack), Short(p.stack[i], Pending(p, i)) PROVE Doomed(q)
    <3>1. CASE i = n
      BY <3>1, <2>3, <1>0, <1>2, <1>13, <1>14
    <3>2. CASE i # n
      <4>1. i \in 1..Len(before.stack)
        BY <3>2, <1>0, <1>3, <1>6, OneLess DEF n
      <4> QED
        BY <4>1, <2>3, <1>10, <1>12
    <3> QED
      BY <3>1, <3>2
  <2> QED
    BY <2>1, <2>2, <2>3, <1>14 DEF Doomed
<1>16. r \in Strict /\ Close(r, p) # Refused /\ Clean(p) => Clean(q)
  <2> SUFFICES ASSUME r \in Strict, Close(r, p) # Refused, Clean(p) PROVE Clean(q)
    OBVIOUS
  <2>1. ~p.late /\ ~Short(Top(p), 0)
    BY <1>0, <1>2 DEF Clean, n
  <2>2. ~(Top(p).size > MaxCollection)
    BY <2>1 DEF Short
  <2>3. ~before.late
    BY <2>1, <2>2, <1>6 DEF late
  <2>4. \A i \in 1..Len(before.stack) : ~Short(before.stack[i], 1)
    BY <1>10 DEF Clean
  <2> QED
    BY <2>3, <2>4, <1>9, <1>12
<1>17. Len(q.stack) = Len(p.stack) - 1
  BY <1>3, <1>6, <1>12 DEF n
<1> QED
  BY <1>5, <1>9, <1>12, <1>15, <1>16, <1>17 DEF Taken

\* A literal.
LEMMA LiteralRead ==
    ASSUME NEW r, NEW p, WellFormed(p), WireBounds, ExpectsValue(p)
    PROVE  LET q == Completed("grammar", p)
           IN  /\ Taken(r, p, q, Completed(r, p))
               /\ Len(q.stack) = Len(p.stack)
               /\ ~InString(q)
<1>1. ~InString(p) /\ p.units = "plain" /\ p \in Parsers
  BY DEF ExpectsValue, InString, WellFormed
<1>2. ~p.is_key
  BY <1>1 DEF WellFormed
<1>3. ValueBegun(p)
  BY <1>1, ValueExpected
<1>4. \A i \in 1..Len(p.stack) : Sound(p.stack[i], 1)
  BY <1>3 DEF ValueBegun, WellFormed
<1> DEFINE q == Completed("grammar", p)
<1>5. /\ WellFormed(q) /\ q.late = p.late /\ Len(q.stack) = Len(p.stack)
      /\ ~InString(q)
      /\ (\E i \in 1..Len(p.stack) : Short(p.stack[i], 1)) => Doomed(q)
      /\ Completed(r, p) \in {Refused, q}
      /\ Completed(r, p) = Refused => Doomed(q)
      /\ r \in Strict /\ Completed(r, p) # Refused /\ ~p.late
         /\ (\A i \in 1..Len(p.stack) : ~Short(p.stack[i], 1)) => Clean(q)
  BY <1>1, <1>2, <1>4, ValueCompleted
<1> HIDE DEF q
<1>6. Doomed(p) => Doomed(q)
  BY <1>1, <1>3, <1>5 DEF Doomed, ValueBegun
<1>7. r \in Strict /\ Completed(r, p) # Refused /\ Clean(p) => Clean(q)
  BY <1>3, <1>5 DEF Clean, ValueBegun
<1> QED
  BY <1>5, <1>6, <1>7 DEF Taken, q

\* A key that the frame of an object takes.
LEMMA OneMore ==
    ASSUME NEW n \in Nat, NEW k \in Nat, n <= k + 0
    PROVE  /\ n < k + 1 /\ n <= k + 1 /\ n + 1 <= k + 1
           /\ n + 1 < k + 1 <=> n < k + 0
OBVIOUS

\* A key that a frame takes: it becomes short if it has the key already.
LEMMA KeyTaken ==
    ASSUME NEW f \in Frames, f.kind = "{", NEW key \in Keys, WireBounds, Sound(f, 0)
    PROVE  LET g == [f EXCEPT !.keys = @ \cup {key}]
           IN  /\ g \in Frames /\ Sound(g, 1)
               /\ Short(f, 0) => Short(g, 1)
               /\ key \in f.keys => Short(g, 1)
               /\ key \notin f.keys /\ ~Short(f, 0) => ~Short(g, 1)
<1> DEFINE g == [f EXCEPT !.keys = @ \cup {key}]
           n == Cardinality(f.keys)
           m == Cardinality(g.keys)
           k == f.size
           full == f.size > MaxCollection
<1>1. /\ g \in Frames /\ g.kind = "{" /\ g.keys = f.keys \cup {key} /\ g.size = f.size
      /\ f.size \in Nat
  <2> DEFINE keys == f.keys \cup {key}
  <2>1. keys \in SUBSET Keys /\ f.size \in Nat
    BY FrameUpdate
  <2>2. g = [f EXCEPT !.keys = keys]
    OBVIOUS
  <2> HIDE DEF keys, g
  <2>3. g \in Frames /\ g.kind = f.kind /\ g.keys = keys /\ g.size = f.size
    BY <2>1, <2>2 DEF Frames
  <2> QED
    BY <2>1, <2>3 DEF keys
<1> HIDE DEF g
<1>2. IsFiniteSet(f.keys) /\ n \in Nat
  BY FS_CardinalityType DEF Sound
<1>3. IsFiniteSet(g.keys)
  <2>1. IsFiniteSet(f.keys \cup {key})
    BY <1>2, FS_AddElement
  <2> QED
    BY <2>1, <1>1
<1>4. key \in f.keys => m = n
  <2>1. key \in f.keys => g.keys = f.keys
    BY <1>1
  <2> QED
    BY <2>1
<1>5. key \notin f.keys => m = n + 1
  <2>1. key \notin f.keys => Cardinality(f.keys \cup {key}) = n + 1
    BY <1>2, FS_AddElement
  <2> QED
    BY <2>1, <1>1
<1>6. k \in Nat
  BY <1>1
<1>7. full \/ n <= k + 0
  BY DEF Sound
<1>8. Sound(g, 1) <=> full \/ m <= k + 1
  BY <1>1, <1>3 DEF Sound
<1>9. Short(f, 0) <=> full \/ n < k + 0
  BY DEF Short
<1>10. Short(g, 1) <=> full \/ m < k + 1
  BY <1>1 DEF Short
<1> HIDE DEF n, m, k
<1>11. n <= k + 0 => /\ m = n => m < k + 1 /\ m <= k + 1
                     /\ m = n + 1 => m <= k + 1 /\ (m < k + 1 <=> n < k + 0)
  <2> SUFFICES ASSUME n <= k + 0
               PROVE  /\ m = n => m < k + 1 /\ m <= k + 1
                      /\ m = n + 1 => m <= k + 1 /\ (m < k + 1 <=> n < k + 0)
    OBVIOUS
  <2>1. /\ n < k + 1 /\ n <= k + 1 /\ n + 1 <= k + 1
        /\ n + 1 < k + 1 <=> n < k + 0
    BY <1>2, <1>6, OneMore
  <2> QED
    BY <2>1
<1>12. (m = n \/ m = n + 1) /\ (key \in f.keys => m = n) /\ (key \notin f.keys => m = n + 1)
  BY <1>4, <1>5
<1>13. CASE full
  BY <1>1, <1>8, <1>9, <1>10, <1>13 DEF g
<1>14. CASE ~full
  <2>1. n <= k + 0
    BY <1>7, <1>14
  <2>2. /\ m = n => m < k + 1 /\ m <= k + 1
        /\ m = n + 1 => m <= k + 1 /\ (m < k + 1 <=> n < k + 0)
    BY <2>1, <1>11
  <2> HIDE DEF full
  <2> QED
    BY <2>2, <1>1, <1>8, <1>9, <1>10, <1>12, <1>14 DEF g
<1> QED
  BY <1>13, <1>14

\* What Character makes of units.
UnitsAfter(units, c) ==
    IF units \in {"lone", "separator"} THEN units
    ELSE IF units = "high" /\ c = "uDC00" THEN "plain"
    ELSE IF units = "high" \/ c = "uDC00" THEN "lone"
    ELSE CASE c = "uD800"                  -> "high"
           [] c \in {"separator", "u2028"} -> "separator"
           [] OTHER                        -> "plain"

\* UnitsAfter is one of the units.
LEMMA UnitsType ==
    ASSUME NEW units \in Units, NEW c
    PROVE  UnitsAfter(units, c) \in Units
BY DEF Units, UnitsAfter

\* The symbols that are fed after p.
Spelled(p, c) ==
    /\ c \in Escapes => p.place = "escape"
    /\ InString(p) /\ p.is_key =>
          \/ c = "quote" /\ p.place = "string"
          \/ p.key = "" /\ (c = "backslash" \/ c \in KeySymbols \cup {"u0061"})

\* A character of a string, as it stands or escaped.
LEMMA CharacterTaken ==
    ASSUME NEW r, NEW p, WellFormed(p), InString(p), NEW c, Spelled(p, c),
           p.place = "string" => c # "quote"
    PROVE  LET q == Character("grammar", p, c)
           IN  /\ Taken(r, p, q, Character(r, p, c))
               /\ q.stack = p.stack /\ q.place = "string" /\ q.units = UnitsAfter(p.units, c)
               /\ r = "dotnet" /\ q.units = "lone" => Character(r, p, c) = Refused
<1> DEFINE units == UnitsAfter(p.units, c)
           key == IF ~p.is_key THEN p.key ELSE IF c = "u0061" THEN "a" ELSE c
           q == [p EXCEPT !.place = "string", !.units = units, !.key = key]
<1>0. p \in Parsers
  BY DEF WellFormed
<1>1. /\ Character("grammar", p, c) = q
      /\ Character(r, p, c) = IF r = "dotnet" /\ units = "lone" THEN Refused ELSE q
  BY DEF Character, RefusesCharacter, UnitsAfter
<1>2. units \in Units
  BY <1>0, ParserFields, UnitsType
<1>3. key \in Keys
  <2>1. CASE p.is_key = TRUE
    <3>1. c = "backslash" \/ c \in KeySymbols \cup {"u0061"}
      BY <2>1 DEF Spelled
    <3> QED
      BY <3>1, <2>1 DEF Keys
  <2>2. CASE p.is_key = FALSE
    BY <2>2, <1>0, ParserFields
  <2> QED
    BY <2>1, <2>2, <1>0, ParserFields
<1> HIDE DEF q, key, units
<1>4. /\ q \in Parsers /\ q.stack = p.stack /\ q.place = "string" /\ q.units = units
      /\ q.late = p.late /\ q.is_key = p.is_key
  BY <1>0, <1>2, <1>3 DEF Parsers, Units, q
<1>5. InString(q)
  BY <1>4 DEF InString
<1>6. Alike(p, q)
  <2> SUFFICES ASSUME NEW i \in 1..Len(p.stack) PROVE Pending(q, i) = Pending(p, i)
    BY <1>4 DEF Alike
  <2>1. p.place \notin {"colon", "value"} /\ q.place \notin {"colon", "value"}
    BY <1>4 DEF InString
  <2> QED
    BY <2>1, <1>4, <1>5 DEF Pending
<1>7. p.units \in {"lone", "separator"} => q.units = p.units
  <2>1. p.units \in {"lone", "separator"} => UnitsAfter(p.units, c) = p.units
    BY DEF UnitsAfter
  <2> QED
    BY <2>1, <1>4 DEF units
<1>8. q.is_key => Inside(q, "{")
  <2> SUFFICES ASSUME q.is_key PROVE Inside(p, "{")
    BY <1>4 DEF Inside, Top
  <2> QED
    BY <1>4 DEF WellFormed
<1>9. Taken(r, p, q, q)
  BY <1>4, <1>5, <1>6, <1>7, <1>8, AlikeIsTaken
<1>10. units = "lone" => Doomed(q)
  BY <1>4 DEF Doomed
<1>11. Taken(r, p, q, Character(r, p, c))
  BY <1>1, <1>9, <1>10 DEF Taken
<1> QED
  BY <1>1, <1>4, <1>11 DEF units

\* The quote that ends a string.
LEMMA StringEnds ==
    ASSUME NEW r, NEW p, WellFormed(p), WireBounds, p.place = "string",
           r = "go" => p.units \notin {"high", "lone"}
    PROVE  LET q == EndOfString("grammar", p)
           IN  /\ Taken(r, p, q, EndOfString(r, p))
               /\ Len(q.stack) = Len(p.stack)
               /\ ~InString(q)
               /\ p.units # "plain" => Doomed(q)
<1> DEFINE late == p.late \/ p.units # "plain"
           ended == [p EXCEPT !.units = "plain", !.key = "", !.is_key = FALSE, !.late = late]
           n == Len(p.stack)
<1>0. p \in Parsers /\ n \in Nat /\ InString(p) /\ late \in BOOLEAN
  BY StackFrames DEF InString, WellFormed
<1> HIDE DEF late
<1>1. /\ ended \in Parsers /\ ended.stack = p.stack /\ ended.place = p.place
      /\ ended.units = "plain" /\ ended.is_key = FALSE /\ ended.late = late
  BY <1>0 DEF Parsers, Keys
<1> HIDE DEF ended
<1>2. RefusesString(r, p.units) => p.units # "plain" /\ late
  BY DEF RefusesString, late
<1>3. r \in Strict /\ ~RefusesString(r, p.units) => p.units = "plain"
  BY <1>0, ParserFields DEF RefusesString, Strict, Units
<1>4. Doomed(p) => late \/ \E i \in 1..n : Short(p.stack[i], Pending(p, i))
  BY DEF Doomed, late
<1>5. CASE p.is_key = FALSE
  <2> DEFINE q == Completed("grammar", ended)
  <2>1. /\ EndOfString("grammar", p) = q
        /\ EndOfString(r, p) = IF RefusesString(r, p.units) THEN Refused
                               ELSE Completed(r, ended)
    BY <1>5 DEF EndOfString, RefusesString, ended, late
  <2>2. ~p.is_key /\ ~ended.is_key
    BY <1>5, <1>1
  <2>3. ValueBegun(p)
    BY <1>0, <2>2, ValueExpected
  <2>4. \A i \in 1..Len(ended.stack) : Sound(ended.stack[i], 1)
    BY <2>3, <1>1 DEF ValueBegun, WellFormed
  <2>5. /\ WellFormed(q) /\ q.late = ended.late /\ Len(q.stack) = Len(ended.stack)
        /\ ~InString(q)
        /\ (\E i \in 1..Len(ended.stack) : Short(ended.stack[i], 1)) => Doomed(q)
        /\ Completed(r, ended) \in {Refused, q}
        /\ Completed(r, ended) = Refused => Doomed(q)
        /\ r \in Strict /\ Completed(r, ended) # Refused /\ ~ended.late
           /\ (\A i \in 1..Len(ended.stack) : ~Short(ended.stack[i], 1)) => Clean(q)
    BY <1>1, <2>2, <2>4, ValueCompleted
  <2> HIDE DEF q
  <2>6. late => Doomed(q)
    BY <2>5, <1>1 DEF Doomed
  <2>7. Doomed(p) => Doomed(q)
    BY <1>4, <1>1, <2>3, <2>5, <2>6 DEF ValueBegun
  <2>8. r \in Strict /\ EndOfString(r, p) # Refused /\ Clean(p) => Clean(q)
    BY <1>1, <1>3, <2>1, <2>3, <2>5 DEF Clean, ValueBegun, late
  <2>9. EndOfString(r, p) \in {Refused, q} /\ (EndOfString(r, p) = Refused => Doomed(q))
    BY <1>2, <2>1, <2>5, <2>6
  <2>10. Taken(r, p, q, EndOfString(r, p))
    BY <2>5, <2>7, <2>8, <2>9 DEF Taken
  <2> QED
    BY <1>1, <2>1, <2>5, <2>6, <2>10 DEF late
<1>6. CASE p.is_key = TRUE
  <2>0. Inside(p, "{") /\ p.stack # <<>> /\ Top(p).kind = "{" /\ p.key \in Keys
    BY <1>6, <1>0, ParserFields DEF WellFormed, Inside
  <2>1. n \in Nat \ {0} /\ n \in 1..n /\ Top(p) \in Frames /\ Top(p) = p.stack[n]
    BY <1>0, <2>0, TopFrame DEF Top
  <2> DEFINE frame == [Top(p) EXCEPT !.keys = @ \cup {p.key}]
             stack == WithTop(p, frame)
             q == [ended EXCEPT !.place = "colon", !.stack = stack]
             refuses == RefusesString(r, p.units) \/ RefusesKey(r, Top(p), p.key)
  <2>2. EndOfString("grammar", p) = q /\ EndOfString(r, p) = IF refuses THEN Refused ELSE q
    BY <1>6 DEF EndOfString, RefusesString, RefusesKey, ended, late
  <2>3. refuses <=> RefusesString(r, p.units) \/ (r \in Strict /\ p.key \in Top(p).keys)
    BY DEF RefusesKey, Strict
  <2> HIDE DEF refuses
  <2>4. Pending(p, n) = 0 /\ \A i \in 1..n : i # n => Pending(p, i) = 1
    BY <1>0, <1>6 DEF Pending, InString
  <2>5. Sound(Top(p), 0)
    BY <2>1, <2>4 DEF WellFormed
  <2>6. /\ frame \in Frames /\ Sound(frame, 1)
        /\ Short(Top(p), 0) => Short(frame, 1)
        /\ p.key \in Top(p).keys => Short(frame, 1)
        /\ p.key \notin Top(p).keys /\ ~Short(Top(p), 0) => ~Short(frame, 1)
    BY <2>0, <2>1, <2>5, KeyTaken
  <2>13. frame.kind = "{"
    BY <2>0, <2>1 DEF Frames
  <2> HIDE DEF frame
  <2>7. /\ stack \in Seq(Frames) /\ Len(stack) = n
        /\ \A i \in 1..n : stack[i] = IF i = n THEN frame ELSE p.stack[i]
    BY <1>0, <2>0, <2>6, TopReplaced
  <2> HIDE DEF stack, q
  <2>8. /\ q \in Parsers /\ q.stack = stack /\ q.place = "colon"
        /\ q.units = "plain" /\ q.is_key = FALSE /\ q.late = late
    BY <1>1, <2>7 DEF Parsers, q
  <2>9. ~InString(q) /\ ~q.is_key /\ Inside(q, "{")
    <3>1. q.stack # <<>>
      BY <2>1, <2>7, <2>8, EmptySeq
    <3>2. Top(q) = frame
      BY <2>1, <2>7, <2>8 DEF Top
    <3> QED
      BY <2>8, <2>13, <3>1, <3>2 DEF InString, Inside
  <2>10. \A i \in 1..n : Pending(q, i) = 1
    BY <2>8 DEF Pending
  <2>11. \A i \in 1..n : /\ i = n => q.stack[i] = frame /\ p.stack[i] = Top(p)
                         /\ i # n => q.stack[i] = p.stack[i]
    BY <2>1, <2>7, <2>8
  <2> HIDE DEF n
  <2>12. \A i \in 1..n : Sound(q.stack[i], Pending(q, i))
    BY <2>4, <2>6, <2>10, <2>11 DEF WellFormed, n
  <2>14. WellFormed(q)
    BY <2>7, <2>8, <2>9, <2>12 DEF WellFormed, Inside
  <2>15. late => Doomed(q)
    BY <2>8 DEF Doomed
  <2>16. \A i \in 1..n : Short(p.stack[i], Pending(p, i)) => Short(q.stack[i], Pending(q, i))
    BY <2>4, <2>6, <2>10, <2>11
  <2>17. Doomed(p) => Doomed(q)
    BY <1>4, <2>7, <2>8, <2>15, <2>16 DEF Doomed
  <2>18. refuses => Doomed(q)
    <3>1. p.key \in Top(p).keys => Short(q.stack[n], Pending(q, n))
      BY <2>1, <2>6, <2>10, <2>11
    <3> QED
      BY <1>2, <2>1, <2>3, <2>7, <2>8, <2>15, <3>1 DEF Doomed
  <2>19. r \in Strict /\ ~refuses /\ Clean(p) => Clean(q)
    <3> SUFFICES ASSUME r \in Strict, ~refuses, Clean(p) PROVE Clean(q)
      OBVIOUS
    <3>1. ~late
      BY <1>3, <2>3 DEF Clean, late
    <3>2. ~Short(Top(p), 0)
      BY <2>1, <2>4 DEF Clean, n
    <3>3. ~Short(frame, 1)
      BY <2>3, <2>6, <3>2
    <3>4. \A i \in 1..n : ~Short(q.stack[i], Pending(q, i))
      BY <2>4, <2>10, <2>11, <3>3 DEF Clean, n
    <3> QED
      BY <2>7, <2>8, <3>1, <3>4 DEF Clean
  <2>20. q # Refused
    BY <2>8, ParserFields
  <2>21. Taken(r, p, q, EndOfString(r, p))
    BY <2>2, <2>14, <2>17, <2>18, <2>19, <2>20 DEF Taken
  <2> QED
    BY <2>2, <2>7, <2>8, <2>9, <2>15, <2>21 DEF late, n
<1> QED
  BY <1>0, <1>5, <1>6, ParserFields

\* The symbols that every reader refuses although the grammar takes them: a
\* bracket below the bound of the nesting, and the end of an object that has
\* a key twice or too many members.
Forbidden(p, c) ==
    /\ ~InString(p)
    /\ \/ c \in Opening /\ Len(p.stack) >= MaxDepth
       \/ c \in Closing /\ p.stack # <<>> /\ Top(p).kind = "{" /\ Short(Top(p), 0)

\* What a symbol does to the outline of a text, which is all the scans see.
Outline(p, c, q) ==
    IF InString(p)
    THEN /\ Len(q.stack) = Len(p.stack)
         /\ p.place = "escape" \/ c \notin {"backslash", "quote"} =>
              q.place = "string" /\ q.units = UnitsAfter(p.units, c)
         /\ p.place = "string" /\ c = "backslash" =>
              q.place = "escape" /\ q.units = p.units
         /\ p.place = "string" /\ c = "quote" =>
              ~InString(q) /\ (p.units # "plain" => Doomed(q))
    ELSE /\ c = "quote" => q.place = "string" /\ q.units = "plain"
         /\ c # "quote" => ~InString(q)
         /\ c \in Opening => Len(q.stack) = Len(p.stack) + 1
         /\ c \in Closing => p.stack # <<>> /\ Len(q.stack) = Len(p.stack) - 1
         /\ c \notin Opening \cup Closing => Len(q.stack) = Len(p.stack)

\* A natural number that is not at the bound is below it.
LEMMA NotAtTheBound ==
    ASSUME NEW m \in Nat, NEW n \in Nat, ~(m >= n)
    PROVE  m < n
OBVIOUS

\* Any symbol outside of strings.
LEMMA StructureRead ==
    ASSUME NEW r, NEW p, WellFormed(p), WireBounds, ~InString(p), NEW c \in Symbols,
           ~Forbidden(p, c)
    PROVE  LET q == Structure("grammar", p, c)
               o == Structure(r, p, c)
           IN  \/ o = Refused /\ q = Refused
               \/ Taken(r, p, q, o) /\ Outline(p, c, q)
<1> DEFINE q == Structure("grammar", p, c)
           o == Structure(r, p, c)
<1>0. p \in Parsers /\ p.units = "plain" /\ Len(p.stack) \in Nat /\ MaxDepth \in Nat
  BY StackFrames DEF WellFormed, WireBounds
<1> SUFFICES \/ o = Refused /\ q = Refused
             \/ Taken(r, p, q, o) /\ Outline(p, c, q)
  OBVIOUS
<1>1. CASE c \in {"space", "newline"}
  <2>1. q = p /\ o = p
    BY <1>1 DEF Structure, Numbers, Opening
  <2> HIDE DEF q, o
  <2>2. Alike(p, p)
    BY DEF Alike
  <2>3. Taken(r, p, p, p)
    BY <1>0, <2>2, AlikeIsTaken DEF WellFormed
  <2>4. Outline(p, c, p)
    BY <1>1 DEF Outline, Opening, Closing
  <2> QED
    BY <2>1, <2>3, <2>4
<1>2. CASE c \in Opening
  <2>1. c \notin Closing /\ c # "quote"
    BY <1>2 DEF Opening, Closing
  <2>2. ASSUME NEW s
        PROVE  Structure(s, p, c) = IF ExpectsValue(p) THEN Open(s, p, c) ELSE Refused
    BY <1>2 DEF Structure, Numbers, Opening
  <2>3. /\ q = IF ExpectsValue(p) THEN Open("grammar", p, c) ELSE Refused
        /\ o = IF ExpectsValue(p) THEN Open(r, p, c) ELSE Refused
    BY <2>2
  <2> HIDE DEF q, o
  <2>4. CASE ExpectsValue(p)
    <3>1. ~(Len(p.stack) >= MaxDepth)
      BY <1>2 DEF Forbidden
    <3>2. Len(p.stack) < MaxDepth
      BY <1>0, <3>1, NotAtTheBound
    <3>3. Taken(r, p, q, o) /\ Len(q.stack) = Len(p.stack) + 1 /\ ~InString(q)
      BY <1>2, <2>3, <2>4, <3>2, ValueOpens
    <3> QED
      BY <1>2, <2>1, <3>3 DEF Outline
  <2> QED
    BY <2>3, <2>4
<1>3. CASE c = "null"
  <2>1. c \notin Closing \cup Opening /\ c # "quote"
    BY <1>3 DEF Opening, Closing
  <2>2. ASSUME NEW s
        PROVE  Structure(s, p, c) = IF ExpectsValue(p) THEN Completed(s, p) ELSE Refused
    BY <1>3 DEF Structure, Numbers, Opening
  <2>3. /\ q = IF ExpectsValue(p) THEN Completed("grammar", p) ELSE Refused
        /\ o = IF ExpectsValue(p) THEN Completed(r, p) ELSE Refused
    BY <2>2
  <2> HIDE DEF q, o
  <2>4. CASE ExpectsValue(p)
    <3>1. Taken(r, p, q, o) /\ Len(q.stack) = Len(p.stack) /\ ~InString(q)
      BY <2>3, <2>4, LiteralRead
    <3> QED
      BY <2>1, <3>1 DEF Outline
  <2> QED
    BY <2>3, <2>4
<1>4. CASE c = "quote"
  <2>1. c \notin Closing \cup Opening
    BY <1>4 DEF Opening, Closing
  <2> DEFINE string(is_key) == [p EXCEPT !.place = "string", !.is_key = is_key]
  <2>2. ~(ExpectsValue(p) /\ ExpectsKey(p))
    BY DEF ExpectsValue, ExpectsKey, Inside
  <2>3. ASSUME NEW s
        PROVE  Structure(s, p, c) = IF ExpectsValue(p) THEN string(FALSE)
                                    ELSE IF ExpectsKey(p) THEN string(TRUE) ELSE Refused
    BY <1>4, <2>2 DEF Structure, Numbers, Opening
  <2>4. /\ o = q
        /\ q = IF ExpectsValue(p) THEN string(FALSE)
               ELSE IF ExpectsKey(p) THEN string(TRUE) ELSE Refused
    BY <2>3
  <2> HIDE DEF q, o
  <2>5. ASSUME NEW is_key \in BOOLEAN, is_key = TRUE => ExpectsKey(p),
               is_key = FALSE => ExpectsValue(p), q = string(is_key)
        PROVE  Taken(r, p, q, o) /\ Outline(p, c, q)
    <3>1. Taken(r, p, q, q) /\ q.place = "string" /\ q.stack = p.stack
      BY <2>5, StringBegins
    <3>2. q.units = p.units
      BY <1>0, <2>5, StringUpdate
    <3> QED
      BY <1>0, <1>4, <2>1, <2>4, <3>1, <3>2 DEF Outline
  <2>6. CASE ExpectsValue(p)
    <3>1. q = string(FALSE)
      BY <2>4, <2>6
    <3> QED
      BY <2>5, <2>6, <3>1
  <2>7. CASE ~ExpectsValue(p) /\ ExpectsKey(p)
    <3>1. q = string(TRUE)
      BY <2>4, <2>7
    <3> QED
      BY <2>5, <2>7, <3>1
  <2> HIDE DEF string
  <2> QED
    BY <2>4, <2>6, <2>7
<1>5. CASE c \in {":", ","}
  <2>1. c \notin Closing \cup Opening /\ c # "quote"
    BY <1>5 DEF Opening, Closing
  <2> DEFINE fits == (c = ":" /\ p.place = "colon") \/ (c = "," /\ p.place = "next")
             place == IF c = "," /\ Inside(p, "{") THEN "key" ELSE "value"
  <2>2. ASSUME NEW s
        PROVE  Structure(s, p, c) = IF fits THEN [p EXCEPT !.place = place] ELSE Refused
    <3>1. CASE c = ":"
      BY <3>1 DEF Structure, Numbers, Opening
    <3>2. CASE c = ","
      BY <3>2 DEF Structure, Numbers, Opening
    <3> QED
      BY <1>5, <3>1, <3>2
  <2>3. o = q /\ q = IF fits THEN [p EXCEPT !.place = place] ELSE Refused
    BY <2>2
  <2> HIDE DEF q, o
  <2>4. CASE fits
    <3>1. place \in {"value", "key"}
      OBVIOUS
    <3>2. place \in Places
      BY DEF Places
    <3>3. \/ p.place = "colon" /\ place = "value"
          \/ p.place = "next" /\ Inside(p, "{") /\ place = "key"
          \/ p.place = "next" /\ ~Inside(p, "{") /\ place = "value"
      BY <2>4
    <3>4. q = [p EXCEPT !.place = place]
      BY <2>3, <2>4
    <3> HIDE DEF place, fits
    <3>5. Taken(r, p, q, q) /\ q.place = place /\ q.stack = p.stack
      BY <3>2, <3>3, <3>4, PlaceMoves
    <3>6. ~InString(q)
      BY <3>1, <3>5 DEF InString
    <3> QED
      BY <2>1, <2>3, <3>5, <3>6 DEF Outline
  <2> HIDE DEF fits
  <2> QED
    BY <2>3, <2>4
<1>6. CASE c \in Closing
  <2>1. c \notin Opening /\ c # "quote"
    BY <1>6 DEF Opening, Closing
  <2> DEFINE fits == /\ p.place \in {"first", "next"}
                     /\ \/ c = "}" /\ Inside(p, "{")
                        \/ c = "]" /\ Inside(p, "[")
  <2>2. ASSUME NEW s
        PROVE  Structure(s, p, c) = IF fits THEN Close(s, p) ELSE Refused
    BY <1>6 DEF Structure, Numbers, Opening, Closing
  <2>3. /\ q = IF fits THEN Close("grammar", p) ELSE Refused
        /\ o = IF fits THEN Close(r, p) ELSE Refused
    BY <2>2
  <2> HIDE DEF q, o
  <2>4. CASE fits
    <3>1. p.stack # <<>> /\ p.place \in {"first", "next"}
      BY <2>4 DEF Inside
    <3>2. Top(p).kind = "{" => ~Short(Top(p), 0)
      BY <1>6, <3>1 DEF Forbidden
    <3>3. q = Close("grammar", p) /\ o = Close(r, p)
      BY <2>3, <2>4
    <3> HIDE DEF fits
    <3>4. Taken(r, p, q, o) /\ Len(q.stack) = Len(p.stack) - 1 /\ ~InString(q)
      BY <3>1, <3>2, <3>3, ValueCloses
    <3> QED
      BY <1>6, <2>1, <3>1, <3>4 DEF Outline
  <2> HIDE DEF fits
  <2> QED
    BY <2>3, <2>4
<1>7. CASE c \notin {"space", "newline", "null", "quote", ":", ","} \cup Opening \cup Closing
  <2>1. ASSUME NEW s PROVE Structure(s, p, c) = Refused
    BY <1>7 DEF Structure, Numbers, Opening, Closing
  <2> QED
    BY <2>1
<1> HIDE DEF q, o
<1> QED
  BY <1>1, <1>2, <1>3, <1>4, <1>5, <1>6, <1>7

\* Any symbol: it is refused by the grammar and by the reader, or taken by the
\* grammar.  Go must not get to the end of a string that has lone surrogates.
LEMMA SymbolRead ==
    ASSUME NEW r, NEW p, WellFormed(p), WireBounds, NEW c \in Symbols, Spelled(p, c),
           ~Forbidden(p, c),
           r = "go" /\ p.place = "string" /\ c = "quote" => p.units \notin {"high", "lone"}
    PROVE  LET q == Grammar(p, c)
               o == Parse(r, p, c)
           IN  \/ o = Refused /\ q = Refused
               \/ /\ Taken(r, p, q, o) /\ Outline(p, c, q)
                  /\ r = "dotnet" /\ p.units # "lone" /\ o # Refused => q.units # "lone"
<1> DEFINE q == Grammar(p, c)
           o == Parse(r, p, c)
<1>0. p \in Parsers
  BY DEF WellFormed
<1> SUFFICES \/ o = Refused /\ q = Refused
             \/ /\ Taken(r, p, q, o) /\ Outline(p, c, q)
                /\ r = "dotnet" /\ p.units # "lone" /\ o # Refused => q.units # "lone"
  OBVIOUS
<1>1. ASSUME InString(p), p.place = "string" => c # "quote",
             q = Character("grammar", p, c), o = Character(r, p, c),
             p.place = "escape" \/ c \notin {"backslash", "quote"}
      PROVE  /\ Taken(r, p, q, o) /\ Outline(p, c, q)
             /\ r = "dotnet" /\ p.units # "lone" /\ o # Refused => q.units # "lone"
  <2> HIDE DEF q, o
  <2>1. /\ Taken(r, p, q, o)
        /\ q.stack = p.stack /\ q.place = "string" /\ q.units = UnitsAfter(p.units, c)
        /\ r = "dotnet" /\ q.units = "lone" => o = Refused
    BY <1>1, CharacterTaken
  <2>2. Outline(p, c, q)
    BY <1>1, <2>1 DEF Outline
  <2> QED
    BY <2>1, <2>2
<1>2. CASE p.place = "escape"
  <2> DEFINE escapes == Escapes \cup {"quote", "backslash"}
  <2>1. ASSUME NEW s
        PROVE  Parse(s, p, c) = IF c \in escapes THEN Character(s, p, c) ELSE Refused
    BY <1>2 DEF Parse
  <2>2. /\ q = IF c \in escapes THEN Character("grammar", p, c) ELSE Refused
        /\ o = IF c \in escapes THEN Character(r, p, c) ELSE Refused
    BY <2>1 DEF Grammar
  <2>3. InString(p)
    BY <1>2 DEF InString
  <2> HIDE DEF q, o, escapes
  <2> QED
    BY <1>1, <1>2, <2>2, <2>3
<1>3. CASE p.place = "string" /\ c = "backslash"
  <2>1. q = [p EXCEPT !.place = "escape"] /\ o = q
    BY <1>3 DEF Parse, Grammar
  <2>2. InString(p) /\ "escape" \in Places
    BY <1>3 DEF InString, Places
  <2> HIDE DEF q, o
  <2>3. Taken(r, p, q, q) /\ q.place = "escape" /\ q.stack = p.stack /\ q.units = p.units
    BY <1>3, <2>1, <2>2, PlaceMoves
  <2>4. Outline(p, c, q)
    BY <1>3, <2>2, <2>3 DEF Outline
  <2> QED
    BY <2>1, <2>3, <2>4
<1>4. CASE p.place = "string" /\ c = "quote"
  <2>1. q = EndOfString("grammar", p) /\ o = EndOfString(r, p)
    BY <1>4 DEF Parse, Grammar
  <2>2. InString(p)
    BY <1>4 DEF InString
  <2> HIDE DEF q, o
  <2>3. /\ Taken(r, p, q, o) /\ Len(q.stack) = Len(p.stack) /\ ~InString(q)
        /\ p.units # "plain" => Doomed(q)
    BY <1>4, <2>1, StringEnds
  <2>4. Outline(p, c, q)
    BY <1>4, <2>2, <2>3 DEF Outline
  <2>5. q.units = "plain"
    BY <2>3 DEF Taken, WellFormed
  <2> QED
    BY <2>3, <2>4, <2>5
<1>5. CASE p.place = "string" /\ c = "newline"
  <2>1. ASSUME NEW s PROVE Parse(s, p, c) = Refused
    BY <1>5 DEF Parse
  <2> QED
    BY <2>1 DEF Grammar
<1>6. CASE p.place = "string" /\ c \notin {"backslash", "quote", "newline"}
  <2>1. ASSUME NEW s PROVE Parse(s, p, c) = Character(s, p, c)
    BY <1>6 DEF Parse
  <2>2. q = Character("grammar", p, c) /\ o = Character(r, p, c)
    BY <2>1 DEF Grammar
  <2>3. InString(p)
    BY <1>6 DEF InString
  <2> HIDE DEF q, o
  <2> QED
    BY <1>1, <1>6, <2>2, <2>3
<1>7. CASE ~InString(p)
  <2>1. ASSUME NEW s PROVE Parse(s, p, c) = Structure(s, p, c)
    BY <1>7 DEF Parse, InString
  <2>2. q = Structure("grammar", p, c) /\ o = Structure(r, p, c)
    BY <2>1 DEF Grammar
  <2> HIDE DEF q, o
  <2>3. \/ o = Refused /\ q = Refused
        \/ Taken(r, p, q, o) /\ Outline(p, c, q)
    BY <1>7, <2>2, StructureRead
  <2>4. Taken(r, p, q, o) /\ Outline(p, c, q) => q.units = "plain"
    <3> SUFFICES ASSUME Taken(r, p, q, o), Outline(p, c, q) PROVE q.units = "plain"
      OBVIOUS
    <3>1. CASE c = "quote"
      BY <1>7, <3>1 DEF Outline
    <3>2. CASE c # "quote"
      BY <1>7, <3>2 DEF Outline, Taken, WellFormed
    <3> QED
      BY <3>1, <3>2
  <2> QED
    BY <2>3, <2>4
<1> HIDE DEF q, o
<1> QED
  BY <1>2, <1>3, <1>4, <1>5, <1>6, <1>7 DEF InString

-----------------------------------------------------------------------------
(* The scan of the bytes follows the parser *)

\* The scan has seen the brackets and quotes that the parser has.
Follows(s, p) ==
    /\ s.depth = Len(p.stack)
    /\ s.in_string = InString(p)
    /\ s.escaped = (p.place = "escape")

\* What Go's scan waits for is what the last character of the string asks for.
Paired(s, p) ==
    /\ s.pair = "none" => p.units # "high"
    /\ s.pair = "backslash" => p.place = "string" /\ p.units \in {"high", "separator"}
    /\ s.pair = "uDC00" => p.place = "escape" /\ p.units \in {"high", "separator"}

\* What holds of a reader that has not refused.
ReaderOK(r, s, p) ==
    /\ WellFormed(p) /\ s \in Scans
    /\ Len(p.stack) <= MaxDepth
    /\ r \in Scanning => Follows(s, p)
    /\ r = "go" => Paired(s, p)
    /\ r # "go" => s.pair = "none"
    /\ r \in Strict => Clean(p)
    /\ r \in {"go", "dotnet"} => p.units # "lone"

\* The fields of a scan.
LEMMA ScanFields ==
    ASSUME NEW s \in Scans
    PROVE  /\ s.depth \in Nat /\ s.depth \in 0..MaxDepth /\ s.in_string \in BOOLEAN
           /\ s.escaped \in BOOLEAN /\ s.pair \in {"none", "backslash", "uDC00"}
           /\ s # Refused
BY DEF Scans, Refused

\* A scan that only changes its depth.
LEMMA DepthUpdate ==
    ASSUME NEW s \in Scans, NEW depth \in 0..MaxDepth
    PROVE  LET t == [s EXCEPT !.depth = depth]
           IN  /\ t \in Scans /\ t.depth = depth
               /\ t.in_string = s.in_string /\ t.escaped = s.escaped /\ t.pair = s.pair
BY DEF Scans

\* Follows with the flags as formulas.
LEMMA FollowsWhen ==
    ASSUME NEW s \in Scans, NEW p
    PROVE  Follows(s, p) <=> /\ s.depth = Len(p.stack)
                             /\ s.in_string <=> p.place \in {"string", "escape"}
                             /\ s.escaped <=> p.place = "escape"
<1>1. s.in_string \in BOOLEAN /\ s.escaped \in BOOLEAN
  BY ScanFields
<1>2. (s.in_string = InString(p)) <=> (s.in_string <=> p.place \in {"string", "escape"})
  BY <1>1 DEF InString
<1>3. (s.escaped = (p.place = "escape")) <=> (s.escaped <=> p.place = "escape")
  BY <1>1
<1> QED
  BY <1>2, <1>3 DEF Follows

\* Python's scan (wire.py, _check_depth; stdlib_check.py, _depth) follows the
\* parser through every symbol that is not forbidden.
LEMMA DepthFollows ==
    ASSUME WireBounds, NEW s \in Scans, NEW p, WellFormed(p), Follows(s, p),
           NEW c, ~Forbidden(p, c),
           NEW q, WellFormed(q), Outline(p, c, q)
    PROVE  LET t == CheckDepth(s, c)
           IN  t \in Scans /\ t.pair = s.pair /\ Follows(t, q)
<1> DEFINE t == CheckDepth(s, c)
<1> SUFFICES t \in Scans /\ t.pair = s.pair /\ Follows(t, q)
  OBVIOUS
<1>0. /\ Len(p.stack) \in Nat /\ Len(q.stack) \in Nat /\ MaxDepth \in Nat
      /\ p.stack # <<>> => Len(p.stack) # 0
  BY StackFrames DEF WellFormed, WireBounds
<1>1. /\ s.depth \in 0..MaxDepth /\ s.depth = Len(p.stack) /\ s.in_string = InString(p)
      /\ s.escaped = (p.place = "escape")
  BY ScanFields DEF Follows
<1>2. CASE p.place = "escape"
  <2>1. s.in_string /\ s.escaped
    BY <1>1, <1>2 DEF InString
  <2>2. t = [s EXCEPT !.escaped = FALSE]
    BY <2>1 DEF CheckDepth
  <2> HIDE DEF t
  <2>3. /\ t \in Scans /\ t.escaped = FALSE /\ t.in_string = s.in_string
        /\ t.depth = s.depth /\ t.pair = s.pair
    BY <2>2 DEF Scans
  <2>4. q.place = "string" /\ Len(q.stack) = Len(p.stack)
    BY <1>2 DEF Outline, InString
  <2> QED
    BY <1>1, <1>2, <2>3, <2>4 DEF Follows, InString
<1>3. CASE p.place = "string"
  <2>1. s.in_string /\ ~s.escaped /\ InString(p)
    BY <1>1, <1>3 DEF InString
  <2>2. t = [s EXCEPT !.escaped = c = "backslash", !.in_string = c # "quote"]
    BY <2>1 DEF CheckDepth
  <2> HIDE DEF t
  <2>3. /\ t \in Scans /\ t.escaped = (c = "backslash") /\ t.in_string = (c # "quote")
        /\ t.depth = s.depth /\ t.pair = s.pair
    BY <2>2 DEF Scans
  <2>4. Len(q.stack) = Len(p.stack)
    BY <2>1 DEF Outline
  <2>5. CASE c = "backslash"
    <3>1. q.place = "escape"
      BY <1>3, <2>1, <2>5 DEF Outline
    <3> QED
      BY <1>1, <2>3, <2>4, <2>5, <3>1 DEF Follows, InString
  <2>6. CASE c = "quote"
    <3>1. q.place \notin {"string", "escape"}
      BY <1>3, <2>1, <2>6 DEF Outline, InString
    <3>2. ~t.escaped /\ ~t.in_string
      BY <2>3, <2>6
    <3> QED
      BY <1>1, <2>3, <2>4, <3>1, <3>2, FollowsWhen
  <2>7. CASE c \notin {"backslash", "quote"}
    <3>1. q.place = "string"
      BY <1>3, <2>1, <2>7 DEF Outline
    <3> QED
      BY <1>1, <2>3, <2>4, <2>7, <3>1 DEF Follows, InString
  <2> QED
    BY <2>5, <2>6, <2>7
<1>4. CASE ~InString(p)
  <2>1. ~s.in_string /\ ~s.escaped
    BY <1>1, <1>4 DEF InString
  <2>2. CASE c = "quote"
    <3>1. t = [s EXCEPT !.in_string = TRUE]
      BY <2>1, <2>2 DEF CheckDepth
    <3> HIDE DEF t
    <3>2. /\ t \in Scans /\ t.escaped = s.escaped /\ t.in_string = TRUE
          /\ t.depth = s.depth /\ t.pair = s.pair
      BY <3>1 DEF Scans
    <3>3. q.place = "string" /\ Len(q.stack) = Len(p.stack)
      BY <1>4, <2>2 DEF Outline, Opening, Closing
    <3> QED
      BY <1>1, <2>1, <3>2, <3>3 DEF Follows, InString
  <2>3. CASE c # "quote"
    <3>0. q.place \notin {"string", "escape"}
      BY <1>4, <2>3 DEF Outline, InString
    <3>1. ASSUME NEW depth \in 0..MaxDepth, t = [s EXCEPT !.depth = depth],
                 Len(q.stack) = depth
          PROVE  t \in Scans /\ t.pair = s.pair /\ Follows(t, q)
      <4> HIDE DEF t
      <4>1. /\ t \in Scans /\ t.depth = depth
            /\ t.in_string = s.in_string /\ t.escaped = s.escaped /\ t.pair = s.pair
        BY <3>1, DepthUpdate
      <4> QED
        BY <2>1, <3>0, <3>1, <4>1, FollowsWhen
    <3>2. CASE c \in Opening
      <4>1. c \notin Closing
        BY <3>2 DEF Opening, Closing
      <4>2. ~(Len(p.stack) >= MaxDepth)
        BY <1>4, <3>2 DEF Forbidden
      <4>3. Len(p.stack) < MaxDepth
        BY <1>0, <4>2, NotAtTheBound
      <4>4. s.depth < MaxDepth
        BY <4>3, <1>1
      <4> DEFINE depth == s.depth + 1
      <4>5. t = [s EXCEPT !.depth = depth]
        BY <2>1, <2>3, <3>2, <4>4 DEF CheckDepth
      <4>6. Len(q.stack) = depth
        BY <1>1, <1>4, <3>2 DEF Outline
      <4>7. depth \in 0..MaxDepth
        BY <4>4, <1>0, <1>1
      <4> QED
        BY <3>1, <4>5, <4>6, <4>7
    <3>3. CASE c \in Closing
      <4>1. c \notin Opening
        BY <3>3 DEF Opening, Closing
      <4>2. p.stack # <<>> /\ Len(q.stack) = Len(p.stack) - 1
        BY <1>4, <3>3 DEF Outline
      <4>3. s.depth > 0
        BY <4>2, <1>0, <1>1
      <4> DEFINE depth == s.depth - 1
      <4>5. t = [s EXCEPT !.depth = depth]
        BY <2>1, <2>3, <3>3, <4>1, <4>3 DEF CheckDepth
      <4>6. Len(q.stack) = depth
        BY <1>1, <4>2
      <4>7. depth \in 0..MaxDepth
        BY <4>3, <1>0, <1>1
      <4> QED
        BY <3>1, <4>5, <4>6, <4>7
    <3>4. CASE c \notin Opening \cup Closing
      <4>1. t = s
        BY <2>1, <2>3, <3>4 DEF CheckDepth
      <4>2. Len(q.stack) = Len(p.stack)
        BY <1>4, <3>4 DEF Outline
      <4> HIDE DEF t
      <4> QED
        BY <1>1, <2>1, <3>0, <4>1, <4>2, FollowsWhen
    <3> QED
      BY <3>2, <3>3, <3>4
  <2> QED
    BY <2>2, <2>3
<1> QED
  BY <1>2, <1>3, <1>4 DEF InString

\* Go's scan refuses only what is doomed.
LEMMA PairsFollow ==
    ASSUME WireBounds, NEW s \in Scans, NEW p, WellFormed(p), Follows(s, p), Paired(s, p),
           p.units # "lone",
           NEW c, Spelled(p, c), ~Forbidden(p, c),
           NEW q, WellFormed(q), Outline(p, c, q)
    PROVE  LET t == ValidateJSONText(s, c)
           IN  \/ t = Refused /\ Doomed(q)
               \/ t \in Scans /\ Follows(t, q) /\ Paired(t, q) /\ q.units # "lone"
<1> DEFINE t == ValidateJSONText(s, c)
           taken == t \in Scans /\ Follows(t, q) /\ Paired(t, q) /\ q.units # "lone"
<1> SUFFICES (t = Refused /\ Doomed(q)) \/ taken
  OBVIOUS
<1>0. /\ p.units \in Units /\ q.units \in Units
      /\ s.pair \in {"none", "backslash", "uDC00"}
      /\ s.depth = Len(p.stack) /\ s.in_string = InString(p)
      /\ s.escaped = (p.place = "escape")
  BY ParserFields, ScanFields DEF WellFormed, Follows
<1>1. q.units \in {"lone", "separator"} => Doomed(q)
  BY DEF Doomed
<1>2. c \in Escapes => p.place = "escape"
  BY DEF Spelled
<1>3. CASE s.pair = "backslash"
  <2>1. p.place = "string" /\ p.units \in {"high", "separator"} /\ InString(p)
    BY <1>3 DEF Paired, InString
  <2>2. CASE c = "backslash"
    <3>1. t = [s EXCEPT !.pair = "uDC00", !.escaped = TRUE]
      BY <1>3, <2>2 DEF ValidateJSONText
    <3> HIDE DEF t
    <3>2. /\ t \in Scans /\ t.pair = "uDC00" /\ t.escaped = TRUE
          /\ t.depth = s.depth /\ t.in_string = s.in_string
      BY <3>1 DEF Scans
    <3>3. q.place = "escape" /\ q.units = p.units /\ Len(q.stack) = Len(p.stack)
      BY <2>1, <2>2 DEF Outline
    <3> QED
      BY <1>0, <2>1, <3>2, <3>3 DEF Follows, Paired, InString
  <2>3. CASE c # "backslash"
    <3>1. t = Refused
      BY <1>3, <2>3 DEF ValidateJSONText
    <3>2. CASE c = "quote"
      BY <2>1, <3>1, <3>2 DEF Outline
    <3>3. CASE c # "quote"
      <4>1. q.units = UnitsAfter(p.units, c)
        BY <2>1, <2>3, <3>3 DEF Outline
      <4>2. c # "uDC00"
        BY <1>2, <2>1 DEF Escapes
      <4>3. q.units \in {"lone", "separator"}
        BY <2>1, <4>1, <4>2 DEF UnitsAfter
      <4> QED
        BY <1>1, <3>1, <4>3
    <3> QED
      BY <3>2, <3>3
  <2> QED
    BY <2>2, <2>3
<1>4. CASE s.pair = "uDC00"
  <2>1. p.place = "escape" /\ p.units \in {"high", "separator"} /\ InString(p)
    BY <1>4 DEF Paired, InString
  <2>2. q.place = "string" /\ q.units = UnitsAfter(p.units, c) /\ Len(q.stack) = Len(p.stack)
    BY <2>1 DEF Outline
  <2>3. CASE c = "uDC00"
    <3>1. t = [s EXCEPT !.pair = "none", !.escaped = FALSE]
      BY <1>4, <2>3 DEF ValidateJSONText
    <3> HIDE DEF t
    <3>2. /\ t \in Scans /\ t.pair = "none" /\ t.escaped = FALSE
          /\ t.depth = s.depth /\ t.in_string = s.in_string
      BY <3>1 DEF Scans
    <3>3. q.units \in {"plain", "separator"}
      BY <2>1, <2>2, <2>3 DEF UnitsAfter
    <3> QED
      BY <1>0, <2>1, <2>2, <3>2, <3>3 DEF Follows, Paired, InString
  <2>4. CASE c # "uDC00"
    <3>1. t = Refused
      BY <1>4, <2>4 DEF ValidateJSONText
    <3>2. q.units \in {"lone", "separator"}
      BY <2>1, <2>2, <2>4 DEF UnitsAfter
    <3> QED
      BY <1>1, <3>1, <3>2
  <2> QED
    BY <2>3, <2>4
<1>5. CASE s.pair = "none"
  <2>1. p.units \in {"plain", "separator"}
    BY <1>0, <1>5 DEF Paired, Units
  <2>2. CASE s.escaped /\ c \in {"uDC00", "uD800"}
    <3>1. p.place = "escape" /\ InString(p)
      BY <1>0, <2>2 DEF InString
    <3>2. q.place = "string" /\ q.units = UnitsAfter(p.units, c) /\ Len(q.stack) = Len(p.stack)
      BY <3>1 DEF Outline
    <3>3. CASE c = "uDC00"
      <4>1. t = Refused
        BY <1>5, <2>2, <3>3 DEF ValidateJSONText
      <4>2. q.units \in {"lone", "separator"}
        BY <2>1, <3>2, <3>3 DEF UnitsAfter
      <4> QED
        BY <1>1, <4>1, <4>2
    <3>4. CASE c = "uD800"
      <4>1. t = [s EXCEPT !.pair = "backslash", !.escaped = FALSE]
        BY <1>5, <2>2, <3>4 DEF ValidateJSONText
      <4> HIDE DEF t
      <4>2. /\ t \in Scans /\ t.pair = "backslash" /\ t.escaped = FALSE
            /\ t.depth = s.depth /\ t.in_string = s.in_string
        BY <4>1 DEF Scans
      <4>3. q.units \in {"high", "separator"}
        BY <2>1, <3>2, <3>4 DEF UnitsAfter
      <4> QED
        BY <1>0, <3>1, <3>2, <4>2, <4>3 DEF Follows, Paired, InString
    <3> QED
      BY <2>2, <3>3, <3>4
  <2>3. CASE ~(s.escaped /\ c \in {"uDC00", "uD800"})
    <3>1. t = CheckDepth(s, c)
      BY <1>5, <2>3 DEF ValidateJSONText
    <3> HIDE DEF t
    <3>2. t \in Scans /\ t.pair = s.pair /\ Follows(t, q)
      BY <3>1, DepthFollows
    <3>3. c \notin {"uDC00", "uD800"}
      BY <1>0, <1>2, <2>3 DEF Escapes
    <3>4. q.units \in {"plain", "separator"}
      <4>1. CASE InString(p) /\ (p.place = "escape" \/ c \notin {"backslash", "quote"})
        <5>1. q.units = UnitsAfter(p.units, c)
          BY <4>1 DEF Outline
        <5> QED
          BY <2>1, <3>3, <5>1 DEF UnitsAfter
      <4>2. CASE p.place = "string" /\ c = "backslash"
        BY <2>1, <4>2 DEF Outline, InString
      <4>3. CASE p.place = "string" /\ c = "quote"
        BY <4>3 DEF Outline, WellFormed, InString
      <4>4. CASE ~InString(p) /\ c = "quote"
        BY <4>4 DEF Outline
      <4>5. CASE ~InString(p) /\ c # "quote"
        BY <4>5 DEF Outline, WellFormed
      <4> QED
        BY <4>1, <4>2, <4>3, <4>4, <4>5 DEF InString
    <3> QED
      BY <1>5, <3>2, <3>4 DEF Paired
  <2> QED
    BY <2>2, <2>3
<1> HIDE DEF t, taken
<1> QED
  BY <1>0, <1>3, <1>4, <1>5

\* The scan of any reader follows its parser, or refuses a text that is doomed.
LEMMA ScanFollows ==
    ASSUME WireBounds, NEW r \in Readers, NEW s, NEW p, ReaderOK(r, s, p),
           NEW c, Spelled(p, c), ~Forbidden(p, c),
           NEW q, WellFormed(q), Outline(p, c, q)
    PROVE  LET t == Scan(r, s, c)
           IN  \/ t = Refused /\ Doomed(q)
               \/ /\ t \in Scans
                  /\ r \in Scanning => Follows(t, q)
                  /\ r = "go" => Paired(t, q) /\ q.units # "lone"
                  /\ r # "go" => t.pair = "none"
<1> DEFINE t == Scan(r, s, c)
<1> SUFFICES \/ t = Refused /\ Doomed(q)
             \/ /\ t \in Scans
                /\ r \in Scanning => Follows(t, q)
                /\ r = "go" => Paired(t, q) /\ q.units # "lone"
                /\ r # "go" => t.pair = "none"
  OBVIOUS
<1>0. WellFormed(p) /\ s \in Scans
  BY DEF ReaderOK
<1>1. CASE r \in {"wire", "stdlib"}
  <2>1. t = CheckDepth(s, c) /\ Follows(s, p) /\ s.pair = "none"
    BY <1>1 DEF Scan, Depth, ReaderOK, Scanning
  <2> HIDE DEF t
  <2>2. t \in Scans /\ t.pair = s.pair /\ Follows(t, q)
    BY <1>0, <2>1, DepthFollows
  <2> QED
    BY <1>1, <2>1, <2>2
<1>2. CASE r = "go"
  <2>1. t = ValidateJSONText(s, c) /\ Follows(s, p) /\ Paired(s, p) /\ p.units # "lone"
    BY <1>2 DEF Scan, ReaderOK, Scanning
  <2> HIDE DEF t
  <2>2. \/ t = Refused /\ Doomed(q)
        \/ t \in Scans /\ Follows(t, q) /\ Paired(t, q) /\ q.units # "lone"
    BY <1>0, <2>1, PairsFollow
  <2> QED
    BY <1>2, <2>2
<1>3. CASE r \in {"typescript", "dotnet"}
  BY <1>0, <1>3 DEF Scan, ReaderOK, Scanning
<1> QED
  BY <1>1, <1>2, <1>3 DEF Readers

\* Arithmetic at a bound.
LEMMA AtTheBound ==
    ASSUME NEW m \in Nat, NEW n \in Nat
    PROVE  /\ ~(m < m)
           /\ m >= n => ~(m < n) /\ m + 1 > n
           /\ m < n => m + 1 <= n
           /\ m <= n => m - 1 <= n
OBVIOUS

\* A symbol that is not forbidden keeps the nesting within the bound.
LEMMA DepthBounded ==
    ASSUME WireBounds, NEW p, WellFormed(p), Len(p.stack) <= MaxDepth,
           NEW c, ~Forbidden(p, c), NEW q, Outline(p, c, q)
    PROVE  Len(q.stack) <= MaxDepth
<1> DEFINE m == Len(p.stack)
<1>1. m \in Nat /\ MaxDepth \in Nat
  BY StackFrames DEF WellFormed, WireBounds
<1>2. CASE InString(p)
  BY <1>2 DEF Outline
<1>3. CASE ~InString(p) /\ c \in Opening
  <2>1. ~(m >= MaxDepth) /\ Len(q.stack) = m + 1
    BY <1>3 DEF Forbidden, Outline
  <2>2. m < MaxDepth
    BY <1>1, <2>1, NotAtTheBound
  <2>3. m + 1 <= MaxDepth
    BY <1>1, <2>2, AtTheBound
  <2> QED
    BY <2>1, <2>3
<1>4. CASE ~InString(p) /\ c \in Closing
  <2>1. Len(q.stack) = m - 1
    BY <1>4 DEF Outline
  <2>2. m - 1 <= MaxDepth
    BY <1>1, AtTheBound
  <2> QED
    BY <2>1, <2>2
<1>5. CASE ~InString(p) /\ c \notin Opening \cup Closing
  BY <1>5 DEF Outline
<1> QED
  BY <1>2, <1>3, <1>4, <1>5

\* Every reader refuses a forbidden bracket: by its scan, or where it counts
\* the nesting; by the keys of the closed object, or because it has refused
\* the key or the member before.
LEMMA ForbiddenIsRefused ==
    ASSUME WireBounds, NEW r \in Readers, NEW s, NEW p, ReaderOK(r, s, p), NEW c,
           Forbidden(p, c)
    PROVE  Scan(r, s, c) = Refused \/ Parse(r, p, c) = Refused
<1> DEFINE n == Len(p.stack)
<1>0. /\ WellFormed(p) /\ p \in Parsers /\ n \in Nat /\ MaxDepth \in Nat
      /\ ~InString(p) /\ s \in Scans
  BY StackFrames DEF ReaderOK, WellFormed, WireBounds, Forbidden
<1>1. Parse(r, p, c) = Structure(r, p, c)
  BY <1>0 DEF Parse, InString
<1>2. CASE c \in Opening /\ n >= MaxDepth
  <2>1. n + 1 > MaxDepth /\ ~(n < MaxDepth)
    BY <1>0, <1>2, AtTheBound
  <2>2. CASE r \in {"wire", "stdlib"}
    <3>1. Scan(r, s, c) = CheckDepth(s, c) /\ s.depth = n /\ ~s.in_string
      BY <1>0, <2>2, FollowsWhen DEF Scan, Depth, ReaderOK, Scanning, Follows
    <3>2. c # "quote"
      BY <1>2 DEF Opening
    <3> QED
      BY <1>2, <2>1, <3>1, <3>2 DEF CheckDepth
  <2>3. CASE r \in Strict
    <3>1. RefusesOpening(r, n + 1)
      BY <2>1, <2>3 DEF RefusesOpening, Strict
    <3>2. Structure(r, p, c) = IF ExpectsValue(p) THEN Open(r, p, c) ELSE Refused
      BY <1>2 DEF Structure, Numbers, Opening
    <3> QED
      BY <1>1, <3>1, <3>2 DEF Open
  <2> QED
    BY <2>2, <2>3 DEF Readers, Strict
<1>3. CASE c \in Closing /\ p.stack # <<>> /\ Top(p).kind = "{" /\ Short(Top(p), 0)
  <2> DEFINE fits == /\ p.place \in {"first", "next"}
                     /\ \/ c = "}" /\ Inside(p, "{")
                        \/ c = "]" /\ Inside(p, "[")
  <2>1. Structure(r, p, c) = IF fits THEN Close(r, p) ELSE Refused
    BY <1>3 DEF Structure, Numbers, Opening, Closing
  <2>2. CASE fits
    <3>0. Top(p) = p.stack[n] /\ n \in 1..n /\ Top(p) \in Frames
      BY <1>0, <1>3, TopFrame DEF Top
    <3>1. CASE r \in {"wire", "stdlib"}
      <4> DEFINE f == Top(p)
                 m == Cardinality(f.keys)
      <4>1. f.size > MaxCollection \/ m < f.size + 0
        BY <1>3 DEF Short
      <4>2. f.size \in Nat
        BY <3>0, FrameUpdate
      <4> HIDE DEF m
      <4>3. m < f.size + 0 => m # f.size
        <5> DEFINE k == f.size
        <5>1. k \in Nat
          BY <4>2
        <5> HIDE DEF k
        <5>2. m < k + 0 => m # k
          BY <5>1
        <5> QED
          BY <5>2 DEF k
      <4>4. RejectDuplicateKeys(f)
        BY <4>1, <4>3 DEF RejectDuplicateKeys, Duplicates, m
      <4>5. RefusesClosing(r, f)
        BY <1>3, <3>1, <4>4 DEF RefusesClosing, Unique
      <4> QED
        BY <1>1, <2>1, <2>2, <4>5 DEF Close
    <3>2. CASE r \in Strict
      <4>1. Clean(p)
        BY <3>2 DEF ReaderOK
      <4>2. ~(n < n) /\ p.place \notin {"colon", "value"}
        <5> HIDE DEF n
        <5>1. ~(n < n)
          BY <1>0, AtTheBound
        <5>2. p.place \in {"first", "next"}
          BY <2>2
        <5> QED
          BY <5>1, <5>2
      <4>3. Pending(p, n) = 0
        BY <1>0, <4>2 DEF Pending
      <4>4. ~Short(p.stack[n], Pending(p, n))
        BY <3>0, <4>1 DEF Clean
      <4> QED
        BY <1>3, <3>0, <4>3, <4>4
    <3> QED
      BY <3>1, <3>2 DEF Readers, Strict
  <2> HIDE DEF fits
  <2> QED
    BY <1>1, <2>1, <2>2
<1> QED
  BY <1>2, <1>3 DEF Forbidden

\* One symbol and one reader: what all readers must refuse it refuses; of
\* the rest it takes what the grammar makes of it, or it refuses a text that
\* all the others will.
LEMMA ReaderReads ==
    ASSUME WireBounds, NEW r \in Readers, NEW s, NEW p, ReaderOK(r, s, p),
           NEW c \in Symbols, Spelled(p, c)
    PROVE  LET q == Grammar(p, c)
               o == Read(r, [scan |-> s, parser |-> p], c, FALSE)
               goes == ~Forbidden(p, c) /\ q # Refused
           IN  /\ ~goes => o = Refused
               /\ goes => /\ WellFormed(q)
                          /\ Doomed(p) => Doomed(q)
                          /\ o = Refused => Doomed(q)
                          /\ o # Refused => /\ o \in [scan : Scans, parser : Parsers]
                                            /\ o.parser = q
                                            /\ ReaderOK(r, o.scan, q)
<1> DEFINE q == Grammar(p, c)
           reader == [scan |-> s, parser |-> p]
           o == Read(r, reader, c, FALSE)
           goes == ~Forbidden(p, c) /\ q # Refused
           scan == Scan(r, s, c)
           parser == Parse(r, p, c)
<1>0. /\ WellFormed(p) /\ p \in Parsers /\ s \in Scans /\ Len(p.stack) <= MaxDepth
      /\ p.units \in Units
  BY ParserFields DEF ReaderOK, WellFormed
<1>1. o = IF Refused \in {scan, parser} THEN Refused ELSE [scan |-> scan, parser |-> parser]
  <2>1. reader # Refused /\ reader.scan = s /\ reader.parser = p
    BY <1>0, OutcomeFields
  <2> HIDE DEF reader
  <2> QED
    BY <2>1 DEF Read
<1> HIDE DEF q, o, reader
<1>2. CASE Forbidden(p, c)
  <2>1. o = Refused
    BY <1>1, <1>2, ForbiddenIsRefused
  <2> QED
    BY <1>2, <2>1 DEF q, o, reader
<1>3. CASE ~Forbidden(p, c)
  <2>1. \/ q = Refused
        \/ Taken("grammar", p, q, q) /\ Outline(p, c, q)
    BY <1>0, <1>3, SymbolRead DEF Grammar, q
  <2>2. scan # Refused /\ r = "go" /\ p.place = "string" /\ c = "quote" =>
           p.units \notin {"high", "lone"}
    <3> SUFFICES ASSUME scan # Refused, r = "go", p.place = "string", c = "quote",
                        p.units \in {"high", "lone"}
                 PROVE  FALSE
      OBVIOUS
    <3>1. p.units = "high" /\ Paired(s, p)
      BY DEF ReaderOK
    <3>2. s.pair = "backslash"
      BY <1>0, <3>1, ScanFields DEF Paired
    <3>3. scan = ValidateJSONText(s, c)
      BY DEF Scan
    <3> QED
      BY <3>2, <3>3 DEF ValidateJSONText
  <2>3. scan # Refused =>
           \/ parser = Refused /\ q = Refused
           \/ /\ Taken(r, p, q, parser)
              /\ r = "dotnet" /\ p.units # "lone" /\ parser # Refused => q.units # "lone"
    BY <1>0, <1>3, <2>2, SymbolRead DEF q
  <2> HIDE DEF scan, parser
  <2>4. CASE q = Refused
    <3>1. ~WellFormed(q)
      BY <2>4, ParserFields DEF WellFormed
    <3>2. o = Refused
      BY <1>1, <2>3, <3>1 DEF Taken
    <3> QED
      BY <2>4, <3>2 DEF q, o, reader
  <2>5. CASE q # Refused
    <3>1. WellFormed(q) /\ Outline(p, c, q) /\ (Doomed(p) => Doomed(q))
      BY <2>1, <2>5 DEF Taken
    <3>2. \/ scan = Refused /\ Doomed(q)
          \/ /\ scan \in Scans
             /\ r \in Scanning => Follows(scan, q)
             /\ r = "go" => Paired(scan, q) /\ q.units # "lone"
             /\ r # "go" => scan.pair = "none"
      BY <1>3, <3>1, ScanFollows DEF scan
    <3>3. scan # Refused =>
             /\ Taken(r, p, q, parser)
             /\ r = "dotnet" /\ p.units # "lone" /\ parser # Refused => q.units # "lone"
      BY <2>3, <2>5
    <3>4. o = Refused => Doomed(q)
      <4>1. CASE scan = Refused
        BY <4>1, <3>2, ScanFields
      <4>2. CASE scan # Refused
        <5>1. o = Refused => parser = Refused
          <6>1. parser # Refused => o = [scan |-> scan, parser |-> parser]
            BY <1>1, <4>2
          <6>2. parser # Refused => parser \in Parsers
            BY <4>2, <3>3, <3>1 DEF Taken, WellFormed
          <6> QED
            BY <4>2, <3>2, <6>1, <6>2, OutcomeFields
        <5> QED
          BY <4>2, <3>3, <5>1 DEF Taken
      <4> QED
        BY <4>1, <4>2
    <3>5. ASSUME o # Refused
          PROVE  /\ o \in [scan : Scans, parser : Parsers]
                 /\ o.parser = q /\ ReaderOK(r, o.scan, q)
      <4>1. scan # Refused /\ parser # Refused /\ o = [scan |-> scan, parser |-> parser]
        BY <1>1, <3>5
      <4>2. parser = q
        BY <3>3, <4>1 DEF Taken
      <4>3. r \in Strict => Clean(q)
        BY <3>3, <4>1 DEF Taken, ReaderOK
      <4>4. r \in {"go", "dotnet"} => q.units # "lone"
        BY <3>2, <3>3, <4>1 DEF ReaderOK
      <4>5. Len(q.stack) <= MaxDepth
        BY <1>0, <1>3, <3>1, DepthBounded
      <4>6. /\ scan \in Scans
            /\ r \in Scanning => Follows(scan, q)
            /\ r = "go" => Paired(scan, q)
            /\ r # "go" => scan.pair = "none"
        BY <3>2, <4>1
      <4>7. ReaderOK(r, scan, q)
        BY <3>1, <4>3, <4>4, <4>5, <4>6 DEF ReaderOK
      <4>8. q \in Parsers
        BY <3>1 DEF WellFormed
      <4>9. o = [scan |-> scan, parser |-> q] /\ o.scan = scan /\ o.parser = q
        BY <4>1, <4>2
      <4> QED
        BY <4>6, <4>7, <4>8, <4>9
    <3> QED
      BY <1>3, <2>5, <3>1, <3>4, <3>5 DEF q, o, reader
  <2> QED
    BY <2>4, <2>5
<1> QED
  BY <1>2, <1>3

-----------------------------------------------------------------------------
(* The invariant *)

Live(r) == readers[r] # Refused

ReadersOK == \A r \in Readers : Live(r) => ReaderOK(r, readers[r].scan, readers[r].parser)

\* The readers that have not refused have made the same of the text, and if
\* one has refused then the others will.
SameText ==
    /\ \A r1, r2 \in Readers : Live(r1) /\ Live(r2) => readers[r1].parser = readers[r2].parser
    /\ \A r1, r2 \in Readers : ~Live(r1) /\ Live(r2) => Doomed(readers[r2].parser)

PastTheBound == past => \A r \in Readers : ~Live(r)

IInv == ReadersTypeOK /\ ReadersOK /\ SameText /\ PastTheBound /\ ReadersAgree

\* A reader before the first symbol.
LEMMA FreshReader ==
    ASSUME WireBounds, NEW r \in Readers
    PROVE  /\ [scan |-> FreshScan, parser |-> FreshParser] \in [scan : Scans, parser : Parsers]
           /\ ReaderOK(r, FreshScan, FreshParser)
<1> DEFINE p == FreshParser
           s == FreshScan
<1>1. /\ p \in Parsers /\ p.stack = <<>> /\ p.place = "value" /\ ~p.is_key
      /\ p.units = "plain" /\ ~p.late
  <2>1. <<>> \in Seq(Frames)
    BY EmptySeq
  <2> QED
    BY <2>1 DEF FreshParser, Parsers, Keys
<1>2. /\ s \in Scans /\ s.depth = 0 /\ ~s.in_string /\ ~s.escaped /\ s.pair = "none"
  BY DEF FreshScan, Scans, WireBounds
<1> HIDE DEF p, s
<1>3. ~InString(p)
  BY <1>1 DEF InString
<1>4. Len(p.stack) = 0 /\ \A i \in 1..Len(p.stack) : FALSE
  BY <1>1, EmptySeq
<1>5. WellFormed(p)
  BY <1>1, <1>3, <1>4 DEF WellFormed
<1>6. Clean(p)
  BY <1>1, <1>4 DEF Clean
<1>7. Follows(s, p)
  BY <1>1, <1>2, <1>4, FollowsWhen
<1>8. Paired(s, p)
  BY <1>1, <1>2 DEF Paired
<1>9. Len(p.stack) <= MaxDepth
  BY <1>4 DEF WireBounds
<1> QED
  BY <1>1, <1>2, <1>5, <1>6, <1>7, <1>8, <1>9 DEF ReaderOK, p, s

\* The invariant holds before the first symbol.
LEMMA InitIInv == Init => IInv
<1> SUFFICES ASSUME Init PROVE IInv
  OBVIOUS
<1> USE WireBounds
<1>1. \A r \in Readers : readers[r] = [scan |-> FreshScan, parser |-> FreshParser]
  BY DEF Init
<1>2. \A r \in Readers : /\ readers[r] \in [scan : Scans, parser : Parsers]
                         /\ Live(r)
                         /\ readers[r].scan = FreshScan /\ readers[r].parser = FreshParser
                         /\ ReaderOK(r, readers[r].scan, readers[r].parser)
  <2> SUFFICES ASSUME NEW r \in Readers
               PROVE  /\ readers[r] \in [scan : Scans, parser : Parsers]
                      /\ Live(r)
                      /\ readers[r].scan = FreshScan /\ readers[r].parser = FreshParser
                      /\ ReaderOK(r, readers[r].scan, readers[r].parser)
    OBVIOUS
  <2>1. /\ [scan |-> FreshScan, parser |-> FreshParser] \in [scan : Scans, parser : Parsers]
        /\ ReaderOK(r, FreshScan, FreshParser)
    BY FreshReader
  <2>2. FreshScan \in Scans /\ FreshParser \in Parsers
    BY <2>1 DEF ReaderOK, WellFormed
  <2>3. readers[r] # Refused
    BY <1>1, <2>2, OutcomeFields
  <2> QED
    BY <1>1, <2>1, <2>3 DEF Live
<1>3. past = FALSE /\ verdicts = Reading
  BY DEF Init
<1>4. verdicts \in [Readers -> {"reading", "accepted", "refused"}]
  BY <1>3 DEF Reading
<1>5. ReadersTypeOK
  BY <1>2, <1>3, <1>4 DEF ReadersTypeOK
<1>6. SameText
  BY <1>2 DEF SameText
<1>7. PastTheBound /\ ReadersAgree
  BY <1>3 DEF PastTheBound, ReadersAgree
<1> QED
  BY <1>2, <1>5, <1>6, <1>7 DEF IInv, ReadersOK

\* The invariant is kept by a symbol: all readers refuse it, or those that take it
\* make the same of it and the others have refused a doomed text.
LEMMA FeedIInv ==
    ASSUME IInv, NEW c \in Symbols, NEW grown \in BOOLEAN, Feed(c, grown)
    PROVE  IInv'
<1> USE WireBounds
<1>1. PICK r0 \in Readers : Live(r0)
  BY DEF Feed, Live
<1>2. ~past
  BY <1>1 DEF IInv, PastTheBound
<1>3. \A r \in Readers : readers'[r] = Read(r, readers[r], c, grown)
  BY <1>2 DEF Feed, Seen
<1>4. past' = grown /\ verdicts' = verdicts /\ verdicts = Reading
  BY DEF Feed
<1>5. (verdicts \in [Readers -> {"reading", "accepted", "refused"}])'
  BY <1>4 DEF IInv, ReadersTypeOK
<1>6. ReadersAgree'
  BY <1>4 DEF ReadersAgree
<1>7. CASE grown
  <2>1. \A r \in Readers : readers'[r] = Refused
    BY <1>3, <1>7 DEF Read
  <2> QED
    BY <1>4, <1>5, <1>6, <2>1 DEF IInv, ReadersTypeOK, ReadersOK, SameText, PastTheBound, Live
<1>8. CASE ~grown
  <2> DEFINE p == readers[r0].parser
             q == Grammar(p, c)
             goes == ~Forbidden(p, c) /\ q # Refused
  <2>1. Spelled(p, c)
    BY <1>1 DEF Feed, Spellable, Spelled, Live
  <2>2. \A r \in Readers : readers'[r] = Read(r, readers[r], c, FALSE)
    BY <1>3, <1>8
  <2>3. \A r \in Readers : ~Live(r) => readers'[r] = Refused /\ Doomed(p)
    BY <1>1, <2>2 DEF Read, Live, IInv, SameText
  <2>4. ASSUME NEW r \in Readers, Live(r)
        PROVE  /\ ~goes => readers'[r] = Refused
               /\ goes => /\ Doomed(p) => Doomed(q)
                          /\ readers'[r] = Refused => Doomed(q)
                          /\ readers'[r] # Refused =>
                                /\ readers'[r] \in [scan : Scans, parser : Parsers]
                                /\ readers'[r].parser = q
                                /\ ReaderOK(r, readers'[r].scan, q)
    <3> DEFINE s == readers[r].scan
               o == Read(r, [scan |-> s, parser |-> p], c, FALSE)
    <3>1. readers[r].parser = p
      BY <1>1, <2>4 DEF IInv, SameText
    <3>2. readers[r] = [scan |-> s, parser |-> p]
      BY <2>4, <3>1 DEF IInv, ReadersTypeOK, Live
    <3>3. ReaderOK(r, s, p)
      BY <2>4, <3>1 DEF IInv, ReadersOK
    <3>4. readers'[r] = o
      BY <2>2, <3>2
    <3> HIDE DEF s, p
    <3>5. /\ ~goes => o = Refused
          /\ goes => /\ Doomed(p) => Doomed(q)
                     /\ o = Refused => Doomed(q)
                     /\ o # Refused => /\ o \in [scan : Scans, parser : Parsers]
                                       /\ o.parser = q
                                       /\ ReaderOK(r, o.scan, q)
      BY <2>1, <3>3, ReaderReads
    <3> HIDE DEF o, q, goes
    <3> QED
      BY <3>4, <3>5
  <2> HIDE DEF p, q, goes
  <2>5. \A r \in Readers : readers'[r] # Refused =>
             /\ goes
             /\ readers'[r] \in [scan : Scans, parser : Parsers]
             /\ readers'[r].parser = q
             /\ ReaderOK(r, readers'[r].scan, q)
    BY <2>3, <2>4
  <2>6. goes => \A r \in Readers : readers'[r] = Refused => Doomed(q)
    <3> SUFFICES ASSUME goes, NEW r \in Readers, readers'[r] = Refused PROVE Doomed(q)
      OBVIOUS
    <3>1. CASE Live(r)
      BY <2>4, <3>1
    <3>2. CASE ~Live(r)
      BY <1>1, <2>3, <2>4, <3>2
    <3> QED
      BY <3>1, <3>2
  <2>7. ReadersTypeOK'
    BY <1>4, <1>5, <2>5 DEF ReadersTypeOK
  <2>8. ReadersOK'
    BY <2>5 DEF ReadersOK, Live
  <2>9. SameText'
    BY <2>5, <2>6 DEF SameText, Live
  <2>10. PastTheBound'
    BY <1>4, <1>8 DEF PastTheBound
  <2> QED
    BY <1>6, <2>7, <2>8, <2>9, <2>10 DEF IInv
<1> QED
  BY <1>7, <1>8

\* At the end of a text a reader accepts only if it, like all the others, has
\* found nothing.
LEMMA AcceptedByAll ==
    ASSUME IInv, NEW r \in Readers, Accepts(r), NEW other \in Readers
    PROVE  Accepts(other)
<1> DEFINE p == readers[r].parser
<1>1. Live(r) /\ p.place = "end" /\ p.object
  BY DEF Accepts, Live
<1>2. ReaderOK(r, readers[r].scan, p)
  BY <1>1 DEF IInv, ReadersOK
<1>3. \A r1 \in Readers : /\ Live(r1) => readers[r1].parser = p
                          /\ ~Live(r1) => Doomed(p)
  BY <1>1 DEF IInv, SameText
<1>4. r = "wire" => CheckUnicode(p)
  BY DEF Accepts
<1>5. r = "stdlib" => StdlibCheckUnicode(p)
  BY DEF Accepts
<1> HIDE DEF p
<1>6. ~p.late
  <2>1. CASE r \in {"wire", "stdlib"}
    BY <1>4, <1>5, <2>1 DEF CheckUnicode, StdlibCheckUnicode
  <2>2. CASE r \in Strict
    BY <1>2, <2>2 DEF ReaderOK, Clean
  <2> QED
    BY <2>1, <2>2 DEF Readers, Strict
<1>7. ~Doomed(p)
  <2>1. WellFormed(p) /\ ~InString(p)
    BY <1>1, <1>2 DEF ReaderOK, InString
  <2>2. p.units = "plain" /\ p.stack = <<>> /\ p \in Parsers
    BY <1>1, <2>1 DEF WellFormed
  <2>3. \A i \in 1..Len(p.stack) : FALSE
    BY <2>2, StackFrames
  <2> QED
    BY <1>6, <2>2, <2>3 DEF Doomed
<1>8. Live(other) /\ readers[other].parser = p
  BY <1>3, <1>7
<1> QED
  BY <1>1, <1>6, <1>8 DEF Accepts, Live, CheckUnicode, StdlibCheckUnicode

\* The invariant is kept by the end of the text.
LEMMA FinishIInv ==
    ASSUME IInv, Finish
    PROVE  IInv'
<1>1. readers' = readers /\ past' = past
  BY DEF Finish
<1>2. verdicts' = [r \in Readers |-> IF Accepts(r) THEN "accepted" ELSE "refused"]
  BY DEF Finish
<1>3. (verdicts \in [Readers -> {"reading", "accepted", "refused"}])'
  BY <1>2
<1>4. "wire" \in Readers
  BY DEF Readers
<1>5. \A r \in Readers : Accepts(r) <=> Accepts("wire")
  BY <1>4, AcceptedByAll
<1>6. ReadersAgree'
  BY <1>2, <1>4, <1>5 DEF ReadersAgree
<1>7. ReadersTypeOK'
  BY <1>1, <1>3 DEF IInv, ReadersTypeOK
<1>8. ReadersOK' /\ SameText' /\ PastTheBound'
  BY <1>1 DEF IInv, ReadersOK, SameText, PastTheBound, Live
<1> QED
  BY <1>6, <1>7, <1>8 DEF IInv

\* The invariant is inductive.
LEMMA StepIInv == IInv /\ [Next]_vars => IInv'
<1> SUFFICES ASSUME IInv, [Next]_vars PROVE IInv'
  OBVIOUS
<1>1. ASSUME NEW c \in Symbols, NEW grown \in BOOLEAN, Feed(c, grown) PROVE IInv'
  BY <1>1, FeedIInv
<1>2. CASE Finish
  BY <1>2, FinishIInv
<1>3. CASE UNCHANGED vars
  <2>1. readers' = readers /\ past' = past /\ verdicts' = verdicts
    BY <1>3 DEF vars
  <2> QED
    BY <2>1 DEF IInv, ReadersTypeOK, ReadersOK, SameText, PastTheBound, ReadersAgree, Live
<1> QED
  BY <1>1, <1>2, <1>3 DEF Next

\* The invariant holds in every state.
LEMMA AlwaysIInv == Spec => []IInv
BY InitIInv, StepIInv, PTL DEF Spec

\* The readers keep their types, whatever the text (wire.py:20-102).
THEOREM ReadersTyped == Spec => []ReadersTypeOK
<1>1. IInv => ReadersTypeOK
  BY DEF IInv
<1> QED
  BY <1>1, AlwaysIInv, PTL

\* For every bound and every text, the scan of the bytes counts what the parser
\* nests, and no parser nests deeper than MAX_JSON_DEPTH (wire.py:32-53,
\* verifier.go:196-255).
THEOREM NestingGuarded == Spec => []NestingIsGuarded
<1>1. IInv => NestingIsGuarded
  BY DEF IInv, ReadersOK, ReaderOK, Follows, Live, NestingIsGuarded
<1> QED
  BY <1>1, AlwaysIInv, PTL

\* For every bound and every text, all five readers accept or all refuse
\* (wire.py:75-102, stdlib_check.py:65-80, verifier.go:323-355,
\* verifier.ts:292-295, Oncefold.cs:232-251).
THEOREM AllReadersAgree == Spec => []ReadersAgree
<1>1. IInv => ReadersAgree
  BY DEF IInv
<1> QED
  BY <1>1, AlwaysIInv, PTL
=============================================================================
