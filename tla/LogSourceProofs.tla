-------------------------- MODULE LogSourceProofs --------------------------
(***************************************************************************)
(* For a file of any size, any buffer, page and chunk size and any range:  *)
(* the time-range search finds exactly the lines whose timestamps lie in   *)
(* the range, on its own and as a part of opening a log, and reading emits *)
(* a record for each line of the range, with its whole text, or fails for  *)
(* a reason.                                                               *)
(*                                                                         *)
(* The argument for the search is the one of every binary search: the      *)
(* lines before begin are skipped and the lines from end on are not.  What *)
(* makes it delicate is that a probe lands anywhere in a line, so that the *)
(* chunks before and behind it have to find the whole of that line and of  *)
(* no other.  The argument for the lines is that the generator stands at   *)
(* the beginning of a line and holds a part of it without a newline, while *)
(* the records are those of the lines before; they are counted, for a      *)
(* record is found by the number of its line.                              *)
(***************************************************************************)
EXTENDS LogSource, FiniteSetTheorems, SequenceTheorems, TLAPS

\* Which lines are skipped by the search under way, and which are not.
SkippedBefore(p) ==
  \A b \in Begins(file) : b < p => \A i \in Stamps(file, b) : skip_line(at(file, i))
AcceptedFrom(p) ==
  \A b \in Begins(file) : b >= p => \A i \in Stamps(file, b) : ~skip_line(at(file, i))

\* The state of a binary search.
Bisecting ==
  /\ SkippedBefore(begin) /\ AcceptedFrom(end)
  /\ end = IF answer = npos THEN size ELSE answer

\* No line begins behind p before q.
OneLine(p, q) == \A b \in Begins(file) : b < q => b <= p

\* What the probe has found out.
Probed ==
  /\ pc = "back" => offset \in 1..size - 1
  /\ pc = "forward" => /\ line_begin \in Begins(file) /\ line_begin <= offset
                       /\ OneLine(line_begin, offset + 1)
  /\ pc = "decide" => line_begin \in Begins(file) /\ OneLine(line_begin, next_begin)

\* What lowerBoundLine has found.
LowerFound ==
  \A b \in Begins(file) : \A i \in Stamps(file, b) :
    from_pos # npos /\ b >= from_pos <=> at(file, i) >= range[1]

IInv ==
  /\ TypeOK /\ Probed
  /\ pc \notin {"done", "error"} => Bisecting
  /\ pc # "done" /\ bound = "upper" => LowerFound
  /\ RangeExact
----------------------------------------------------------------------------
\* The numbers of the state.
LEMMA Numbers ==
  ASSUME TypeOK
  PROVE  /\ size \in Nat /\ begin \in 0..size /\ end \in 0..size
         /\ offset \in 0..size /\ line_begin \in 0..size /\ next_begin \in 0..size
         /\ (answer = npos \/ answer \in 0..size) /\ (from_pos = npos \/ from_pos \in 0..size)
         /\ npos = -1 /\ range[1] \in Nat /\ range[2] \in Nat
         /\ BufferSize \in Nat \ {0} /\ SortedByTime(file)
<1>1. file \in Seq(Byte) /\ SortedByTime(file) /\ range \in Nat \X Nat /\ BufferSize \in Nat \ {0}
  BY SearchAssumption DEF TypeOK
<1>2. size \in Nat
  BY <1>1 DEF size
<1> QED
  BY <1>1, <1>2 DEF TypeOK, Offset, npos

\* The lines of a file, and the times they have.
LEMMA LineFacts ==
  ASSUME TypeOK
  PROVE  /\ \A b \in Begins(file) : b \in 0..size - 1 /\ (b # 0 => at(file, b - 1) = Newline)
         /\ \A b \in 0..size - 1 : b = 0 \/ at(file, b - 1) = Newline => b \in Begins(file)
         /\ \A b \in Begins(file) : \A i \in Stamps(file, b) : at(file, i) \in Nat
<1>1. file \in Seq(Byte) /\ size = Len(file) /\ Len(file) \in Nat
  BY SearchAssumption DEF TypeOK, size
<1>2. \A i \in 0..size - 1 : at(file, i) \in Byte
  BY <1>1 DEF at
<1>3. \A b \in Begins(file) : b \in 0..size - 1 /\ (b # 0 => at(file, b - 1) = Newline)
  BY <1>1 DEF Begins
<1>4. \A b \in 0..size - 1 : b = 0 \/ at(file, b - 1) = Newline => b \in Begins(file)
  BY <1>1 DEF Begins
<1>5. ASSUME NEW b \in Begins(file), NEW i \in Stamps(file, b) PROVE at(file, i) \in Nat
  <2>1. i \in b..Len(file) - 1 /\ at(file, i) > 0 /\ b \in 0..size - 1
    BY <1>3 DEF Stamps
  <2>2. i \in 0..size - 1
    BY <1>1, <2>1
  <2> QED
    BY <1>2, <2>1, <2>2 DEF Byte, Newline
<1> QED
  BY <1>3, <1>4, <1>5

\* The search under way depends on the file, the range and the bound alone.
LEMMA SameSearch ==
  ASSUME UNCHANGED <<file, range, bound>>
  PROVE  /\ \A p : SkippedBefore(p)' <=> SkippedBefore(p)
         /\ \A p : AcceptedFrom(p)' <=> AcceptedFrom(p)
         /\ \A p, q : OneLine(p, q)' <=> OneLine(p, q)
         /\ size' = size
<1> QED
  BY DEF SkippedBefore, AcceptedFrom, OneLine, skip_line, target, size

\* A step of the probe: the search does not move.
LEMMA ProbeStep ==
  ASSUME IInv, TypeOK', Probed', UNCHANGED <<Inputs, Bounds, Result>>, pc \notin {"done", "error"},
         pc' # "done"
  PROVE  IInv'
<1>1. UNCHANGED <<file, range, bound, begin, end, answer, from_pos, to_pos>>
  BY DEF Inputs, Bounds, Result
<1>2. Bisecting'
  BY <1>1, SameSearch DEF IInv, Bisecting
<1>3. bound' = "upper" => LowerFound'
  BY <1>1 DEF IInv, LowerFound
<1> QED
  BY <1>2, <1>3 DEF IInv, RangeExact

\* The middle is probed.
LEMMA ProbeKeeps == ASSUME IInv, Probe PROVE IInv'
<1>1. PICK mid : mid = begin + (end - begin) \div 2
  OBVIOUS
<1>2. /\ begin < end /\ pc = "search" /\ UNCHANGED <<Inputs, Bounds, next_begin, Result>>
      /\ offset' = mid
      /\ IF mid = 0 \/ at(file, mid - 1) = Newline
         THEN pc' = "forward" /\ line_begin' = mid
         ELSE pc' = "back" /\ UNCHANGED line_begin
  BY <1>1 DEF Probe
<1>3. UNCHANGED <<file, range, bound, begin, end, answer, next_begin, from_pos, to_pos>> /\ size' = size
  BY <1>2 DEF Inputs, Bounds, Result, size
<1>4. mid \in 0..size - 1 /\ mid \in 0..size /\ size \in Nat
  <2>1. size \in Nat /\ begin \in 0..size /\ end \in 0..size
    BY Numbers DEF IInv
  <2> QED
    BY <1>1, <1>2, <2>1
<1>5. TypeOK'
  BY <1>2, <1>3, <1>4 DEF IInv, TypeOK, Offset
<1>6. Probed'
  <2>1. pc' = "forward" => line_begin' \in Begins(file) /\ line_begin' <= offset'
    BY <1>2, <1>4, LineFacts DEF IInv
  <2>2. pc' = "forward" => OneLine(line_begin, offset + 1)'
    <3>1. OneLine(mid, mid + 1)
      BY <1>4, LineFacts DEF OneLine, IInv
    <3>2. OneLine(line_begin', offset' + 1) <=> OneLine(line_begin, offset + 1)'
      BY <1>3 DEF OneLine
    <3> QED
      BY <1>2, <3>1, <3>2
  <2>3. pc' = "back" => offset' \in 1..size - 1
    BY <1>2, <1>4
  <2>4. pc' # "decide"
    BY <1>2
  <2> QED
    BY <1>3, <2>1, <2>2, <2>3, <2>4 DEF Probed
<1> QED
  BY <1>2, <1>5, <1>6, ProbeStep

\* A chunk before the probe.
LEMMA BackKeeps == ASSUME IInv, Back PROVE IInv'
<1>1. PICK chunk : chunk = IF offset > BufferSize THEN offset - BufferSize ELSE 0
  OBVIOUS
<1>2. pc = "back" /\ UNCHANGED <<Inputs, Bounds, next_begin, Result>>
  BY DEF Back
<1>3. UNCHANGED <<file, range, bound, begin, end, answer, next_begin, from_pos, to_pos>> /\ size' = size
  BY <1>2 DEF Inputs, Bounds, Result, size
<1>4. /\ size \in Nat /\ offset \in 1..size - 1 /\ BufferSize \in Nat \ {0}
      /\ chunk \in 0..offset - 1
  <2>1. size \in Nat /\ offset \in 1..size - 1 /\ BufferSize \in Nat \ {0}
    BY <1>2, Numbers DEF IInv, Probed
  <2> QED
    BY <1>1, <2>1
<1>5. CASE newlines(chunk, offset) # {}
  <2>1. PICK n \in newlines(chunk, offset) : line_begin' = n + 1 /\ offset' = n + 1 /\ pc' = "forward"
    BY <1>1, <1>5 DEF Back
  <2>2. n \in chunk..offset - 1 /\ at(file, n) = Newline
    BY DEF newlines
  <2>3. n + 1 \in 1..size - 1 /\ (n + 1) - 1 = n /\ n + 1 \in 0..size - 1 /\ n + 1 \in 0..size /\ n + 1 # 0
    BY <1>4, <2>2
  <2>4. n + 1 \in Begins(file)
    BY <2>2, <2>3, LineFacts DEF IInv
  <2>5. OneLine(n + 1, (n + 1) + 1)
    BY <2>3, LineFacts DEF OneLine, IInv
  <2>6. TypeOK'
    BY <1>3, <2>1, <2>3 DEF IInv, TypeOK, Offset
  <2>7. Probed'
    BY <1>3, <2>1, <2>3, <2>4, <2>5, SameSearch DEF Probed
  <2> QED
    BY <1>2, <2>1, <2>6, <2>7, ProbeStep
<1>6. CASE newlines(chunk, offset) = {} /\ chunk = 0
  <2>1. offset' = 0 /\ line_begin' = 0 /\ pc' = "forward"
    BY <1>1, <1>6 DEF Back
  <2>2. 0 \in Begins(file) /\ 0 \in 0..size
    BY <1>4, LineFacts DEF IInv
  <2>3. OneLine(0, 0 + 1)
    BY <1>4, LineFacts DEF OneLine, IInv
  <2>4. TypeOK'
    BY <1>3, <2>1, <2>2 DEF IInv, TypeOK, Offset
  <2>5. Probed'
    BY <1>3, <2>1, <2>2, <2>3, SameSearch DEF Probed
  <2> QED
    BY <1>2, <2>1, <2>4, <2>5, ProbeStep
<1>7. CASE newlines(chunk, offset) = {} /\ chunk # 0
  <2>1. offset' = chunk /\ UNCHANGED <<line_begin, pc>>
    BY <1>1, <1>7 DEF Back
  <2>2. chunk \in 1..size - 1 /\ chunk \in 0..size
    BY <1>4, <1>7
  <2>3. TypeOK'
    BY <1>3, <2>1, <2>2 DEF IInv, TypeOK, Offset
  <2>4. Probed'
    BY <1>2, <1>3, <2>1, <2>2 DEF Probed
  <2> QED
    BY <1>2, <2>1, <2>3, <2>4, ProbeStep
<1> QED
  BY <1>5, <1>6, <1>7

\* A chunk behind the beginning of the line.
LEMMA ForwardKeeps == ASSUME IInv, Forward PROVE IInv'
<1>1. PICK chunk : chunk = IF offset + BufferSize < size THEN offset + BufferSize ELSE size
  OBVIOUS
<1>2. pc = "forward" /\ UNCHANGED <<Inputs, Bounds, line_begin, Result>>
  BY DEF Forward
<1>3. UNCHANGED <<file, range, bound, begin, end, answer, line_begin, from_pos, to_pos>> /\ size' = size
  BY <1>2 DEF Inputs, Bounds, Result, size
<1>4. size \in Nat /\ offset \in 0..size /\ BufferSize \in Nat \ {0} /\ chunk \in offset..size
  <2>1. size \in Nat /\ offset \in 0..size /\ BufferSize \in Nat \ {0}
    BY Numbers DEF IInv
  <2> QED
    BY <1>1, <2>1
<1>5. /\ line_begin \in Begins(file) /\ line_begin <= offset /\ line_begin \in 0..size
      /\ OneLine(line_begin, offset + 1)
  BY <1>2, Numbers DEF IInv, Probed
\* Without a newline between offset and n, no line begins behind offset up to n.
<1>6. ASSUME NEW n \in offset..size, \A m \in offset..n - 1 : at(file, m) # Newline
      PROVE  OneLine(line_begin, n + 1)
  <2> SUFFICES ASSUME NEW b \in Begins(file), b < n + 1 PROVE b <= line_begin
    BY DEF OneLine
  <2>1. b \in 0..size - 1 /\ (b # 0 => at(file, b - 1) = Newline)
    BY LineFacts DEF IInv
  <2>2. CASE b < offset + 1
    BY <1>5, <2>2 DEF OneLine
  <2>3. CASE ~(b < offset + 1)
    <3>1. b - 1 \in offset..n - 1 /\ b # 0
      BY <1>4, <2>1, <2>3
    <3> QED
      BY <1>6, <2>1, <3>1
  <2> QED
    BY <2>2, <2>3
<1>7. CASE newlines(offset, chunk) # {}
  <2>1. PICK n \in newlines(offset, chunk) :
          /\ \A m \in newlines(offset, chunk) : n <= m
          /\ next_begin' = n + 1 /\ pc' = "decide" /\ UNCHANGED offset
    BY <1>1, <1>7 DEF Forward
  <2>2. n \in offset..chunk - 1 /\ n \in offset..size /\ n + 1 \in 0..size
    BY <1>4 DEF newlines
  <2>3. ASSUME NEW m \in offset..n - 1 PROVE at(file, m) # Newline
    <3>1. m \in offset..chunk - 1 /\ ~(n <= m)
      BY <1>4, <2>2
    <3> QED
      BY <2>1, <3>1 DEF newlines
  <2>4. OneLine(line_begin, n + 1)
    BY <1>6, <2>2, <2>3
  <2>5. TypeOK'
    BY <1>3, <2>1, <2>2 DEF IInv, TypeOK, Offset
  <2>6. Probed'
    BY <1>3, <1>5, <2>1, <2>4, SameSearch DEF Probed
  <2> QED
    BY <1>2, <2>1, <2>5, <2>6, ProbeStep
<1>8. CASE newlines(offset, chunk) = {}
  <2>1. /\ offset' = chunk
        /\ IF chunk = size THEN next_begin' = size /\ pc' = "decide" ELSE UNCHANGED <<next_begin, pc>>
    BY <1>1, <1>8 DEF Forward
  <2>2. \A m \in offset..chunk - 1 : at(file, m) # Newline
    BY <1>8 DEF newlines
  <2>3. OneLine(line_begin, chunk + 1)
    BY <1>4, <1>6, <2>2
  <2>4. chunk \in 0..size /\ line_begin <= chunk /\ size \in 0..size
    BY <1>4, <1>5
  <2>5. TypeOK'
    BY <1>2, <1>3, <2>1, <2>4 DEF IInv, TypeOK, Offset
  <2>6. CASE chunk = size
    <3>1. OneLine(line_begin, size)
      <4>1. \A b \in Begins(file) : b \in Int /\ (b < size => b < chunk + 1)
        BY <1>4, <2>6, LineFacts DEF IInv
      <4> QED
        BY <2>3, <4>1 DEF OneLine
    <3>2. Probed'
      BY <1>3, <1>5, <2>1, <2>6, <3>1, SameSearch DEF Probed
    <3> QED
      BY <1>2, <2>1, <2>5, <2>6, <3>2, ProbeStep
  <2>7. CASE chunk # size
    <3>1. Probed'
      BY <1>2, <1>3, <1>5, <2>1, <2>3, <2>4, <2>7, SameSearch DEF Probed
    <3> QED
      BY <1>2, <2>1, <2>5, <2>7, <3>1, ProbeStep
  <2> QED
    BY <2>6, <2>7
<1> QED
  BY <1>7, <1>8

\* A line that is skipped comes with all the lines before it, and one that is
\* accepted with all behind it: the lines are sorted.
LEMMA SortedFacts ==
  ASSUME TypeOK, NEW b \in Begins(file), NEW i \in Stamps(file, b),
         NEW c \in Begins(file), NEW j \in Stamps(file, c), b <= c
  PROVE  /\ skip_line(at(file, j)) => skip_line(at(file, i))
         /\ at(file, i) \in Nat /\ at(file, j) \in Nat
<1>1. at(file, i) <= at(file, j)
  BY Numbers DEF SortedByTime
<1>2. at(file, i) \in Nat /\ at(file, j) \in Nat /\ range[1] \in Nat /\ range[2] \in Nat
  BY Numbers, LineFacts
<1> QED
  BY <1>1, <1>2 DEF skip_line, target

\* lineTimestamp throws.
LEMMA ErrorKeeps == ASSUME IInv, NoTimestamp PROVE IInv'
<1>1. /\ pc' = "error"
      /\ UNCHANGED <<file, range, bound, begin, end, answer, offset, line_begin, next_begin, from_pos, to_pos>>
  BY DEF NoTimestamp, Inputs, Bounds, Result
<1>2. TypeOK'
  BY <1>1 DEF IInv, TypeOK, Offset, size
<1>3. Probed'
  BY <1>1 DEF Probed
<1>4. bound' = "upper" => LowerFound'
  BY <1>1 DEF IInv, LowerFound, NoTimestamp
<1> QED
  BY <1>1, <1>2, <1>3, <1>4 DEF IInv, RangeExact

\* The line is skipped: begin moves behind it.
LEMMA SkipKeeps == ASSUME IInv, Skip PROVE IInv'
<1>1. /\ pc = "decide" /\ begin' = next_begin /\ pc' = "search"
      /\ UNCHANGED <<file, range, bound, end, answer, offset, line_begin, next_begin, from_pos, to_pos>>
  BY DEF Skip, Inputs, Result
<1>2. line_begin \in Begins(file) /\ OneLine(line_begin, next_begin)
  BY <1>1 DEF IInv, Probed
<1>3. PICK j \in Stamps(file, line_begin) : skip_line(at(file, j))
  BY DEF Skip, stamps
<1>4. SkippedBefore(next_begin)
  BY <1>2, <1>3, SortedFacts DEF IInv, SkippedBefore, OneLine
<1>5. Bisecting'
  BY <1>1, <1>4, SameSearch DEF IInv, Bisecting
<1>6. TypeOK'
  BY <1>1 DEF IInv, TypeOK, Offset, size
<1>7. Probed'
  BY <1>1 DEF Probed
<1>8. bound' = "upper" => LowerFound'
  BY <1>1 DEF IInv, LowerFound
<1> QED
  BY <1>1, <1>5, <1>6, <1>7, <1>8 DEF IInv, RangeExact

\* The line is accepted: end moves to it.
LEMMA AcceptKeeps == ASSUME IInv, Accept PROVE IInv'
<1>1. /\ pc = "decide" /\ end' = line_begin /\ answer' = line_begin /\ pc' = "search"
      /\ UNCHANGED <<file, range, bound, begin, offset, line_begin, next_begin, from_pos, to_pos>>
  BY DEF Accept, Inputs, Result
<1>2. line_begin \in Begins(file) /\ line_begin # npos
  BY <1>1, LineFacts DEF IInv, Probed, npos
<1>3. PICK i \in Stamps(file, line_begin) : ~skip_line(at(file, i))
  BY DEF Accept, stamps
<1>4. AcceptedFrom(line_begin)
  BY <1>2, <1>3, SortedFacts DEF IInv, AcceptedFrom
<1>5. Bisecting'
  BY <1>1, <1>2, <1>4, SameSearch DEF IInv, Bisecting
<1>6. TypeOK'
  BY <1>1 DEF IInv, TypeOK, Offset, size
<1>7. Probed'
  BY <1>1 DEF Probed
<1>8. bound' = "upper" => LowerFound'
  BY <1>1 DEF IInv, LowerFound
<1> QED
  BY <1>1, <1>5, <1>6, <1>7, <1>8 DEF IInv, RangeExact

\* When a search ends, its answer tells the lines it skips from the others.
LEMMA SearchDone ==
  ASSUME IInv, pc = "search", begin >= end,
         NEW b \in Begins(file), NEW i \in Stamps(file, b)
  PROVE  /\ b < end <=> skip_line(at(file, i))
         /\ answer = npos => b < end
<1>1. /\ begin \in Int /\ end \in Int /\ b \in 0..size - 1 /\ size \in Nat
      /\ SkippedBefore(begin) /\ AcceptedFrom(end) /\ end = IF answer = npos THEN size ELSE answer
  BY Numbers, LineFacts DEF IInv, Bisecting
<1>2. b < end => skip_line(at(file, i))
  BY <1>1 DEF SkippedBefore
<1>3. ~(b < end) => ~skip_line(at(file, i))
  BY <1>1 DEF AcceptedFrom
<1> QED
  BY <1>1, <1>2, <1>3

\* lowerBoundLine returns.
LEMMA LowerKeeps == ASSUME IInv, LowerDone PROVE IInv'
<1>1. /\ pc = "search" /\ bound = "lower" /\ begin >= end /\ from_pos' = answer /\ bound' = "upper"
      /\ begin' = 0 /\ end' = size /\ answer' = npos
      /\ UNCHANGED <<file, range, pc, offset, line_begin, next_begin, to_pos>>
  BY DEF LowerDone, Inputs
<1>2. size \in Nat /\ size' = size /\ end = IF answer = npos THEN size ELSE answer
  BY <1>1, Numbers DEF IInv, Bisecting, size
<1>3. ASSUME NEW b \in Begins(file), NEW i \in Stamps(file, b)
      PROVE  answer # npos /\ b >= answer <=> at(file, i) >= range[1]
  <2>1. (b < end <=> at(file, i) < range[1]) /\ (answer = npos => b < end)
    BY <1>1, SearchDone DEF skip_line, target
  <2>2. at(file, i) \in Nat /\ range[1] \in Nat /\ b \in Int /\ end \in Int
    BY Numbers, LineFacts DEF IInv
  <2> QED
    BY <1>2, <2>1, <2>2
<1>4. LowerFound'
  BY <1>1, <1>3 DEF LowerFound
<1>5. TypeOK'
  BY <1>1, <1>2 DEF IInv, TypeOK, Offset, size
<1>6. Probed'
  BY <1>1 DEF Probed
<1>7. Bisecting'
  <2>1. \A b \in Begins(file) : ~(b < 0) /\ ~(b >= size)
    BY <1>2, LineFacts DEF IInv
  <2> QED
    BY <1>1, <1>2, <2>1 DEF Bisecting, SkippedBefore, AcceptedFrom
<1> QED
  BY <1>1, <1>4, <1>5, <1>6, <1>7 DEF IInv, RangeExact

\* upperBoundLine returns, and the range is known.
LEMMA UpperKeeps == ASSUME IInv, UpperDone PROVE IInv'
<1>1. PICK to : to = IF answer = npos THEN size ELSE answer
  OBVIOUS
<1>2. /\ pc = "search" /\ bound = "upper" /\ begin >= end /\ pc' = "done"
      /\ IF from_pos = npos \/ to <= from_pos
         THEN from_pos' = 0 /\ to_pos' = 0
         ELSE to_pos' = to /\ UNCHANGED from_pos
      /\ UNCHANGED <<file, range, bound, begin, end, answer, offset, line_begin, next_begin>>
  BY <1>1 DEF UpperDone, Inputs, Bounds
<1>3. /\ size \in Nat /\ size' = size /\ to = end /\ end \in 0..size
      /\ (from_pos = npos \/ from_pos \in 0..size) /\ range[1] \in Nat /\ range[2] \in Nat
  BY <1>1, <1>2, Numbers DEF IInv, Bisecting, size
<1>4. TypeOK'
  <2>1. from_pos' \in 0..size \cup {npos} /\ to_pos' \in 0..size \cup {npos}
    BY <1>2, <1>3
  <2> QED
    BY <1>2, <1>3, <2>1 DEF IInv, TypeOK, Offset
<1>5. ASSUME NEW b \in Begins(file), NEW i \in Stamps(file, b)
      PROVE  b \in from_pos'..to_pos' - 1 <=> at(file, i) \in range[1]..range[2]
  <2>1. b < to <=> at(file, i) <= range[2]
    BY <1>2, <1>3, SearchDone DEF skip_line, target
  <2>2. from_pos # npos /\ b >= from_pos <=> at(file, i) >= range[1]
    BY <1>2 DEF IInv, LowerFound
  <2>3. at(file, i) \in Nat /\ b \in Nat
    BY LineFacts DEF IInv
  <2>4. CASE from_pos = npos \/ to <= from_pos
    <3>1. from_pos' = 0 /\ to_pos' = 0
      BY <1>2, <2>4
    <3>2. b \notin 0..0 - 1
      BY <2>3
    <3>3. at(file, i) \notin range[1]..range[2]
      BY <1>3, <2>1, <2>2, <2>3, <2>4
    <3> QED
      BY <3>1, <3>2, <3>3
  <2>5. CASE ~(from_pos = npos \/ to <= from_pos)
    <3>1. from_pos' = from_pos /\ to_pos' = to /\ from_pos # npos
      BY <1>2, <2>5
    <3>2. b \in from_pos..to - 1 <=> at(file, i) \in range[1]..range[2]
      BY <1>3, <2>1, <2>2, <2>3, <3>1
    <3> QED
      BY <3>1, <3>2
  <2> QED
    BY <2>4, <2>5
<1>6. RangeExact'
  BY <1>2, <1>5 DEF RangeExact
<1>7. Probed'
  BY <1>2 DEF Probed
<1> QED
  BY <1>2, <1>4, <1>6, <1>7 DEF IInv
----------------------------------------------------------------------------
LEMMA InitInv == Init => IInv
<1> SUFFICES ASSUME Init PROVE IInv
  OBVIOUS
<1>1. /\ file \in Files /\ range \in Ranges /\ pc = "search" /\ bound = "lower"
      /\ begin = 0 /\ end = size /\ answer = npos /\ offset = 0 /\ line_begin = 0
      /\ next_begin = 0 /\ from_pos = npos /\ to_pos = npos
  BY DEF Init
<1>2. file \in Seq(Byte) /\ size \in Nat
  BY <1>1, SearchAssumption DEF size
<1>3. TypeOK
  BY <1>1, <1>2 DEF TypeOK, Offset
<1>4. Probed /\ RangeExact
  BY <1>1 DEF Probed, RangeExact
<1>5. \A b \in Begins(file) : ~(b < 0) /\ ~(b >= size)
  BY <1>2, <1>3, LineFacts
<1>6. Bisecting
  BY <1>1, <1>5 DEF Bisecting, SkippedBefore, AcceptedFrom
<1> QED
  BY <1>1, <1>3, <1>4, <1>6 DEF IInv

LEMMA StepInv == IInv /\ [Next]_vars => IInv'
<1> SUFFICES ASSUME IInv, [Next]_vars PROVE IInv'
  OBVIOUS
<1>1. CASE Step
  BY <1>1, ProbeKeeps, BackKeeps, ForwardKeeps, ErrorKeeps, SkipKeeps, AcceptKeeps,
     LowerKeeps, UpperKeeps DEF Step
<1>2. CASE UNCHANGED vars
  <2>1. UNCHANGED <<file, range, pc, bound, begin, end, answer, offset, line_begin,
                    next_begin, from_pos, to_pos>>
    BY <1>2 DEF vars
  <2>2. TypeOK' /\ RangeExact'
    BY <2>1 DEF IInv, TypeOK, Offset, size, RangeExact
  <2>3. Probed'
    BY <2>1, SameSearch DEF IInv, Probed
  <2>4. pc \notin {"done", "error"} => Bisecting'
    BY <2>1, SameSearch DEF IInv, Bisecting
  <2>5. pc # "done" /\ bound = "upper" => LowerFound'
    BY <2>1 DEF IInv, LowerFound
  <2> QED
    BY <2>1, <2>2, <2>3, <2>4, <2>5 DEF IInv
<1> QED
  BY <1>1, <1>2 DEF Next

\* getFileSourceRange finds exactly the lines of the range.
THEOREM SearchExact == Spec => []RangeExact
<1>1. IInv => RangeExact
  BY DEF IInv
<1> QED
  BY <1>1, InitInv, StepInv, PTL DEF Spec

\* The search is a part of opening a log: nothing else touches its state.
LEMMA OpenedSearch == IInv /\ [LogNext]_logVars => IInv'
<1>1. ASSUME [LogNext]_logVars PROVE [Next]_vars
  BY <1>1
     DEF LogNext, LogStep, logVars, Open, Search, PagedLine, PagedSpan, PagedEnd, PipeRead,
         ArchiveRead, StreamLine, StreamEnd, Next
<1> QED
  BY <1>1, StepInv

\* So the range is exact when a log is opened, and the lines of the range are
\* read from what the search found.
THEOREM OpenedRangeExact == LogSpec => []RangeExact
<1>1. LogInit => IInv
  BY InitInv DEF LogInit
<1>2. IInv => RangeExact
  BY DEF IInv
<1> QED
  BY <1>1, <1>2, OpenedSearch, PTL DEF LogSpec
----------------------------------------------------------------------------
(***************************************************************************)
(* Reading the lines.  A generator stands at the beginning of a line       *)
(* (LineOf), and holds of that line what it has read and found no newline  *)
(* in.  The records are those of the lines before it.                      *)
(***************************************************************************)
LineOf(g) == IF mode \in Paged THEN g.pos ELSE g.pos - Len(g.chunk) - Len(g.partial)

\* Where page i begins and ends.
pageBegin(i) == i * PageSize
pageEnd(i) == IF pageBegin(i + 1) < size THEN pageBegin(i + 1) ELSE size

\* data are the bytes from offset b up to e.
Bytes(data, b, e) ==
  /\ data \in Seq(Byte) /\ Len(data) = e - b
  /\ \A k \in 1..Len(data) : data[k] = at(file, b + k - 1)

\* PagedLineSource, reading up to last: it is in the page of the line's
\* beginning, or in a later one and keeps what came before.
PagedAt(g, last) ==
  /\ g.pos \in 0..last /\ g.page_index \in Nat
  /\ g.pos < last => g.pos \in Begins(file)
  /\ ~g.spanning /\ g.pos < last =>
       pageBegin(g.page_index) <= g.pos /\ g.pos < pageBegin(g.page_index + 1)
  /\ g.spanning => /\ g.pos < last /\ g.pos < pageEnd(g.page_index)
                   /\ Bytes(g.partial, g.pos, pageEnd(g.page_index))
                   /\ newlines(g.pos, pageEnd(g.page_index)) = {}

\* The first p bytes lie before the flaw.
Unbroken(p) == flaw # npos => p <= flaw

\* StreamLineSource: the partial line and the rest of the chunk are what was
\* read since the line began.
StreamAt(g) ==
  /\ g.pos \in 0..size /\ LineOf(g) \in 0..size
  /\ LineOf(g) < size => LineOf(g) \in Begins(file)
  /\ Bytes(g.partial, LineOf(g), LineOf(g) + Len(g.partial))
  /\ Bytes(g.chunk, LineOf(g) + Len(g.partial), g.pos)
  /\ newlines(LineOf(g), LineOf(g) + Len(g.partial)) = {}
  /\ Unbroken(g.pos)
  /\ g.read = "end" => g.chunk = <<>> /\ g.pos = size /\ flaw = npos
  /\ mode = "stream" /\ g.read = "chunk" => g.chunk = <<>>

\* NativeArchiveStream between two turns of its loop: all input was inflated.
ArchiveAt(g) ==
  /\ g.avail_in = 0 /\ ~g.compressed_eof_
  /\ ~g.decompressed_eof_ => g.compressed_offset = g.pos /\ g.read # "end"
  /\ g.decompressed_eof_ => g.pos = size /\ csize = size + 1 /\ flaw = npos

\* The members of a generator.
Fields == {"pos", "page_index", "spanning", "partial", "chunk", "read", "avail_in",
           "compressed_offset", "compressed_eof_", "decompressed_eof_"}

Reading(g, last) ==
  /\ DOMAIN g = Fields
  /\ mode \in Paged => PagedAt(g, last)
  /\ mode \notin Paged => StreamAt(g)
  /\ mode = "archive" => ArchiveAt(g)

\* What the search found is a range of whole lines.
RangeOfLines ==
  /\ from_pos \in 0..to_pos /\ to_pos \in 0..size
  /\ from_pos < to_pos => from_pos \in Begins(file)
  /\ 0 < to_pos /\ to_pos < size => to_pos \in Begins(file)

\* The records emitted are those of the lines before b.
UpTo(b) ==
  /\ Len(emitted) = Cardinality({c \in Wanted : c < b})
  /\ \A c \in Wanted : c < b => emitted[Number(c)] = Text(c)

LogTypes ==
  /\ mode \in AllModes /\ slots \in Slots /\ csize \in {size, size + 1}
  /\ csize = size => mode = "archive"
  /\ flaw = npos \/ (flaw \in 0..size /\ mode \in {"stream", "archive"})
  /\ mode = "range" /\ stage \in {"search", "push", "left", "done"} => timed
  /\ stage \in {"open", "detect", "search", "push", "left", "done", "error"}
  /\ mode = "stream" => stage # "detect"
  /\ stage = "search" => mode \in {"range", "format"}
  /\ mode \in {"gzrange", "missing"} => stage \in {"open", "error"}
  /\ emitted \in Seq(Seq(Byte))
  /\ stage \in {"open", "detect", "search"} => emitted = <<>>

LogInv ==
  /\ LogTypes
  /\ stage \in {"open", "search"} => gen = lines(0)
  /\ stage \in {"push", "left", "done"} /\ mode \in {"range", "format"} => pc = "done"
  /\ stage = "push" /\ mode \in {"range", "format"} => from_pos <= LineOf(gen)
  /\ stage \in {"detect", "push"} => Reading(gen, end_)
  /\ stage = "detect" => \A b \in Begins(file) : b < LineOf(gen) => Stamps(file, b) = {}
  /\ stage = "push" => UpTo(LineOf(gen))
  /\ LinesExact
  /\ FailsOnBadInput

\* What the search says of the lines it has found.
Found ==
  /\ pc = "decide" => /\ line_begin < next_begin
                      /\ next_begin < size => at(file, next_begin - 1) = Newline
  /\ answer # npos => answer \in Begins(file)
  /\ pc # "done" /\ from_pos # npos => from_pos \in Begins(file)
  /\ pc = "error" => \E b \in Begins(file) : Stamps(file, b) = {}
  /\ pc = "done" => RangeOfLines
----------------------------------------------------------------------------
\* A number with a property: there is a least one.
LEMMA LeastIndex ==
  ASSUME NEW S \in SUBSET Nat, S # {}
  PROVE  \E m \in S : \A k \in S : m <= k
<1> DEFINE R == {ss \in Nat \X Nat : ss[1] < ss[2]}
<1>1. IsWellFoundedOn(R, Nat)
  BY NatLessThanWellFounded DEF OpToRel
<1>2. PICK m \in S : \A k \in S : ~(<<k, m>> \in R)
  <2> HIDE DEF R
  <2> QED
    BY <1>1, WFMin
<1>3. \A k \in S : ~(k < m)
  BY <1>2
<1> QED
  BY <1>3

\* What firstNewline finds.
LEMMA FirstNewline ==
  ASSUME NEW data \in Seq(Byte)
  PROVE  LET n == firstNewline(data)
         IN  /\ n \in 0..Len(data)
             /\ n = 0 => \A k \in 1..Len(data) : data[k] # Newline
             /\ n # 0 => data[n] = Newline /\ \A k \in 1..n - 1 : data[k] # Newline
<1> DEFINE I == {i \in 1..Len(data) : data[i] = Newline}
<1>1. firstNewline(data) = IF I # {} THEN Min(I) ELSE 0
  BY DEF firstNewline, SelectInSeq
<1>2. CASE I = {}
  BY <1>1, <1>2
<1>3. CASE I # {}
  <2>1. \E m \in I : \A k \in I : m <= k
    <3>1. I \in SUBSET Nat
      OBVIOUS
    <3> HIDE DEF I
    <3> QED
      BY <1>3, <3>1, LeastIndex
  <2>2. Min(I) \in I /\ \A k \in I : Min(I) <= k
    BY <2>1 DEF Min
  <2>3. firstNewline(data) = Min(I)
    BY <1>1, <1>3
  <2> HIDE DEF I
  <2>4. PICK n : n = Min(I)
    OBVIOUS
  <2>5. n \in 1..Len(data) /\ data[n] = Newline
    BY <2>2, <2>4 DEF I
  <2>6. \A k \in 1..n - 1 : data[k] # Newline
    BY <2>2, <2>4, <2>5 DEF I
  <2> QED
    BY <2>3, <2>4, <2>5, <2>6
<1> QED
  BY <1>2, <1>3

\* Where the pages are.
LEMMA PageNumbers ==
  /\ PageSize \in Nat \ {0}
  /\ \A i \in Nat : pageBegin(i) \in Nat /\ pageBegin(i + 1) = pageBegin(i) + PageSize
<1>1. PageSize \in Nat \ {0}
  BY LogAssumption
<1> QED
  BY <1>1 DEF pageBegin

LEMMA PageOf ==
  ASSUME NEW p \in Nat
  PROVE  /\ p \div PageSize \in Nat
         /\ pageBegin(p \div PageSize) <= p /\ p < pageBegin((p \div PageSize) + 1)
<1>1. PageSize \in Nat \ {0}
  BY LogAssumption
<1> QED
  BY <1>1 DEF pageBegin

LEMMA PageOffset ==
  ASSUME NEW i \in Nat, NEW p \in Nat, pageBegin(i) <= p, p < pageBegin(i + 1)
  PROVE  p % PageSize = p - pageBegin(i)
<1>1. PageSize \in Nat \ {0}
  BY LogAssumption
<1>2. \A j \in Nat, d \in Nat : (j + 1 + d) * PageSize = j * PageSize + PageSize + d * PageSize
  BY <1>1
<1>3. \A d \in Nat : d * PageSize \in Nat
  BY <1>1
<1>4. PICK q \in Nat : q = p \div PageSize
  BY <1>1
<1>5. p = (q * PageSize) + (p % PageSize) /\ p % PageSize \in 0..PageSize - 1
  BY <1>1, <1>4
<1>6. ~(q < i)
  <2> SUFFICES ASSUME q < i PROVE FALSE
    OBVIOUS
  <2>1. i - q - 1 \in Nat /\ q + 1 + (i - q - 1) = i
    OBVIOUS
  <2>2. i * PageSize = q * PageSize + PageSize + (i - q - 1) * PageSize
    BY <1>2, <2>1
  <2>3. q * PageSize \in Nat /\ (i - q - 1) * PageSize \in Nat /\ i * PageSize <= p
    BY <1>3, <2>1 DEF pageBegin
  <2> QED
    BY <1>1, <1>5, <2>2, <2>3
<1>7. ~(i < q)
  <2> SUFFICES ASSUME i < q PROVE FALSE
    OBVIOUS
  <2>1. q - i - 1 \in Nat /\ i + 1 + (q - i - 1) = q
    OBVIOUS
  <2>2. q * PageSize = i * PageSize + PageSize + (q - i - 1) * PageSize
    BY <1>2, <2>1
  <2>3. i * PageSize \in Nat /\ (q - i - 1) * PageSize \in Nat /\ p < i * PageSize + PageSize
    BY <1>1, <1>3, <2>1 DEF pageBegin
  <2> QED
    BY <1>1, <1>5, <2>2, <2>3
<1>8. q = i
  BY <1>6, <1>7
<1> QED
  BY <1>3, <1>5, <1>8 DEF pageBegin

\* Parts of the file, cut and joined.
LEMMA CutBytes ==
  ASSUME NEW b \in Nat, NEW e \in Nat, NEW data, Bytes(data, b, e),
         NEW lo \in b..e, NEW hi \in lo..e
  PROVE  Bytes(SubSeq(data, lo - b + 1, hi - b), lo, hi)
<1>1. data \in Seq(Byte) /\ Len(data) = e - b /\ \A k \in 1..Len(data) : data[k] = at(file, b + k - 1)
  BY DEF Bytes
<1>2. PICK s : s = SubSeq(data, lo - b + 1, hi - b)
  OBVIOUS
<1>3. s \in Seq(Byte) /\ Len(s) = hi - lo /\ \A k \in 1..Len(s) : s[k] = data[lo - b + k]
  BY <1>1, <1>2
<1>4. ASSUME NEW k \in 1..Len(s) PROVE s[k] = at(file, lo + k - 1)
  <2>1. lo - b + k \in 1..Len(data) /\ b + (lo - b + k) - 1 = lo + k - 1
    BY <1>1, <1>3
  <2> QED
    BY <1>1, <1>3, <2>1
<1> QED
  BY <1>2, <1>3, <1>4 DEF Bytes

LEMMA JoinBytes ==
  ASSUME NEW b \in Nat, NEW m \in Nat, NEW e \in Nat, NEW d1, NEW d2,
         Bytes(d1, b, m), Bytes(d2, m, e)
  PROVE  Bytes(d1 \o d2, b, e)
<1>1. d1 \in Seq(Byte) /\ Len(d1) = m - b /\ \A k \in 1..Len(d1) : d1[k] = at(file, b + k - 1)
  BY DEF Bytes
<1>2. d2 \in Seq(Byte) /\ Len(d2) = e - m /\ \A k \in 1..Len(d2) : d2[k] = at(file, m + k - 1)
  BY DEF Bytes
<1>3. PICK s : s = d1 \o d2
  OBVIOUS
<1>4. /\ s \in Seq(Byte) /\ Len(s) = e - b
      /\ \A k \in 1..Len(s) : s[k] = IF k <= Len(d1) THEN d1[k] ELSE d2[k - Len(d1)]
  <2>1. d1 \in Seq(Byte) /\ d2 \in Seq(Byte) /\ Len(d1) = m - b /\ Len(d2) = e - m
    BY <1>1, <1>2
  <2>2. s \in Seq(Byte) /\ Len(s) = Len(d1) + Len(d2)
    <3>1. s \in Seq(Byte)
      BY <1>3, <2>1, ConcatProperties
    <3>2. Len(s) = Len(d1) + Len(d2)
      BY <1>3, <2>1, ConcatProperties
    <3> QED
      BY <3>1, <3>2
  <2>3. \A k \in 1..Len(d1) + Len(d2) : s[k] = IF k <= Len(d1) THEN d1[k] ELSE d2[k - Len(d1)]
    BY <1>3, <2>1
  <2> QED
    BY <2>1, <2>2, <2>3
<1>5. ASSUME NEW k \in 1..Len(s) PROVE s[k] = at(file, b + k - 1)
  <2>1. CASE k <= Len(d1)
    <3>1. k \in 1..Len(d1) /\ s[k] = d1[k]
      BY <1>1, <1>4, <2>1
    <3> QED
      BY <1>1, <3>1
  <2>2. CASE ~(k <= Len(d1))
    <3>1. k - Len(d1) \in 1..Len(d2) /\ m + (k - Len(d1)) - 1 = b + k - 1
      BY <1>1, <1>2, <1>4, <2>2
    <3> QED
      BY <1>2, <1>4, <2>2, <3>1
  <2> QED
    BY <2>1, <2>2
<1> QED
  BY <1>3, <1>4, <1>5 DEF Bytes

LEMMA FileBytes ==
  ASSUME TypeOK, NEW b \in 0..size, NEW e \in b..size
  PROVE  Bytes(SubSeq(file, b + 1, e), b, e)
<1>1. file \in Seq(Byte) /\ size = Len(file) /\ Len(file) \in Nat
  BY SearchAssumption DEF TypeOK, size
<1>2. Bytes(file, 0, size)
  BY <1>1 DEF Bytes, at
<1>3. b - 0 + 1 = b + 1 /\ e - 0 = e /\ 0 \in Nat /\ size \in Nat /\ b \in 0..size /\ e \in b..size
  BY <1>1
<1> QED
  BY <1>2, <1>3, CutBytes

LEMMA SameBytes ==
  ASSUME NEW b \in Nat, NEW e \in Nat, NEW d1, NEW d2, Bytes(d1, b, e), Bytes(d2, b, e)
  PROVE  d1 = d2
<1>1. d1 \in Seq(Byte) /\ Len(d1) = e - b /\ \A k \in 1..Len(d1) : d1[k] = at(file, b + k - 1)
  BY DEF Bytes
<1>2. d2 \in Seq(Byte) /\ Len(d2) = e - b /\ \A k \in 1..Len(d2) : d2[k] = at(file, b + k - 1)
  BY DEF Bytes
<1>3. Len(d1) = Len(d2) /\ \A k \in 1..Len(d1) : d1[k] = d2[k]
  BY <1>1, <1>2
<1> QED
  BY <1>1, <1>2, <1>3

\* A page holds the bytes from its beginning to its end.
LEMMA PageBytes ==
  ASSUME TypeOK, NEW i \in Nat, pageBegin(i) <= size
  PROVE  /\ Bytes(page(i), pageBegin(i), pageEnd(i))
         /\ pageBegin(i) \in Nat /\ pageEnd(i) \in pageBegin(i)..size
<1>1. /\ size \in Nat /\ pageBegin(i) \in Nat /\ PageSize \in Nat \ {0}
      /\ pageBegin(i + 1) = pageBegin(i) + PageSize
  BY PageNumbers, Numbers
<1>2. pageEnd(i) \in pageBegin(i)..size
  BY <1>1 DEF pageEnd
<1>3. page(i) = SubSeq(file, pageBegin(i) + 1, pageEnd(i))
  BY DEF page, pageBegin, pageEnd
<1> QED
  BY <1>1, <1>2, <1>3, FileBytes

\* What firstNewline tells of a part of the file.
LEMMA NewlineOfBytes ==
  ASSUME NEW b \in Nat, NEW e \in Nat, NEW data, Bytes(data, b, e)
  PROVE  LET n == firstNewline(data)
         IN  /\ n \in 0..e - b /\ e >= b
             /\ n = 0 => newlines(b, e) = {}
             /\ n # 0 => newlines(b, b + n - 1) = {} /\ at(file, b + n - 1) = Newline
<1>1. data \in Seq(Byte) /\ Len(data) = e - b /\ \A k \in 1..Len(data) : data[k] = at(file, b + k - 1)
  BY DEF Bytes
<1>2. PICK n : n = firstNewline(data)
  OBVIOUS
<1>3. /\ n \in 0..Len(data)
      /\ n = 0 => \A k \in 1..Len(data) : data[k] # Newline
      /\ n # 0 => data[n] = Newline /\ \A k \in 1..n - 1 : data[k] # Newline
  BY <1>1, <1>2, FirstNewline
<1>4. Len(data) \in Nat
  BY <1>1
<1>5. ASSUME NEW m \in b..e - 1 PROVE m - b + 1 \in 1..Len(data) /\ at(file, m) = data[m - b + 1]
  <2>1. m - b + 1 \in 1..Len(data) /\ b + (m - b + 1) - 1 = m
    BY <1>1, <1>4
  <2> QED
    BY <1>1, <2>1
<1>6. n = 0 => newlines(b, e) = {}
  BY <1>3, <1>5 DEF newlines
<1>7. ASSUME n # 0 PROVE newlines(b, b + n - 1) = {} /\ at(file, b + n - 1) = Newline
  <2>1. n \in 1..Len(data) /\ n <= e - b /\ n \in Nat
    BY <1>1, <1>3, <1>4, <1>7
  <2>2. at(file, b + n - 1) = Newline
    BY <1>1, <1>3, <1>7, <2>1
  <2>3. ASSUME NEW m \in b..(b + n - 1) - 1 PROVE at(file, m) # Newline
    <3>1. m \in b..e - 1 /\ m - b + 1 \in 1..n - 1
      BY <2>1
    <3> QED
      BY <1>3, <1>5, <1>7, <3>1
  <2> QED
    BY <2>2, <2>3 DEF newlines
<1> QED
  BY <1>1, <1>2, <1>3, <1>4, <1>6, <1>7

\* The line that begins at b, once its end is known.
LEMMA LineText ==
  ASSUME TypeOK, NEW b \in Begins(file), NEW e \in b..size, newlines(b, e) = {},
         e = size \/ at(file, e) = Newline, NEW data, Bytes(data, b, e)
  PROVE  /\ data = Text(b) /\ (Complete(b) <=> e < size)
         /\ ~Detects(data) => Stamps(file, b) = {}
         /\ OneLine(b, e + 1)
<1>1. /\ size \in Nat /\ b \in 0..size - 1 /\ b \in Nat /\ e \in Nat /\ e <= size /\ b <= e
      /\ size = Len(file)
  BY Numbers, LineFacts DEF size
<1>2. \A m \in b..e - 1 : at(file, m) # Newline
  BY DEF newlines
<1>3. e \in LineEnds(b) /\ \A y \in LineEnds(b) : e <= y
  <2>1. e \in LineEnds(b)
    BY <1>1 DEF LineEnds
  <2>2. ASSUME NEW y \in LineEnds(b), y < e PROVE FALSE
    <3>1. y \in b..size /\ (y = size \/ at(file, y) = Newline)
      BY DEF LineEnds
    <3>2. y \in b..e - 1 /\ y # size
      BY <1>1, <2>2, <3>1
    <3> QED
      BY <1>2, <3>1, <3>2
  <2>3. \A y \in LineEnds(b) : y \in Int
    BY <1>1 DEF LineEnds
  <2> QED
    BY <1>1, <2>1, <2>2, <2>3
<1>4. Text(b) = SubSeq(file, b + 1, e)
  <2>1. PICK x : x = CHOOSE z \in LineEnds(b) : \A y \in LineEnds(b) : z <= y
    OBVIOUS
  <2>2. x \in LineEnds(b) /\ \A y \in LineEnds(b) : x <= y
    BY <1>3, <2>1
  <2>3. x <= e /\ e <= x /\ x \in Int /\ e \in Int
    BY <1>1, <1>3, <2>2 DEF LineEnds
  <2>4. x = e
    BY <2>3
  <2> QED
    BY <2>1, <2>4 DEF Text
<1>5. data = Text(b)
  <2>1. Bytes(SubSeq(file, b + 1, e), b, e)
    <3>1. b \in 0..size
      BY <1>1
    <3> QED
      BY <3>1, FileBytes
  <2> QED
    BY <1>1, <1>4, <2>1, SameBytes
<1>6. Complete(b) <=> e < size
  <2>1. \A y \in LineEnds(b) : y \in Int /\ y <= size
    BY <1>1 DEF LineEnds
  <2> QED
    BY <1>1, <1>3, <2>1 DEF Complete
<1>7. ASSUME ~Detects(data), NEW i \in Stamps(file, b) PROVE FALSE
  <2>1. i \in b..size - 1 /\ at(file, i) > 0 /\ \A j \in b..i - 1 : at(file, j) = Plain
    BY <1>1 DEF Stamps
  <2>2. i < e
    <3> SUFFICES ASSUME ~(i < e) PROVE FALSE
      OBVIOUS
    <3>1. e # size /\ at(file, e) = Newline /\ i \in Int
      BY <1>1, <2>1
    <3>2. CASE i = e
      BY <2>1, <3>1, <3>2 DEF Newline
    <3>3. CASE i # e
      <4>1. e \in b..i - 1
        BY <1>1, <2>1, <3>1, <3>3
      <4> QED
        BY <2>1, <3>1, <4>1 DEF Newline, Plain
    <3> QED
      BY <3>2, <3>3
  <2>3. i - b + 1 \in 1..Len(data) /\ data[i - b + 1] = at(file, i) /\ DOMAIN data = 1..Len(data)
    <3>1. data \in Seq(Byte) /\ Len(data) = e - b /\ \A k \in 1..Len(data) : data[k] = at(file, b + k - 1)
      BY DEF Bytes
    <3>2. i - b + 1 \in 1..Len(data) /\ b + (i - b + 1) - 1 = i
      BY <1>1, <2>1, <2>2, <3>1
    <3> QED
      BY <3>1, <3>2
  <2> QED
    BY <1>7, <2>1, <2>3 DEF Detects
<1>8. OneLine(b, e + 1)
  <2> SUFFICES ASSUME NEW c \in Begins(file), c < e + 1, ~(c <= b) PROVE FALSE
    BY DEF OneLine
  <2>1. c \in 0..size - 1 /\ (c # 0 => at(file, c - 1) = Newline)
    BY LineFacts
  <2>2. c # 0 /\ c - 1 \in b..e - 1
    BY <1>1, <2>1
  <2> QED
    BY <1>2, <2>1, <2>2
<1> QED
  BY <1>5, <1>6, <1>7, <1>8
----------------------------------------------------------------------------
\* Counting the lines that are wanted.
WantedBefore(b) == {c \in Wanted : c < b}

LEMMA WantedFinite ==
  ASSUME TypeOK
  PROVE  /\ Wanted \subseteq Begins(file) /\ Wanted \subseteq 0..size - 1
         /\ \A S \in SUBSET Wanted : IsFiniteSet(S) /\ Cardinality(S) \in Nat
<1>1. Wanted \subseteq Begins(file)
  BY DEF Wanted, LineBegins
<1>2. Wanted \subseteq 0..size - 1 /\ size \in Nat
  BY <1>1, LineFacts, Numbers
<1>3. IsFiniteSet(0..size - 1)
  BY <1>2, FS_Interval
<1>4. ASSUME NEW S \in SUBSET Wanted PROVE IsFiniteSet(S) /\ Cardinality(S) \in Nat
  <2>1. S \subseteq 0..size - 1
    BY <1>2
  <2>2. IsFiniteSet(S)
    BY <1>3, <2>1, FS_Subset
  <2> QED
    BY <2>2, FS_CardinalityType
<1> QED
  BY <1>1, <1>2, <1>4

\* Fewer lines are fewer.
LEMMA WantedMonotone ==
  ASSUME TypeOK, NEW S \in SUBSET Wanted, NEW T \in SUBSET Wanted, S \subseteq T
  PROVE  /\ Cardinality(S) \in Nat /\ Cardinality(T) \in Nat /\ Cardinality(S) <= Cardinality(T)
         /\ Cardinality(S) = Cardinality(T) => S = T
<1>1. IsFiniteSet(T) /\ Cardinality(S) \in Nat /\ Cardinality(T) \in Nat
  BY WantedFinite
<1> QED
  BY <1>1, FS_Subset

\* The number of a wanted line, compared with the lines before b.
LEMMA NumberFacts ==
  ASSUME TypeOK, NEW b \in Int, NEW c \in Wanted
  PROVE  /\ Number(c) \in Nat /\ Cardinality(WantedBefore(b)) \in Nat
         /\ c < b => Number(c) \in 1..Cardinality(WantedBefore(b))
         /\ ~(c < b) => Number(c) > Cardinality(WantedBefore(b))
         /\ c = b => Number(c) = Cardinality(WantedBefore(b)) + 1
<1> DEFINE S == {x \in Wanted : x <= c}
           T == WantedBefore(b)
<1>0. c \in Int /\ \A x \in Wanted : x \in Int
  BY WantedFinite
<1>1. /\ S \in SUBSET Wanted /\ T \in SUBSET Wanted /\ c \in S
      /\ Number(c) = Cardinality(S)
  BY <1>0 DEF WantedBefore, Number
<1>2. Cardinality(S) \in Nat /\ Cardinality(T) \in Nat /\ IsFiniteSet(T)
  BY <1>1, WantedFinite
<1>3. ASSUME c < b PROVE Cardinality(S) \in 1..Cardinality(T)
  <2>1. S \subseteq T
    <3>1. \A x \in Wanted : x <= c => x < b
      BY <1>0, <1>3
    <3> QED
      BY <3>1 DEF WantedBefore
  <2>2. Cardinality(S) <= Cardinality(T)
    BY <1>1, <2>1, WantedMonotone
  <2>3. Cardinality(S) # 0
    <3>1. Cardinality(S) = 0 <=> S = {}
      BY <1>1, WantedFinite, FS_EmptySet
    <3> QED
      BY <1>1, <3>1
  <2> QED
    BY <1>2, <2>2, <2>3
<1>4. ASSUME ~(c < b) PROVE Cardinality(S) > Cardinality(T)
  <2>1. T \subseteq S /\ c \notin T
    <3>1. \A x \in Wanted : x < b => x <= c
      BY <1>0, <1>4
    <3> QED
      BY <1>4, <3>1 DEF WantedBefore
  <2>2. Cardinality(T) <= Cardinality(S) /\ (Cardinality(T) = Cardinality(S) => T = S)
    BY <1>1, <2>1, WantedMonotone
  <2>3. T # S
    BY <1>1, <2>1
  <2> HIDE DEF S, T
  <2> QED
    BY <1>2, <2>2, <2>3
<1>5. ASSUME c = b PROVE Cardinality(S) = Cardinality(T) + 1
  <2>1. S = T \cup {c} /\ c \notin T
    <3>1. \A x \in Wanted : x <= c <=> x < b \/ x = c
      BY <1>0, <1>5
    <3>2. c \in Wanted /\ ~(c < b)
      BY <1>0, <1>5
    <3> QED
      BY <3>1, <3>2 DEF WantedBefore
  <2> HIDE DEF S, T
  <2> QED
    BY <1>2, <2>1, FS_AddElement
<1> QED
  BY <1>1, <1>2, <1>3, <1>4, <1>5

\* The lines before the next line are those before this one, and it.
LEMMA NextWanted ==
  ASSUME TypeOK, NEW b \in Int, NEW nb \in Int, b < nb, OneLine(b, nb)
  PROVE  /\ b \notin Wanted => WantedBefore(nb) = WantedBefore(b)
         /\ b \in Wanted => /\ WantedBefore(nb) = WantedBefore(b) \cup {b}
                            /\ Cardinality(WantedBefore(nb)) = Cardinality(WantedBefore(b)) + 1
<1>1. \A c \in Wanted : c \in Int /\ (c < nb <=> c < b \/ c = b)
  BY WantedFinite DEF OneLine
<1>2. b \notin Wanted => WantedBefore(nb) = WantedBefore(b)
  BY <1>1 DEF WantedBefore
<1>3. ASSUME b \in Wanted
      PROVE  WantedBefore(nb) = WantedBefore(b) \cup {b} /\ b \notin WantedBefore(b)
  <2>1. ~(b < b)
    OBVIOUS
  <2> QED
    BY <1>1, <1>3, <2>1 DEF WantedBefore
<1>4. WantedBefore(b) \in SUBSET Wanted
  BY DEF WantedBefore
<1>5. IsFiniteSet(WantedBefore(b))
  BY <1>4, WantedFinite
<1> QED
  BY <1>2, <1>3, <1>5, FS_AddElement

\* The records of the lines before b are what LinesExact asks for.
LEMMA UpToExact ==
  ASSUME TypeOK, NEW b \in Int, UpTo(b)
  PROVE  /\ Len(emitted) <= Cardinality(Wanted)
         /\ \A c \in Wanted : Number(c) <= Len(emitted) => emitted[Number(c)] = Text(c)
<1>1. Len(emitted) = Cardinality(WantedBefore(b)) /\ \A c \in Wanted : c < b => emitted[Number(c)] = Text(c)
  BY DEF UpTo, WantedBefore
<1>2. WantedBefore(b) \in SUBSET Wanted /\ Wanted \in SUBSET Wanted /\ WantedBefore(b) \subseteq Wanted
  BY DEF WantedBefore
<1>3. Len(emitted) <= Cardinality(Wanted)
  BY <1>1, <1>2, WantedMonotone
<1>4. ASSUME NEW c \in Wanted, Number(c) <= Len(emitted) PROVE c < b
  BY <1>1, <1>4, NumberFacts
<1> QED
  BY <1>1, <1>3, <1>4
----------------------------------------------------------------------------
\* Reading changes nothing of the log.
LEMMA SameLog ==
  ASSUME UNCHANGED <<vars, fixed>>
  PROVE  /\ UNCHANGED <<file, range, pc, from_pos, to_pos, mode, slots, csize, timed, flaw>>
         /\ size' = size /\ Wanted' = Wanted
         /\ \A c : Text(c)' = Text(c) /\ Number(c)' = Number(c)
         /\ \A c : Complete(c)' <=> Complete(c)
<1>1. UNCHANGED <<file, range, pc, from_pos, to_pos, mode, slots, csize, timed, flaw>>
  BY DEF vars, fixed
<1>2. size' = size
  BY <1>1 DEF size
<1>3. \A c : LineEnds(c)' = LineEnds(c)
  BY <1>1, <1>2 DEF LineEnds
<1>4. \A c : Text(c)' = Text(c)
  BY <1>1, <1>3 DEF Text
<1>5. \A c : Complete(c)' <=> Complete(c)
  BY <1>2, <1>3 DEF Complete
<1>6. LineBegins' = LineBegins
  BY <1>1, <1>4, <1>5 DEF LineBegins
<1>7. Wanted' = Wanted
  BY <1>1, <1>4, <1>6 DEF Wanted
<1>8. \A c : Number(c)' = Number(c)
  BY <1>7 DEF Number
<1> QED
  BY <1>1, <1>2, <1>4, <1>5, <1>7, <1>8

LEMMA SameReading ==
  ASSUME UNCHANGED <<file, mode, csize, flaw>>
  PROVE  /\ LineOf(gen)' = LineOf(gen')
         /\ Reading(gen, end_)' <=> Reading(gen', end_')
<1>0. size' = size
  BY DEF size
<1>1. LineOf(gen)' = LineOf(gen')
  BY DEF LineOf
<1>2. PagedAt(gen, end_)' <=> PagedAt(gen', end_')
  BY <1>0 DEF PagedAt, Bytes, newlines, pageEnd, pageBegin
<1>3. StreamAt(gen)' <=> StreamAt(gen')
  BY <1>0, <1>1 DEF StreamAt, Unbroken, Bytes, newlines
<1>4. ArchiveAt(gen)' <=> ArchiveAt(gen')
  BY <1>0 DEF ArchiveAt
<1> QED
  BY <1>1, <1>2, <1>3, <1>4 DEF Reading

\* A step of the generator that stays in its stage keeps its end.
LEMMA SameEnd ==
  ASSUME UNCHANGED <<vars, fixed>>, stage' = stage
  PROVE  end_' = end_
<1> QED
  BY SameLog DEF end_

\* The record of a wanted line is emitted, or a line that is not wanted left out.
LEMMA EmitUpTo ==
  ASSUME TypeOK, UNCHANGED <<vars, fixed>>, emitted \in Seq(Seq(Byte)),
         NEW b \in Int, NEW nb \in Int, b < nb, OneLine(b, nb), UpTo(b), b \in Wanted,
         emitted' = Append(emitted, Text(b))
  PROVE  UpTo(nb)'
<1>1. Len(emitted) = Cardinality(WantedBefore(b)) /\ \A c \in Wanted : c < b => emitted[Number(c)] = Text(c)
  BY DEF UpTo, WantedBefore
<1>2. /\ WantedBefore(nb) = WantedBefore(b) \cup {b}
      /\ Cardinality(WantedBefore(nb)) = Cardinality(WantedBefore(b)) + 1
  BY NextWanted
<1>3. /\ Len(emitted') = Len(emitted) + 1 /\ emitted'[Len(emitted) + 1] = Text(b)
      /\ \A k \in 1..Len(emitted) : emitted'[k] = emitted[k]
  OBVIOUS
<1>4. ASSUME NEW c \in Wanted, c < nb PROVE emitted'[Number(c)] = Text(c)
  <2>1. c < b \/ c = b
    BY <1>2, <1>4 DEF WantedBefore
  <2>2. CASE c < b
    <3>1. Number(c) \in 1..Len(emitted)
      BY <1>1, <2>2, NumberFacts
    <3> QED
      BY <1>1, <1>3, <2>2, <3>1
  <2>3. CASE c = b
    <3>1. Number(c) = Len(emitted) + 1
      BY <1>1, <2>3, NumberFacts
    <3> QED
      BY <1>3, <2>3, <3>1
  <2> QED
    BY <2>1, <2>2, <2>3
<1>5. Len(emitted') = Cardinality(WantedBefore(nb))
  BY <1>1, <1>2, <1>3
<1>6. /\ Wanted' = Wanted
      /\ \A c : Text(c)' = Text(c) /\ Number(c)' = Number(c)
  BY SameLog
<1> QED
  BY <1>4, <1>5, <1>6 DEF UpTo, WantedBefore

LEMMA LeaveUpTo ==
  ASSUME TypeOK, UNCHANGED <<vars, fixed>>,
         NEW b \in Int, NEW nb \in Int, b < nb, OneLine(b, nb), UpTo(b), b \notin Wanted,
         emitted' = emitted
  PROVE  UpTo(nb)'
<1>1. WantedBefore(nb) = WantedBefore(b)
  BY NextWanted
<1>2. /\ Wanted' = Wanted
      /\ \A c : Text(c)' = Text(c) /\ Number(c)' = Number(c)
  BY SameLog
<1>3. \A c \in Wanted : c < nb => c < b
  BY <1>1 DEF WantedBefore
<1> QED
  BY <1>1, <1>2, <1>3 DEF UpTo, WantedBefore
----------------------------------------------------------------------------
\* The search: where the line it decides on ends, and that its answers are
\* beginnings of lines.
LEMMA FoundStep == ASSUME IInv, Found, Step PROVE Found'
<1>1. CASE Probe \/ Back
  <2>1. /\ pc' \in {"forward", "back"} /\ pc \in {"search", "back"}
        /\ UNCHANGED <<file, answer, from_pos>>
    BY <1>1 DEF Probe, Back, Inputs, Bounds, Result
  <2> QED
    BY <2>1 DEF Found
<1>2. CASE Forward
  <2>1. pc = "forward" /\ pc' \in {"forward", "decide"} /\ UNCHANGED <<file, answer, from_pos, line_begin>>
    BY <1>2 DEF Forward, Inputs, Bounds, Result
  <2>2. /\ size \in Nat /\ offset \in 0..size /\ line_begin \in 0..size - 1 /\ line_begin <= offset
        /\ size' = size
    BY <2>1, Numbers, LineFacts DEF IInv, Probed, size
  <2>3. PICK chunk : chunk = IF offset + BufferSize < size THEN offset + BufferSize ELSE size
    OBVIOUS
  <2>4. ASSUME pc' = "decide"
        PROVE  line_begin' < next_begin' /\ (next_begin' < size' => at(file', next_begin' - 1) = Newline)
    <3>1. CASE newlines(offset, chunk) # {}
      <4>1. PICK n \in newlines(offset, chunk) : next_begin' = n + 1
        BY <1>2, <2>3, <3>1 DEF Forward
      <4>2. n \in offset..chunk - 1 /\ n \in Int /\ at(file, n) = Newline
        BY DEF newlines
      <4> QED
        BY <2>1, <2>2, <4>1, <4>2
    <3>2. CASE newlines(offset, chunk) = {}
      <4>1. next_begin' = size
        BY <1>2, <2>1, <2>3, <2>4, <3>2 DEF Forward
      <4> QED
        BY <2>1, <2>2, <4>1
    <3> QED
      BY <3>1, <3>2
  <2> QED
    BY <2>1, <2>4 DEF Found
<1>3. CASE NoTimestamp
  <2>1. pc = "decide" /\ stamps = {} /\ pc' = "error" /\ UNCHANGED <<file, answer, from_pos>>
    BY <1>3 DEF NoTimestamp, Inputs, Bounds, Result
  <2>2. /\ line_begin \in Begins(file) /\ line_begin < next_begin /\ size = Len(file)
        /\ next_begin < size => at(file, next_begin - 1) = Newline
        /\ size \in Nat /\ line_begin \in 0..size /\ next_begin \in 0..size
    BY <2>1, Numbers DEF IInv, Probed, Found, size
  <2>3. ASSUME NEW i \in Stamps(file, line_begin) PROVE FALSE
    <3>1. /\ i \in line_begin..size - 1 /\ at(file, i) > 0
          /\ \A j \in line_begin..i - 1 : at(file, j) = Plain
      BY <2>2 DEF Stamps
    <3>2. CASE i < next_begin
      <4>1. i \in line_begin..next_begin - 1
        BY <2>2, <3>1, <3>2
      <4> QED
        BY <2>1, <4>1 DEF stamps
    <3>3. CASE ~(i < next_begin)
      <4>1. next_begin < size /\ next_begin - 1 \in line_begin..i - 1
        BY <2>2, <3>1, <3>3
      <4> QED
        BY <2>2, <3>1, <4>1 DEF Newline, Plain
    <3> QED
      BY <3>2, <3>3
  <2> QED
    BY <2>1, <2>2, <2>3 DEF Found
<1>4. CASE Skip
  <2>1. pc = "decide" /\ pc' = "search" /\ UNCHANGED <<file, answer, from_pos>>
    BY <1>4 DEF Skip, Inputs, Result
  <2> QED
    BY <2>1 DEF Found
<1>5. CASE Accept
  <2>1. pc = "decide" /\ pc' = "search" /\ answer' = line_begin /\ UNCHANGED <<file, from_pos>>
    BY <1>5 DEF Accept, Inputs, Result
  <2> QED
    BY <2>1 DEF IInv, Probed, Found
<1>6. CASE LowerDone
  <2>1. pc = "search" /\ pc' = "search" /\ answer' = npos /\ from_pos' = answer /\ file' = file
    BY <1>6 DEF LowerDone, Inputs
  <2> QED
    BY <2>1 DEF Found
<1>7. CASE UpperDone
  <2>1. PICK to : to = IF answer = npos THEN size ELSE answer
    OBVIOUS
  <2>2. /\ pc = "search" /\ pc' = "done" /\ UNCHANGED <<file, answer>>
        /\ IF from_pos = npos \/ to <= from_pos
           THEN from_pos' = 0 /\ to_pos' = 0
           ELSE to_pos' = to /\ UNCHANGED from_pos
    BY <1>7, <2>1 DEF UpperDone, Inputs, Bounds
  <2>3. /\ size \in Nat /\ size' = size /\ to \in 0..size /\ (to < size => to \in Begins(file))
        /\ from_pos # npos => from_pos \in Begins(file) /\ from_pos \in 0..size
        /\ answer # npos => answer \in Begins(file)
    BY <2>1, <2>2, Numbers DEF IInv, Found, size
  <2>4. RangeOfLines'
    <3>1. CASE from_pos = npos \/ to <= from_pos
      BY <2>2, <2>3, <3>1 DEF RangeOfLines
    <3>2. CASE ~(from_pos = npos \/ to <= from_pos)
      BY <2>2, <2>3, <3>2 DEF RangeOfLines
    <3> QED
      BY <3>1, <3>2
  <2> QED
    BY <2>2, <2>3, <2>4 DEF Found
<1> QED
  BY <1>1, <1>2, <1>3, <1>4, <1>5, <1>6, <1>7 DEF Step

LEMMA FoundSame == ASSUME Found, UNCHANGED vars PROVE Found'
<1>1. UNCHANGED <<file, pc, answer, line_begin, next_begin, from_pos, to_pos>> /\ size' = size
  BY DEF vars, size
<1> QED
  BY <1>1 DEF Found, RangeOfLines

\* A generator at its first line.
LEMMA StartReading ==
  ASSUME TypeOK, NEW first \in Nat, NEW last \in 0..size, first <= last,
         first < last => first \in Begins(file), mode \notin Paged => first = 0, Unbroken(0)
  PROVE  Reading(lines(first), last) /\ LineOf(lines(first)) = first
<1>1. PICK g : g = lines(first)
  OBVIOUS
<1>2. /\ g.pos = first /\ g.page_index = first \div PageSize /\ g.partial = <<>> /\ g.chunk = <<>>
      /\ g.read = "chunk" /\ g.avail_in = 0 /\ g.compressed_offset = 0
  BY <1>1 DEF lines
<1>3. ~g.spanning /\ ~g.compressed_eof_ /\ ~g.decompressed_eof_
  BY <1>1 DEF lines
<1>4. size \in Nat /\ size = Len(file)
  BY Numbers DEF size
<1>5. LineOf(g) = first
  BY <1>2 DEF LineOf
<1>6. PagedAt(g, last)
  BY <1>2, <1>3, <1>4, PageOf DEF PagedAt
<1>7. ASSUME first = 0 PROVE StreamAt(g)
  <2>1. newlines(0, 0) = {} /\ Bytes(<<>>, 0, 0)
    BY DEF newlines, Bytes
  <2>2. 0 < size => 0 \in Begins(file)
    BY <1>4, LineFacts
  <2> QED
    BY <1>2, <1>4, <1>5, <1>7, <2>1, <2>2 DEF StreamAt
<1>8. ASSUME first = 0 PROVE ArchiveAt(g)
  BY <1>2, <1>3, <1>8 DEF ArchiveAt
<1>9. DOMAIN g = Fields
  BY <1>1 DEF lines, Fields
<1> QED
  BY <1>1, <1>5, <1>6, <1>7, <1>8, <1>9 DEF Reading, Paged
----------------------------------------------------------------------------
\* What each stage asks for.
LEMMA ExactNow ==
  TypeOK /\ (\E x \in Int : UpTo(x)) =>
    /\ Len(emitted) <= Cardinality(Wanted)
    /\ \A c \in Wanted : Number(c) <= Len(emitted) => emitted[Number(c)] = Text(c)
<1> QED
  BY UpToExact

LEMMA ExactAfter ==
  ASSUME TypeOK', NEW b \in Int, UpTo(b)'
  PROVE  (/\ Len(emitted) <= Cardinality(Wanted)
          /\ \A c \in Wanted : Number(c) <= Len(emitted) => emitted[Number(c)] = Text(c))'
<1>1. (TypeOK /\ (\E x \in Int : UpTo(x)) =>
         /\ Len(emitted) <= Cardinality(Wanted)
         /\ \A c \in Wanted : Number(c) <= Len(emitted) => emitted[Number(c)] = Text(c))'
  BY ExactNow, PTL
<1> QED
  BY <1>1

LEMMA ToPush ==
  ASSUME TypeOK', LogTypes', stage' = "push", Reading(gen, end_)', UpTo(LineOf(gen))',
         LineOf(gen)' \in Int, mode' \in {"range", "format"} => pc' = "done" /\ from_pos' <= LineOf(gen)'
  PROVE  LogInv'
<1>1. PICK b \in Int : b = LineOf(gen)'
  OBVIOUS
<1>2. UpTo(b)'
  BY <1>1 DEF UpTo
<1>3. (/\ Len(emitted) <= Cardinality(Wanted)
       /\ \A c \in Wanted : Number(c) <= Len(emitted) => emitted[Number(c)] = Text(c))'
  BY <1>2, ExactAfter
<1>4. LinesExact'
  BY <1>3 DEF LinesExact
<1>5. FailsOnBadInput'
  BY DEF FailsOnBadInput
<1> QED
  BY <1>4, <1>5 DEF LogInv

LEMMA ToDetect ==
  ASSUME LogTypes', stage' = "detect", Reading(gen, end_)',
         (\A b \in Begins(file) : b < LineOf(gen) => Stamps(file, b) = {})'
  PROVE  LogInv'
<1> QED
  BY DEF LogInv, LinesExact, FailsOnBadInput

LEMMA ToError ==
  ASSUME LogTypes', stage' = "error",
         (\/ \E b \in Begins(file) : Stamps(file, b) = {}
          \/ mode = "range" /\ (~timed \/ ~\E b \in Begins(file) : Complete(b))
          \/ mode \in {"gzrange", "missing"} \/ Damaged)'
  PROVE  LogInv'
<1> QED
  BY DEF LogInv, LinesExact, FailsOnBadInput

\* A step of the generator keeps the types, whatever stage it leads to.
LEMMA TypesKept ==
  ASSUME LogTypes, UNCHANGED <<vars, fixed>>, stage \in {"detect", "push"},
         stage' \in {"detect", "search", "push", "left", "done", "error"},
         stage' = "detect" => stage = "detect",
         stage' = "search" => stage = "detect" /\ mode \in {"range", "format"},
         stage = "detect" /\ stage' \in {"search", "push", "left", "done"} => mode # "range" \/ timed,
         emitted' \in Seq(Seq(Byte)), stage' \in {"detect", "search"} => emitted' = emitted
  PROVE  LogTypes'
<1>1. UNCHANGED <<mode, slots, csize, timed, flaw>> /\ size' = size
  BY SameLog
<1> QED
  BY <1>1 DEF LogTypes

LEMMA FlawFacts == ASSUME TypeOK, LogTypes PROVE flaw \in Int /\ Unbroken(0)
<1>1. size \in Nat
  BY Numbers
<1> QED
  BY <1>1 DEF LogTypes, Unbroken, npos

\* The records before the first line of all: none.
LEMMA UpToStart ==
  ASSUME TypeOK, emitted = <<>>, NEW b \in Int, \A c \in Wanted : c >= b
  PROVE  UpTo(b)
<1>1. \A c \in Wanted : c \in Int
  BY WantedFinite
<1>2. {c \in Wanted : c < b} = {}
  BY <1>1
<1>3. Cardinality({}) = 0 /\ Len(<<>>) = 0
  BY FS_EmptySet
<1> QED
  BY <1>2, <1>3 DEF UpTo
----------------------------------------------------------------------------
\* The detection of the type is over.
LEMMA DetectedKeeps ==
  ASSUME IInv, LogInv, UNCHANGED <<vars, fixed>>, stage = "detect", NEW found, Detected(found),
         mode = "range" /\ ~found =>
           \/ \E b \in Begins(file) : Stamps(file, b) = {}
           \/ ~\E b \in Begins(file) : Complete(b)
  PROVE  LogInv'
<1>1. /\ TypeOK /\ LogTypes /\ mode \in AllModes /\ mode \notin {"stream", "gzrange", "missing"}
      /\ emitted = <<>> /\ emitted' = <<>> /\ gen' = lines(0) /\ emitted \in Seq(Seq(Byte))
  BY DEF IInv, LogInv, LogTypes, Detected
<1>2. UNCHANGED <<file, mode, csize, timed, flaw>> /\ size' = size /\ (\A c : Complete(c)' <=> Complete(c))
  BY SameLog
<1>3. TypeOK'
  BY <1>1 DEF TypeOK, vars, Offset, size
<1>4. CASE mode \in {"file", "archive"}
  <2>1. stage' = "push"
    BY <1>4 DEF Detected
  <2>2. end_' = size
    BY <1>2, <1>4 DEF end_
  <2>3. Reading(lines(0), size) /\ LineOf(lines(0)) = 0
    <3>1. size \in Nat /\ 0 \in Nat /\ size \in 0..size /\ 0 <= size /\ (0 < size => 0 \in Begins(file))
      BY <1>1, Numbers, LineFacts
    <3> QED
      BY <1>1, <3>1, FlawFacts, StartReading
  <2>4. Reading(gen, end_)' /\ LineOf(gen)' = 0
    BY <1>1, <1>2, <2>2, <2>3, SameReading
  <2>5. UpTo(LineOf(gen))'
    <3>1. UpTo(0)
      <4>1. \A c \in Wanted : c >= 0
        BY <1>1, WantedFinite
      <4> QED
        BY <1>1, <4>1, UpToStart
    <3>2. UpTo(0)'
      BY <1>1, <3>1, SameLog DEF UpTo
    <3> QED
      BY <2>4, <3>2 DEF UpTo
  <2>6. LogTypes'
    BY <1>1, <1>4, <2>1, TypesKept
  <2>7. mode' \notin {"range", "format"}
    BY <1>2, <1>4
  <2> QED
    BY <1>3, <2>1, <2>4, <2>5, <2>6, <2>7, ToPush
<1>5. CASE mode = "range" /\ ~(found /\ timed)
  <2>1. stage' = "error"
    BY <1>5 DEF Detected
  <2>2. LogTypes'
    BY <1>1, <2>1, TypesKept
  <2> QED
    BY <1>2, <1>5, <2>1, <2>2, ToError DEF Damaged
<1>6. CASE mode \notin {"file", "archive"} /\ ~(mode = "range" /\ ~(found /\ timed))
  <2>1. stage' = "search"
    BY <1>6 DEF Detected
  <2>2. mode \in {"range", "format"}
    BY <1>1, <1>6 DEF AllModes, Paged
  <2>3. LogTypes'
    <3>1. mode # "range" \/ timed
      BY <1>6
    <3> QED
      BY <1>1, <2>1, <2>2, <3>1, TypesKept
  <2>4. lines(0)' = lines(0)
    BY DEF lines
  <2> QED
    BY <1>1, <2>1, <2>3, <2>4 DEF LogInv, LinesExact, FailsOnBadInput
<1> QED
  BY <1>4, <1>5, <1>6

\* The generator goes on within the line.
LEMMA ContinueKeeps ==
  ASSUME IInv, LogInv, UNCHANGED <<vars, fixed>>, stage \in {"detect", "push"},
         NEW next, Continue(next), Reading(next, end_), LineOf(next) = LineOf(gen)
  PROVE  LogInv'
<1>1. gen' = next /\ UNCHANGED <<stage, emitted>>
  BY DEF Continue
<1>2. UNCHANGED <<file, mode, csize, flaw, pc, from_pos>> /\ size' = size /\ Wanted' = Wanted
      /\ (\A c : Text(c)' = Text(c) /\ Number(c)' = Number(c)) /\ (\A c : Complete(c)' <=> Complete(c))
  BY SameLog
<1>3. end_' = end_
  BY <1>1, SameEnd
<1>4. Reading(gen, end_)' /\ LineOf(gen)' = LineOf(gen)
  BY <1>1, <1>2, <1>3, SameReading
<1>5. LogTypes'
  BY <1>1, TypesKept DEF LogInv, LogTypes
<1>6. stage = "push" => UpTo(LineOf(gen))'
  BY <1>1, <1>2, <1>4 DEF LogInv, UpTo
<1>7. LinesExact' /\ FailsOnBadInput'
  BY <1>1, <1>2 DEF LogInv, LinesExact, FailsOnBadInput
<1>8. stage = "push" /\ mode \in {"range", "format"} => pc = "done" /\ from_pos <= LineOf(gen)
  BY DEF LogInv
<1>9. stage = "detect" => \A b \in Begins(file) : b < LineOf(gen) => Stamps(file, b) = {}
  BY DEF LogInv
<1> QED
  BY <1>1, <1>2, <1>4, <1>5, <1>6, <1>7, <1>8, <1>9 DEF LogInv

\* The generator returns.
LEMMA ReturnKeeps ==
  ASSUME IInv, LogInv, UNCHANGED <<vars, fixed>>, stage \in {"detect", "push"}, Return,
         LineOf(gen) \in Int,
         stage = "push" => /\ \A c \in Wanted : c < LineOf(gen)
                           /\ ~Damaged,
         stage = "detect" /\ mode = "range" =>
           \/ \E b \in Begins(file) : Stamps(file, b) = {}
           \/ ~\E b \in Begins(file) : Complete(b)
  PROVE  LogInv'
<1>1. CASE stage = "detect"
  <2>1. Detected(FALSE)
    BY <1>1 DEF Return
  <2> QED
    BY <1>1, <2>1, DetectedKeeps
<1>2. CASE stage = "push"
  <2>1. stage' = "done" /\ ended' = TRUE /\ UNCHANGED <<gen, emitted>>
    BY <1>2 DEF Return
  <2>2. UNCHANGED <<file, mode, csize, timed, flaw, pc>> /\ size' = size /\ Wanted' = Wanted
        /\ (\A c : Text(c)' = Text(c) /\ Number(c)' = Number(c))
    BY SameLog
  <2>3. LogTypes'
    BY <1>2, <2>1, TypesKept DEF LogInv, LogTypes
  <2>4. {c \in Wanted : c < LineOf(gen)} = Wanted
    BY <1>2
  <2>5. Len(emitted) = Cardinality(Wanted)
    BY <1>2, <2>4 DEF LogInv, UpTo
  <2>6. /\ Len(emitted) <= Cardinality(Wanted)
        /\ \A c \in Wanted : Number(c) <= Len(emitted) => emitted[Number(c)] = Text(c)
    BY <1>2 DEF LogInv, LinesExact
  <2>7. LinesExact'
    BY <2>1, <2>2, <2>5, <2>6 DEF LinesExact
  <2>8. FailsOnBadInput'
    <3>1. ~Damaged'
      BY <1>2, <2>2 DEF Damaged
    <3>2. mode' = "range" => timed'
      BY <1>2, <2>2 DEF LogInv, LogTypes
    <3> QED
      BY <2>1, <3>1, <3>2 DEF FailsOnBadInput
  <2>9. mode' \in {"range", "format"} => pc' = "done"
    BY <1>2, <2>2 DEF LogInv
  <2> QED
    BY <2>1, <2>3, <2>7, <2>8, <2>9 DEF LogInv
<1> QED
  BY <1>1, <1>2

\* The generator yields the line that begins at b, and nb is where the next one
\* begins, if there is one.
LEMMA YieldKeeps ==
  ASSUME IInv, LogInv, UNCHANGED <<vars, fixed>>, stage \in {"detect", "push"},
         NEW b \in Begins(file), b = LineOf(gen), NEW nb \in Int, b < nb, OneLine(b, nb),
         NEW line \in Seq(Byte), line = Text(b), ~Detects(line) => Stamps(file, b) = {},
         stage = "push" => b \in LineBegins,
         NEW next, Reading(next, end_), LineOf(next) = nb, Yield(line, next)
  PROVE  LogInv'
<1>1. /\ TypeOK /\ LogTypes /\ emitted \in Seq(Seq(Byte)) /\ b \in Int
      /\ stage = "push" => UpTo(b)
      /\ stage = "push" /\ mode \in {"range", "format"} => pc = "done" /\ from_pos <= nb
  <2>1. TypeOK /\ LogTypes /\ emitted \in Seq(Seq(Byte)) /\ b \in Int /\ (stage = "push" => UpTo(b))
    BY LineFacts DEF IInv, LogInv, LogTypes
  <2>2. stage = "push" /\ mode \in {"range", "format"} => pc = "done" /\ from_pos <= b
    BY DEF LogInv
  <2>3. from_pos \in Int
    BY <2>1, Numbers
  <2> QED
    BY <2>1, <2>2, <2>3
<1>2. UNCHANGED <<file, mode, csize, flaw, pc, from_pos>> /\ size' = size
  BY SameLog
<1>3. TypeOK'
  BY <1>1 DEF TypeOK, vars, Offset, size
<1>4. CASE stage = "detect" /\ Detects(line)
  <2>1. Detected(TRUE)
    BY <1>4 DEF Yield
  <2> QED
    BY <1>4, <2>1, DetectedKeeps
<1>5. CASE stage = "detect" /\ ~Detects(line)
  <2>1. gen' = next /\ UNCHANGED <<stage, emitted>>
    BY <1>5 DEF Yield
  <2>2. end_' = end_
    BY <2>1, SameEnd
  <2>3. Reading(gen, end_)' /\ LineOf(gen)' = nb
    BY <1>2, <2>1, <2>2, SameReading
  <2>4. LogTypes'
    BY <1>1, <1>5, <2>1, TypesKept
  <2>5. ASSUME NEW c \in Begins(file), c < nb PROVE Stamps(file, c) = {}
    <3>1. c \in Int /\ c <= b
      BY <1>1, <2>5, LineFacts DEF OneLine
    <3>2. c < b => Stamps(file, c) = {}
      BY <1>5 DEF LogInv
    <3> QED
      BY <1>1, <1>5, <3>1, <3>2
  <2>6. (\A c \in Begins(file) : c < LineOf(gen) => Stamps(file, c) = {})'
    BY <1>2, <2>3, <2>5
  <2> QED
    BY <1>5, <2>1, <2>3, <2>4, <2>6, ToDetect
<1>6. CASE stage = "push"
  <2>1. PushLine(line) /\ gen' = next
    BY <1>6 DEF Yield
  <2>2. UpTo(b) /\ b \in LineBegins
    BY <1>1, <1>6
  <2>3. LineOf(gen)' = nb
    BY <1>2, <2>1, SameReading
  <2>4. ASSUME stage' = "push", UpTo(nb)', emitted' \in Seq(Seq(Byte)) PROVE LogInv'
    <3>1. end_' = end_
      BY <1>6, <2>4, SameEnd
    <3>2. Reading(gen, end_)'
      BY <1>2, <2>1, <3>1, SameReading
    <3>3. UpTo(LineOf(gen))'
      BY <2>3, <2>4 DEF UpTo
    <3>4. LogTypes'
      BY <1>1, <1>6, <2>4, TypesKept
    <3>5. mode' \in {"range", "format"} => pc' = "done" /\ from_pos' <= LineOf(gen)'
      BY <1>1, <1>2, <1>6, <2>3
    <3> QED
      BY <1>3, <2>3, <2>4, <3>2, <3>3, <3>4, <3>5, ToPush
  <2>5. ASSUME b \in Wanted, Emit(line) PROVE LogInv'
    <3>1. emitted' = Append(emitted, Text(b)) /\ stage' \in {"push", "left"}
      BY <2>5 DEF Emit
    <3>2. emitted' \in Seq(Seq(Byte))
      BY <1>1, <3>1
    <3>3. UpTo(nb)'
      BY <1>1, <2>2, <2>5, <3>1, EmitUpTo
    <3>4. CASE stage' = "push"
      BY <2>4, <3>2, <3>3, <3>4
    <3>5. CASE stage' = "left"
      <4>1. LogTypes'
        BY <1>1, <1>6, <3>2, <3>5, TypesKept
      <4>2. (/\ Len(emitted) <= Cardinality(Wanted)
             /\ \A c \in Wanted : Number(c) <= Len(emitted) => emitted[Number(c)] = Text(c))'
        BY <1>3, <3>3, ExactAfter
      <4>3. LinesExact'
        BY <3>5, <4>2 DEF LinesExact
      <4>4. mode' \in {"range", "format"} => pc' = "done"
        BY <1>1, <1>2, <1>6
      <4> QED
        BY <3>5, <4>1, <4>3, <4>4 DEF LogInv, FailsOnBadInput
    <3> QED
      BY <3>1, <3>4, <3>5
  <2>6. CASE slots \in {"none", "line"} /\ Emit(line)
    <3>1. b \in Wanted
      BY <2>2, <2>6 DEF Wanted
    <3> QED
      BY <2>5, <2>6, <3>1
  <2>7. CASE slots = "fields" /\ Parses(line) /\ Emit(line)
    <3>1. b \in Wanted
      BY <2>2, <2>7 DEF Wanted
    <3> QED
      BY <2>5, <2>7, <3>1
  <2>8. CASE slots = "fields" /\ ~Parses(line) /\ UNCHANGED <<stage, emitted>>
    <3>1. b \notin Wanted
      BY <2>8 DEF Wanted
    <3>2. UpTo(nb)'
      BY <1>1, <2>2, <2>8, <3>1, LeaveUpTo
    <3> QED
      BY <1>1, <1>6, <2>4, <2>8, <3>2
  <2>9. CASE ~Detects(line) /\ stage' = "error" /\ UNCHANGED emitted
    <3>1. LogTypes'
      BY <1>1, <1>6, <2>9, TypesKept
    <3> QED
      BY <1>2, <2>9, <3>1, ToError
  <2> QED
    BY <2>1, <2>6, <2>7, <2>8, <2>9 DEF PushLine
<1> QED
  BY <1>4, <1>5, <1>6

LEMMA FailKeeps ==
  ASSUME LogInv, UNCHANGED <<vars, fixed>>, stage \in {"detect", "push"}, Fail,
         Damaged
  PROVE  LogInv'
<1>1. stage' = "error" /\ UNCHANGED emitted
  BY DEF Fail
<1>2. Damaged'
  BY SameLog DEF Damaged
<1>3. LogTypes'
  BY <1>1, TypesKept DEF LogInv, LogTypes
<1> QED
  BY <1>1, <1>2, <1>3, ToError

\* Opening a log.
LEMMA OpenKeeps == ASSUME IInv, LogInv, Open PROVE LogInv'
<1>1. /\ stage = "open" /\ stage' = openStage(mode) /\ UNCHANGED <<vars, fixed, gen, emitted>>
      /\ UNCHANGED <<vars, fixed>> /\ UNCHANGED <<gen, emitted>>
  BY DEF Open
<1>2. /\ TypeOK /\ LogTypes /\ gen = lines(0) /\ emitted = <<>> /\ mode \in AllModes
  BY <1>1 DEF IInv, LogInv, LogTypes
<1>3. UNCHANGED <<file, mode, csize, timed, flaw, slots, pc>> /\ size' = size
  BY <1>1, SameLog
<1>4. TypeOK'
  BY <1>1, <1>2 DEF TypeOK, vars, Offset, size
<1>5. Reading(lines(0), size) /\ LineOf(lines(0)) = 0
  <2>1. size \in Nat /\ 0 \in Nat /\ size \in 0..size /\ 0 <= size /\ (0 < size => 0 \in Begins(file))
    BY <1>2, Numbers, LineFacts
  <2> QED
    BY <1>2, <2>1, FlawFacts, StartReading
<1>6. ASSUME end_' = size PROVE Reading(gen, end_)' /\ LineOf(gen)' = 0
  BY <1>1, <1>2, <1>3, <1>5, <1>6, SameReading
<1>7. CASE mode \in {"gzrange", "missing"}
  <2>1. stage' = "error"
    BY <1>1, <1>7 DEF openStage
  <2>2. LogTypes'
    BY <1>1, <1>2, <1>3, <1>7, <2>1 DEF LogTypes
  <2> QED
    BY <1>3, <1>7, <2>1, <2>2, ToError
<1>8. CASE mode = "stream"
  <2>1. stage' = "push"
    BY <1>1, <1>8 DEF openStage
  <2>2. LogTypes'
    BY <1>1, <1>2, <1>3, <1>8, <2>1 DEF LogTypes
  <2>3. end_' = size
    BY <1>3, <1>8 DEF end_
  <2>4. UpTo(LineOf(gen))'
    <3>1. UpTo(0)
      <4>1. \A c \in Wanted : c >= 0
        BY <1>2, WantedFinite
      <4> QED
        BY <1>2, <4>1, UpToStart
    <3>2. UpTo(0)'
      BY <1>1, <3>1, SameLog DEF UpTo
    <3> QED
      BY <1>6, <2>3, <3>2 DEF UpTo
  <2>5. mode' \notin {"range", "format"}
    BY <1>3, <1>8
  <2> QED
    BY <1>4, <1>6, <2>1, <2>2, <2>3, <2>4, <2>5, ToPush
<1>9. CASE mode \notin {"gzrange", "missing", "stream"}
  <2>1. stage' = "detect"
    BY <1>1, <1>9 DEF openStage
  <2>2. LogTypes'
    BY <1>1, <1>2, <1>3, <1>9, <2>1 DEF LogTypes
  <2>3. end_' = size
    BY <1>3, <2>1 DEF end_
  <2>4. (\A b \in Begins(file) : b < LineOf(gen) => Stamps(file, b) = {})'
    <3>1. \A b \in Begins(file) : ~(b < 0)
      BY <1>2, LineFacts
    <3> QED
      BY <1>3, <1>6, <2>3, <3>1
  <2> QED
    BY <1>6, <2>1, <2>2, <2>3, <2>4, ToDetect
<1> QED
  BY <1>7, <1>8, <1>9

\* The search takes a step; when it is over its range is read.
LEMMA StartNow ==
  TypeOK /\ emitted = <<>> /\ from_pos \in Int /\ (\A c \in Wanted : c >= from_pos) => UpTo(from_pos)
<1> QED
  BY UpToStart

LEMMA StartAfter ==
  ASSUME TypeOK', emitted' = <<>>, from_pos' \in Int, (\A c \in Wanted : c >= from_pos)'
  PROVE  UpTo(from_pos)'
<1>1. (TypeOK /\ emitted = <<>> /\ from_pos \in Int /\ (\A c \in Wanted : c >= from_pos) => UpTo(from_pos))'
  BY StartNow, PTL
<1> QED
  BY <1>1

LEMMA SearchKeeps == ASSUME IInv, IInv', Found', LogInv, Search PROVE LogInv'
<1>1. /\ stage = "search" /\ Step /\ UNCHANGED <<mode, slots, csize, timed, flaw, emitted>>
      /\ stage' = CASE pc' = "done" -> "push" [] pc' = "error" -> "error" [] OTHER -> "search"
      /\ gen' = IF pc' = "done" THEN lines(from_pos') ELSE gen
  BY DEF Search, fixed
<1>2. file' = file /\ size' = size
  BY <1>1 DEF Step, Probe, Back, Forward, NoTimestamp, Skip, Accept, LowerDone, UpperDone, Inputs, size
<1>3. TypeOK /\ TypeOK' /\ LogTypes /\ mode \in {"range", "format"} /\ emitted = <<>> /\ gen = lines(0)
  BY <1>1 DEF IInv, LogInv, LogTypes
<1>4. LogTypes'
  BY <1>1, <1>2, <1>3 DEF LogTypes
<1>5. CASE pc' = "done"
  <2>1. stage' = "push" /\ gen' = lines(from_pos') /\ end_' = to_pos'
    BY <1>1, <1>3, <1>5 DEF end_
  <2>2. PICK first, last : first = from_pos' /\ last = to_pos'
    OBVIOUS
  <2>3. size \in Nat
    BY <1>3, Numbers
  <2>4. first \in Nat /\ last \in 0..size /\ first <= last /\ (first < last => first \in Begins(file))
    BY <1>2, <1>5, <2>2, <2>3 DEF Found, RangeOfLines
  <2>5. mode \in Paged
    BY <1>3 DEF Paged
  <2>6. Reading(lines(first), last) /\ LineOf(lines(first)) = first
    BY <1>3, <2>4, <2>5, FlawFacts, StartReading
  <2>7. Reading(gen, end_)' /\ LineOf(gen)' = first
    BY <1>1, <1>2, <2>1, <2>2, <2>6, SameReading
  <2>8. (\A c \in Wanted : c >= from_pos)'
    BY <1>1, <1>3, <2>2, <2>4 DEF Wanted, LineBegins, Paged
  <2>9. UpTo(from_pos)'
    BY <1>1, <1>3, <2>2, <2>4, <2>8, StartAfter
  <2>10. UpTo(LineOf(gen))'
    BY <2>2, <2>7, <2>9 DEF UpTo
  <2> QED
    BY <1>3, <1>4, <1>5, <2>1, <2>2, <2>4, <2>7, <2>10, ToPush
<1>6. CASE pc' = "error"
  <2>1. stage' = "error"
    BY <1>1, <1>6
  <2>2. (\E b \in Begins(file) : Stamps(file, b) = {})'
    BY <1>6 DEF Found
  <2> QED
    BY <1>4, <2>1, <2>2, ToError
<1>7. CASE pc' \notin {"done", "error"}
  <2>1. stage' = "search" /\ gen' = lines(0)
    BY <1>1, <1>3, <1>7
  <2>2. lines(0)' = lines(0)
    BY DEF lines
  <2> QED
    BY <1>4, <2>1, <2>2 DEF LogInv, LinesExact, FailsOnBadInput
<1> QED
  BY <1>5, <1>6, <1>7
----------------------------------------------------------------------------
\* PagedLineSource: what is known of its state.
LEMMA PagedState ==
  ASSUME IInv, Found, LogInv, paged
  PROVE  /\ TypeOK /\ stage \in {"detect", "push"} /\ mode \in Paged
         /\ PagedAt(gen, end_) /\ LineOf(gen) = gen.pos /\ DOMAIN gen = Fields
         /\ size \in Nat /\ end_ \in 0..size /\ gen.pos \in 0..end_ /\ gen.page_index \in Nat
         /\ end_ # 0 /\ end_ # size => end_ \in Begins(file)
<1>1. TypeOK /\ stage \in {"detect", "push"} /\ mode \in Paged /\ size \in Nat
  BY Numbers DEF IInv, paged, Paged
<1>2. PagedAt(gen, end_) /\ LineOf(gen) = gen.pos /\ DOMAIN gen = Fields
  BY <1>1 DEF LogInv, Reading, LineOf
<1>3. end_ \in 0..size /\ (end_ # 0 /\ end_ # size => end_ \in Begins(file))
  <2>1. CASE stage = "push" /\ mode \in {"range", "format"}
    BY <1>1, <2>1 DEF LogInv, Found, RangeOfLines, end_
  <2>2. CASE ~(stage = "push" /\ mode \in {"range", "format"})
    BY <1>1, <2>2 DEF end_
  <2> QED
    BY <2>1, <2>2
<1> QED
  BY <1>1, <1>2, <1>3 DEF PagedAt

\* Behind a newline, in this page or in the next one.
LEMMA BehindReading ==
  ASSUME IInv, Found, LogInv, paged, NEW i \in Nat, NEW p \in Nat, NEW data, NEW n \in Nat,
         pageBegin(i) <= p, p < pageBegin(i + 1), Bytes(data, p, pageEnd(i)),
         n # 0, n <= Len(data), at(file, p + n - 1) = Newline, p + n <= end_
  PROVE  Reading(behind(i, n, data), end_) /\ LineOf(behind(i, n, data)) = p + n
<1>1. /\ TypeOK /\ mode \in Paged /\ size \in Nat /\ end_ \in 0..size
  BY PagedState
<1>2. /\ pageBegin(i) \in Nat /\ pageBegin(i + 1) = pageBegin(i) + PageSize /\ PageSize \in Nat \ {0}
      /\ pageBegin(i + 2) = pageBegin(i + 1) + PageSize
  <2>1. i + 1 \in Nat /\ (i + 1) + 1 = i + 2
    OBVIOUS
  <2> QED
    BY <2>1, PageNumbers
<1>3. pageBegin(i) <= size
  BY <1>1, <1>2
<1>4. /\ Len(page(i)) = pageEnd(i) - pageBegin(i) /\ pageEnd(i) \in pageBegin(i)..size
      /\ Len(data) = pageEnd(i) - p
  BY <1>1, <1>3, PageBytes DEF Bytes
<1>5. PICK g : g = behind(i, n, data)
  OBVIOUS
<1>6. pageEnd(i) = IF pageBegin(i + 1) < size THEN pageBegin(i + 1) ELSE size
  BY DEF pageEnd
<1>7. next_page(i) <=> pageBegin(i + 1) < end_
  BY DEF next_page, pageBegin
<1>8. /\ g.page_index = IF n = Len(data) /\ next_page(i) THEN i + 1 ELSE i
      /\ g.pos = IF n = Len(data) /\ ~next_page(i) THEN end_
                 ELSE pageBegin(i) + Len(page(i)) - Len(data) + n
  BY <1>5 DEF behind, pageBegin
<1>9. ~g.spanning
  BY <1>5 DEF behind
\* The numbers above, by themselves.
<1>10. PICK pb \in Nat, pe \in Nat, nextb \in Nat, last \in Nat, l \in Nat :
         /\ pb = pageBegin(i) /\ pe = pageEnd(i) /\ nextb = pageBegin(i + 1) /\ last = end_ /\ l = Len(data)
  <2>1. pageBegin(i + 1) \in Nat /\ pageEnd(i) \in Nat /\ end_ \in Nat /\ Len(data) \in Nat
    BY <1>1, <1>2, <1>4 DEF Bytes
  <2> QED
    BY <1>2, <2>1
<1>11. /\ pb <= p /\ p < nextb /\ l = pe - p /\ n <= l /\ p + n <= last /\ last <= size
       /\ pe = IF nextb < size THEN nextb ELSE size
  BY <1>1, <1>4, <1>6, <1>10
<1>12. /\ n = l /\ ~(nextb < last) => p + n = last
       /\ n = l /\ nextb < last => p + n = nextb
       /\ n # l => pb <= p + n /\ p + n < nextb
       /\ pb + (pe - pb) - l + n = p + n
  BY <1>1, <1>11
<1>13. g.pos = p + n
  BY <1>4, <1>7, <1>8, <1>10, <1>12
<1>14. /\ g.page_index \in Nat
       /\ g.pos < end_ => pageBegin(g.page_index) <= g.pos /\ g.pos < pageBegin(g.page_index + 1)
  <2>1. CASE n = Len(data) /\ next_page(i)
    <3>1. g.page_index = i + 1 /\ g.page_index + 1 = i + 2
      BY <1>8, <2>1
    <3>2. pageBegin(i + 1) = g.pos
      BY <1>7, <1>13, <1>10, <1>12, <2>1
    <3> QED
      BY <1>2, <3>1, <3>2
  <2>2. CASE n = Len(data) /\ ~next_page(i)
    BY <1>1, <1>8, <2>2
  <2>3. CASE n # Len(data)
    <3>1. g.page_index = i
      BY <1>8, <2>3
    <3>2. pageBegin(i) <= p + n /\ p + n < pageBegin(i + 1)
      BY <1>10, <1>12, <2>3
    <3> QED
      BY <1>13, <3>1, <3>2
  <2> QED
    BY <2>1, <2>2, <2>3
<1>15. g.pos < end_ => g.pos \in Begins(file)
  <2> SUFFICES ASSUME g.pos < end_ PROVE p + n \in Begins(file)
    BY <1>13
  <2>1. p + n \in 0..size - 1 /\ (p + n) - 1 = p + n - 1
    BY <1>1, <1>13
  <2> QED
    BY <1>1, <2>1, LineFacts
<1>16. PagedAt(g, end_)
  <2>1. g.pos \in 0..end_
    BY <1>1, <1>13
  <2> QED
    BY <1>9, <1>14, <1>15, <2>1 DEF PagedAt
<1>17. (mode \in Paged => mode # "archive") /\ DOMAIN g = Fields
  BY <1>5, PagedState DEF Paged, behind
<1> QED
  BY <1>1, <1>5, <1>13, <1>16, <1>17 DEF Reading, LineOf

\* The line ends within what is read: what is read ends where a line does.
LEMMA LineInRange ==
  ASSUME IInv, Found, LogInv, paged, gen.pos < end_, NEW e \in Int, gen.pos <= e, e < size,
         newlines(gen.pos, e) = {}, at(file, e) = Newline
  PROVE  e + 1 <= end_ /\ gen.pos \in Begins(file) /\ OneLine(gen.pos, e + 1)
<1>1. PICK b, last : b = gen.pos /\ last = end_
  OBVIOUS
<1>2. /\ TypeOK /\ size \in Nat /\ last \in 0..size /\ b \in 0..last /\ b < last
      /\ b \in Begins(file) /\ (last # 0 /\ last # size => last \in Begins(file))
  BY <1>1, PagedState DEF PagedAt
<1>3. OneLine(b, e + 1)
  <2> SUFFICES ASSUME NEW c \in Begins(file), c < e + 1, ~(c <= b) PROVE FALSE
    BY <1>1 DEF OneLine
  <2>1. c \in 0..size - 1 /\ (c # 0 => at(file, c - 1) = Newline)
    BY <1>2, LineFacts
  <2>2. c # 0 /\ c - 1 \in b..e - 1
    BY <1>2, <2>1
  <2> QED
    BY <1>1, <2>1, <2>2 DEF newlines
<1>4. last = size \/ e + 1 <= last
  BY <1>2, <1>3 DEF OneLine
<1> QED
  BY <1>1, <1>2, <1>3, <1>4

\* A line is yielded whose newline is at e.
LEMMA PagedYield ==
  ASSUME IInv, Found, LogInv, paged, UNCHANGED <<vars, fixed>>, gen.pos < end_,
         NEW e \in Int, gen.pos <= e, e < size, newlines(gen.pos, e) = {}, at(file, e) = Newline,
         NEW line, Bytes(line, gen.pos, e),
         NEW next, Reading(next, end_), LineOf(next) = e + 1, Yield(line, next)
  PROVE  LogInv'
<1>1. PICK b, last : b = gen.pos /\ last = end_
  OBVIOUS
<1>2. /\ TypeOK /\ size \in Nat /\ last \in 0..size /\ b \in 0..last /\ b < last /\ mode \in Paged
      /\ stage \in {"detect", "push"} /\ LineOf(gen) = b
  BY <1>1, PagedState
<1>3. e + 1 <= last /\ b \in Begins(file) /\ OneLine(b, e + 1)
  BY <1>1, LineInRange
<1>4. e \in b..size /\ e # size
  BY <1>1, <1>2
<1>5. line = Text(b) /\ (Complete(b) <=> e < size) /\ (~Detects(line) => Stamps(file, b) = {})
  BY <1>1, <1>2, <1>3, <1>4, LineText
<1>6. line \in Seq(Byte)
  BY DEF Bytes
<1>7. ASSUME stage = "push" PROVE b \in LineBegins
  <2>1. mode # "file" => b \in from_pos..to_pos - 1
    <3> SUFFICES ASSUME mode # "file" PROVE b \in from_pos..to_pos - 1
      OBVIOUS
    <3>1. mode \in {"range", "format"}
      BY <1>2 DEF Paged
    <3>2. from_pos <= b /\ last = to_pos
      BY <1>1, <1>2, <1>7, <3>1 DEF LogInv, end_
    <3>3. from_pos \in Int
      BY <1>2, Numbers
    <3> QED
      BY <1>2, <3>2, <3>3
  <2> QED
    BY <1>2, <1>3, <1>5, <2>1 DEF LineBegins
<1>8. e + 1 \in Int /\ b < e + 1
  BY <1>2, <1>4
<1> QED
  BY <1>2, <1>3, <1>5, <1>6, <1>7, <1>8, YieldKeeps

\* PagedLineSource returns when no line is left that ends in a newline.
LEMMA PagedReturn ==
  ASSUME IInv, Found, LogInv, paged, UNCHANGED <<vars, fixed>>, Return,
         \A c \in Begins(file) : Complete(c) =>
           c < gen.pos \/ (stage = "push" /\ mode # "file" /\ c >= end_)
  PROVE  LogInv'
<1>1. PICK b, last : b = gen.pos /\ last = end_
  OBVIOUS
<1>2. /\ TypeOK /\ b \in Int /\ mode \in Paged /\ last \in Int
      /\ stage \in {"detect", "push"} /\ LineOf(gen) = b
  BY <1>1, PagedState
<1>3. ~Damaged
  BY <1>2 DEF Paged, Damaged, LogInv, LogTypes
<1>4. ASSUME stage = "push", NEW c \in Wanted PROVE c < b
  <2>1. c \in Begins(file) /\ Complete(c) /\ (mode # "file" => c \in from_pos..to_pos - 1)
    BY <1>2 DEF Wanted, LineBegins
  <2>2. ~(mode # "file" /\ c >= last)
    <3> SUFFICES ASSUME mode # "file", c >= last PROVE FALSE
      OBVIOUS
    <3>1. last = to_pos
      BY <1>1, <1>2, <1>4 DEF end_, Paged
    <3>2. c <= to_pos - 1 /\ c \in Int
      BY <2>1
    <3> QED
      BY <1>2, <3>1, <3>2
  <2> QED
    BY <1>1, <2>1, <2>2
<1>5. stage = "detect" => \/ \E c \in Begins(file) : Stamps(file, c) = {}
                          \/ ~\E c \in Begins(file) : Complete(c)
  <2> SUFFICES ASSUME stage = "detect", NEW c \in Begins(file), Complete(c) PROVE Stamps(file, c) = {}
    OBVIOUS
  <2>1. c < LineOf(gen)
    BY <1>1, <1>2
  <2> QED
    BY <2>1 DEF LogInv
<1> QED
  BY <1>2, <1>3, <1>4, <1>5, ReturnKeeps

\* The page of the line's beginning.
LEMMA PagedLineKeeps == ASSUME IInv, Found, LogInv, PagedLine PROVE LogInv'
<1>1. PICK i, b, last, pe : i = gen.page_index /\ b = gen.pos /\ last = end_ /\ pe = pageEnd(i)
  OBVIOUS
<1>2. PICK here : here = page(i)
  OBVIOUS
<1>3. PICK data : data = SubSeq(here, (b % PageSize) + 1, Len(here))
  OBVIOUS
<1>4. PICK n : n = firstNewline(data)
  OBVIOUS
<1>5. /\ paged /\ ~gen.spanning /\ b < last /\ UNCHANGED <<vars, fixed>>
      /\ IF n = 0 THEN Continue([gen EXCEPT !.spanning = TRUE, !.partial = data])
         ELSE IF b + n > last THEN Return
         ELSE Yield(SubSeq(data, 1, n - 1), behind(i, n, data))
  BY <1>1, <1>2, <1>3, <1>4 DEF PagedLine
<1>6. /\ TypeOK /\ size \in Nat /\ last \in 0..size /\ b \in 0..last /\ b \in Nat /\ i \in Nat /\ mode \in Paged
      /\ stage \in {"detect", "push"} /\ LineOf(gen) = b /\ PagedAt(gen, last)
      /\ pageBegin(i) <= b /\ b < pageBegin(i + 1)
  BY <1>1, <1>5, PagedState DEF PagedAt
<1>7. /\ Bytes(here, pageBegin(i), pe) /\ pageBegin(i) \in Nat /\ pe \in pageBegin(i)..size /\ pe \in Nat
      /\ b < pe
  <2>1. pageBegin(i) \in Nat /\ pageBegin(i) <= size /\ pageBegin(i + 1) \in Nat
    <3>1. pageBegin(i) \in Nat /\ pageBegin(i + 1) \in Nat
      BY <1>6, PageNumbers
    <3> QED
      BY <1>5, <1>6, <3>1
  <2>2. Bytes(here, pageBegin(i), pe) /\ pe \in pageBegin(i)..size
    BY <1>1, <1>2, <1>6, <2>1, PageBytes
  <2>3. b < pe
    BY <1>1, <1>5, <1>6 DEF pageEnd
  <2> QED
    BY <2>1, <2>2, <2>3
<1>8. Bytes(data, b, pe)
  <2>1. b % PageSize = b - pageBegin(i)
    BY <1>6, PageOffset
  <2>2. Len(here) = pe - pageBegin(i) /\ b \in pageBegin(i)..pe /\ pe \in b..pe
    BY <1>6, <1>7 DEF Bytes
  <2>3. Bytes(SubSeq(here, b - pageBegin(i) + 1, pe - pageBegin(i)), b, pe)
    BY <1>7, <2>2, CutBytes
  <2> QED
    BY <1>3, <2>1, <2>2, <2>3
<1>9. /\ n \in 0..pe - b
      /\ n = 0 => newlines(b, pe) = {}
      /\ n # 0 => newlines(b, b + n - 1) = {} /\ at(file, b + n - 1) = Newline
  BY <1>4, <1>6, <1>7, <1>8, NewlineOfBytes
<1>10. CASE n = 0
  <2>1. PICK next : next = [gen EXCEPT !.spanning = TRUE, !.partial = data]
    OBVIOUS
  <2>2. next.pos = b /\ next.page_index = i /\ next.partial = data
    BY <1>1, <2>1
  <2>3. next.spanning
    BY <2>1
  <2>4. PagedAt(next, last)
    BY <1>1, <1>5, <1>6, <1>7, <1>8, <1>9, <1>10, <2>2, <2>3 DEF PagedAt
  <2>5. DOMAIN next = Fields
    BY <1>5, <2>1, PagedState
  <2>6. Reading(next, end_) /\ LineOf(next) = LineOf(gen)
    BY <1>1, <1>6, <2>2, <2>4, <2>5 DEF Reading, LineOf, Paged
  <2>7. Continue(next)
    BY <1>5, <1>10, <2>1
  <2> QED
    BY <1>5, <1>6, <2>6, <2>7, ContinueKeeps
<1>11. CASE n # 0
  <2>1. PICK e \in Int : e = b + n - 1
    BY <1>6, <1>9
  <2>2. /\ b <= e /\ e < size /\ e < pe /\ n \in Nat /\ newlines(b, e) = {} /\ at(file, e) = Newline
        /\ n <= pe - b /\ b + n = e + 1
    BY <1>6, <1>7, <1>9, <1>11, <2>1
  <2>3. e + 1 <= last
    BY <1>1, <1>5, <2>2, LineInRange
  <2>4. Yield(SubSeq(data, 1, n - 1), behind(i, n, data))
    BY <1>5, <1>6, <1>11, <2>2, <2>3
  <2>5. Bytes(SubSeq(data, 1, n - 1), b, e)
    <3>1. b \in b..pe /\ e \in b..pe /\ b - b + 1 = 1 /\ e - b = n - 1
      BY <1>6, <1>7, <2>1, <2>2
    <3>2. Bytes(SubSeq(data, b - b + 1, e - b), b, e)
      BY <1>6, <1>7, <1>8, <3>1, CutBytes
    <3> QED
      BY <3>1, <3>2
  <2>6. Reading(behind(i, n, data), end_) /\ LineOf(behind(i, n, data)) = e + 1
    <3>1. n <= Len(data) /\ at(file, b + n - 1) = Newline /\ b + n <= end_ /\ Bytes(data, b, pageEnd(i))
      BY <1>1, <1>8, <1>9, <1>11, <2>2, <2>3 DEF Bytes
    <3> QED
      BY <1>5, <1>6, <1>11, <2>2, <3>1, BehindReading
  <2>7. PICK next, line : next = behind(i, n, data) /\ line = SubSeq(data, 1, n - 1)
    OBVIOUS
  <2> QED
    BY <1>1, <1>5, <2>2, <2>4, <2>5, <2>6, <2>7, PagedYield
<1> QED
  BY <1>10, <1>11

\* The next page, while a line spans pages.
LEMMA PagedSpanKeeps == ASSUME IInv, Found, LogInv, PagedSpan PROVE LogInv'
<1>1. PICK b, last, pe, h : /\ b = gen.pos /\ last = end_ /\ pe = pageEnd(gen.page_index)
                            /\ h = gen.page_index
  OBVIOUS
<1>2. PICK i, partial, data : i = h + 1 /\ partial = gen.partial /\ data = page(i)
  OBVIOUS
<1>3. PICK n : n = firstNewline(data)
  OBVIOUS
<1>4. /\ paged /\ gen.spanning /\ UNCHANGED <<vars, fixed>>
      /\ IF ~next_page(h) THEN Return
         ELSE IF n = 0 THEN Continue([gen EXCEPT !.page_index = i, !.partial = @ \o page(i)])
         ELSE Yield(partial \o SubSeq(data, 1, n - 1), behind(i, n, data))
  BY <1>1, <1>2, <1>3 DEF PagedSpan
<1>5. /\ TypeOK /\ size \in Nat /\ last \in 0..size /\ b \in 0..last /\ b \in Nat /\ h \in Nat /\ mode \in Paged
      /\ stage \in {"detect", "push"} /\ LineOf(gen) = b /\ PagedAt(gen, last)
      /\ last # 0 /\ last # size => last \in Begins(file)
  BY <1>1, <1>4, PagedState
<1>6. /\ b < last /\ b < pe /\ Bytes(partial, b, pe) /\ newlines(b, pe) = {} /\ b \in Begins(file)
  BY <1>1, <1>2, <1>4, <1>5 DEF PagedAt
<1>7. /\ pe = IF pageBegin(i) < size THEN pageBegin(i) ELSE size
      /\ next_page(h) <=> pageBegin(i) < last
      /\ pageBegin(i) \in Nat /\ pe \in 0..size /\ pe \in Nat /\ i \in Nat
      /\ pageBegin(i) < pageBegin(i + 1)
  <2>1. i \in Nat
    BY <1>2, <1>5
  <2>2. pageBegin(i) \in Nat /\ pageBegin(i) < pageBegin(i + 1)
    BY <2>1, PageNumbers
  <2>3. pe = IF pageBegin(i) < size THEN pageBegin(i) ELSE size
    BY <1>1, <1>2 DEF pageEnd
  <2>4. next_page(h) <=> pageBegin(i) < last
    BY <1>1, <1>2 DEF next_page, pageBegin
  <2> QED
    BY <1>5, <2>1, <2>2, <2>3, <2>4
<1>8. CASE ~next_page(h)
  <2>1. last <= pe
    BY <1>5, <1>7, <1>8
  <2>2. last = size
    <3> SUFFICES ASSUME last # size PROVE FALSE
      OBVIOUS
    <3>1. last \in Begins(file) /\ last # 0
      BY <1>5, <1>6
    <3>2. at(file, last - 1) = Newline
      BY <1>5, <3>1, LineFacts
    <3>3. last - 1 \in b..pe - 1
      BY <1>5, <1>6, <1>7, <2>1
    <3> QED
      BY <1>6, <3>2, <3>3 DEF newlines
  <2>3. pe = size /\ size \in b..size
    BY <1>5, <1>6, <1>7, <2>1, <2>2
  <2>4. ~Complete(b) /\ OneLine(b, size + 1)
    <3>1. (Complete(b) <=> size < size) /\ OneLine(b, size + 1)
      BY <1>5, <1>6, <2>3, LineText
    <3> QED
      BY <1>5, <3>1
  <2>5. ASSUME NEW c \in Begins(file), Complete(c) PROVE c < b
    <3>1. c \in 0..size - 1
      BY <1>5, LineFacts
    <3>2. c <= b /\ c # b
      BY <1>5, <2>4, <2>5, <3>1 DEF OneLine
    <3> QED
      BY <1>5, <3>1, <3>2
  <2>6. Return
    BY <1>4, <1>8
  <2> QED
    BY <1>1, <1>4, <2>5, <2>6, PagedReturn
<1>9. CASE next_page(h)
  <2>1. pageBegin(i) = pe /\ pageBegin(i) <= size /\ pe < last
    BY <1>5, <1>7, <1>9
  <2>2. PICK q \in Nat : q = pageEnd(i)
    BY <1>5, <1>7, <2>1, PageBytes
  <2>3. Bytes(data, pe, q) /\ q \in pe..size
    BY <1>2, <1>5, <1>7, <2>1, <2>2, PageBytes
  <2>4. /\ n \in 0..q - pe
        /\ n = 0 => newlines(pe, q) = {}
        /\ n # 0 => newlines(pe, pe + n - 1) = {} /\ at(file, pe + n - 1) = Newline
    BY <1>3, <1>7, <2>2, <2>3, NewlineOfBytes
  <2>5. CASE n = 0
    <3>1. PICK next : next = [gen EXCEPT !.page_index = i, !.partial = @ \o page(i)]
      OBVIOUS
    <3>2. DOMAIN gen = Fields
      BY <1>4, PagedState
    <3>3. next.pos = b /\ next.page_index = i /\ next.partial = partial \o data /\ DOMAIN next = Fields
      BY <1>1, <1>2, <3>1, <3>2 DEF Fields
    <3>4. next.spanning = gen.spanning
      BY <3>1
    <3>5. Bytes(partial \o data, b, q)
      BY <1>5, <1>6, <1>7, <2>2, <2>3, JoinBytes
    <3>6. newlines(b, q) = {}
      <4>1. \A m \in b..q - 1 : m \in b..pe - 1 \/ m \in pe..q - 1
        BY <1>5, <1>6, <1>7, <2>2
      <4> QED
        BY <1>6, <2>4, <2>5, <4>1 DEF newlines
    <3>7. b < q
      BY <1>5, <1>6, <1>7, <2>2, <2>3
    <3>8. PagedAt(next, last)
      BY <1>4, <1>5, <1>6, <1>7, <2>2, <3>3, <3>4, <3>5, <3>6, <3>7 DEF PagedAt
    <3>9. Reading(next, end_) /\ LineOf(next) = LineOf(gen)
      BY <1>1, <1>5, <3>3, <3>8 DEF Reading, LineOf, Paged
    <3>10. Continue(next)
      BY <1>4, <1>9, <2>5, <3>1
    <3> QED
      BY <1>4, <1>5, <3>9, <3>10, ContinueKeeps
  <2>6. CASE n # 0
    <3>1. PICK e \in Int : e = pe + n - 1
      BY <1>7, <2>4
    <3>2. /\ b <= e /\ e < size /\ e < q /\ n \in Nat /\ at(file, e) = Newline
          /\ n <= q - pe /\ pe + n = e + 1 /\ pe <= e
      BY <1>5, <1>6, <1>7, <2>2, <2>3, <2>4, <2>6, <3>1
    <3>3. newlines(b, e) = {}
      <4>1. \A m \in b..e - 1 : m \in b..pe - 1 \/ m \in pe..e - 1
        BY <1>5, <1>6, <1>7, <3>2
      <4> QED
        BY <1>6, <2>4, <2>6, <3>1, <4>1 DEF newlines
    <3>4. e + 1 <= last
      BY <1>1, <1>4, <1>6, <3>2, <3>3, LineInRange
    <3>5. Bytes(partial \o SubSeq(data, 1, n - 1), b, e)
      <4>1. pe \in pe..q /\ e \in pe..q /\ pe - pe + 1 = 1 /\ e - pe = n - 1 /\ e \in Nat
        BY <1>7, <2>2, <3>1, <3>2
      <4>2. Bytes(SubSeq(data, pe - pe + 1, e - pe), pe, e)
        BY <1>7, <2>2, <2>3, <4>1, CutBytes
      <4>3. Bytes(SubSeq(data, 1, n - 1), pe, e)
        BY <4>1, <4>2
      <4> QED
        BY <1>5, <1>6, <1>7, <4>1, <4>3, JoinBytes
    <3>6. Reading(behind(i, n, data), end_) /\ LineOf(behind(i, n, data)) = e + 1
      <4>1. /\ n <= Len(data) /\ at(file, pe + n - 1) = Newline /\ pe + n <= end_
            /\ Bytes(data, pe, pageEnd(i)) /\ pageBegin(i) <= pe /\ pe < pageBegin(i + 1)
        BY <1>1, <1>7, <2>1, <2>2, <2>3, <2>4, <2>6, <3>2, <3>4 DEF Bytes
      <4> QED
        BY <1>4, <1>7, <2>6, <3>2, <4>1, BehindReading
    <3>7. PICK next, line : next = behind(i, n, data) /\ line = partial \o SubSeq(data, 1, n - 1)
      OBVIOUS
    <3>8. Yield(line, next)
      BY <1>4, <1>9, <2>6, <3>7
    <3> QED
      BY <1>1, <1>4, <1>6, <3>2, <3>3, <3>5, <3>6, <3>7, <3>8, PagedYield
  <2> QED
    BY <2>5, <2>6
<1> QED
  BY <1>8, <1>9

\* All pages are read.
LEMMA PagedEndKeeps == ASSUME IInv, Found, LogInv, PagedEnd PROVE LogInv'
<1>1. PICK b, last : b = gen.pos /\ last = end_
  OBVIOUS
<1>2. paged /\ b >= last /\ Return /\ UNCHANGED <<vars, fixed>>
  BY <1>1 DEF PagedEnd
<1>3. TypeOK /\ size \in Nat /\ last \in 0..size /\ b \in 0..last /\ mode \in Paged /\ stage \in {"detect", "push"}
  BY <1>1, <1>2, PagedState
<1>4. ASSUME NEW c \in Begins(file), ~(stage = "push" /\ mode # "file" /\ c >= last) PROVE c < b
  <2>1. c \in 0..size - 1
    BY <1>3, LineFacts
  <2>2. last = size \/ (stage = "push" /\ mode # "file")
    BY <1>1 DEF end_
  <2> QED
    BY <1>2, <1>3, <1>4, <2>1, <2>2
<1> QED
  BY <1>1, <1>2, <1>4, PagedReturn
----------------------------------------------------------------------------
\* StreamLineSource: what is known of its state.
LEMMA StreamState ==
  ASSUME IInv, LogInv, streamed
  PROVE  /\ TypeOK /\ stage \in {"detect", "push"} /\ mode \in {"stream", "archive"} /\ mode \notin Paged
         /\ DOMAIN gen = Fields /\ StreamAt(gen) /\ (mode = "archive" => ArchiveAt(gen))
         /\ size \in Nat /\ csize \in {size, size + 1} /\ flaw \in Int /\ Unbroken(gen.pos)
         /\ LineOf(gen) \in Nat /\ gen.pos \in 0..size
         /\ gen.partial \in Seq(Byte) /\ gen.chunk \in Seq(Byte)
         /\ LineOf(gen) + Len(gen.partial) + Len(gen.chunk) = gen.pos
<1>1. TypeOK /\ stage \in {"detect", "push"} /\ mode \in {"stream", "archive"} /\ mode \notin Paged
  BY DEF IInv, streamed, Paged
<1>2. DOMAIN gen = Fields /\ StreamAt(gen) /\ (mode = "archive" => ArchiveAt(gen))
  BY <1>1 DEF LogInv, Reading
<1>3. size \in Nat /\ csize \in {size, size + 1} /\ flaw \in Int
  BY <1>1, Numbers, FlawFacts DEF LogInv, LogTypes
<1>4. /\ LineOf(gen) \in Nat /\ gen.pos \in 0..size
      /\ gen.partial \in Seq(Byte) /\ gen.chunk \in Seq(Byte) /\ Unbroken(gen.pos)
  BY <1>2, <1>3 DEF StreamAt, Bytes
<1>5. LineOf(gen) = gen.pos - Len(gen.chunk) - Len(gen.partial)
  BY <1>1 DEF LineOf
<1>6. LineOf(gen) + Len(gen.partial) + Len(gen.chunk) = gen.pos
  <2>1. Len(gen.chunk) \in Nat /\ Len(gen.partial) \in Nat /\ gen.pos \in Int
    BY <1>3, <1>4
  <2> QED
    BY <1>4, <1>5, <2>1
<1> QED
  BY <1>1, <1>2, <1>3, <1>4, <1>6

\* A generator at b that holds partial and chunk.
LEMMA StreamReading ==
  ASSUME IInv, LogInv, streamed, NEW g, DOMAIN g = Fields, NEW b \in Nat, NEW m \in Nat, NEW p \in 0..size,
         b <= m, m <= p, g.pos = p, Bytes(g.partial, b, m), Bytes(g.chunk, m, p), newlines(b, m) = {},
         b < size => b \in Begins(file),
         g.read = "end" => g.chunk = <<>> /\ p = size /\ flaw = npos, Unbroken(p),
         mode = "stream" /\ g.read = "chunk" => g.chunk = <<>>,
         mode = "archive" => ArchiveAt(g)
  PROVE  Reading(g, end_) /\ LineOf(g) = b
<1>1. size \in Nat /\ mode \notin Paged /\ p \in Nat
  BY StreamState
<1>2. Len(g.partial) = m - b /\ Len(g.chunk) = p - m
  BY DEF Bytes
<1>3. LineOf(g) = b /\ LineOf(g) + Len(g.partial) = m
  BY <1>1, <1>2 DEF LineOf
<1>4. b \in 0..size
  BY <1>1
<1>5. StreamAt(g)
  BY <1>3, <1>4 DEF StreamAt
<1> QED
  BY <1>1, <1>3, <1>5 DEF Reading

\* The line is yielded that begins at b and ends at e.
LEMMA StreamYield ==
  ASSUME IInv, LogInv, streamed, UNCHANGED <<vars, fixed>>, NEW b \in Begins(file), b = LineOf(gen),
         NEW e \in b..size, newlines(b, e) = {}, e = size \/ at(file, e) = Newline,
         NEW line, Bytes(line, b, e), e # size \/ line # <<>>,
         NEW nb \in Int, b < nb, nb <= e + 1,
         NEW next, Reading(next, end_), LineOf(next) = nb, Yield(line, next)
  PROVE  LogInv'
<1>1. TypeOK /\ stage \in {"detect", "push"} /\ mode \notin Paged /\ size \in Nat
  BY StreamState
<1>2. /\ line = Text(b) /\ (Complete(b) <=> e < size) /\ (~Detects(line) => Stamps(file, b) = {})
      /\ OneLine(b, e + 1)
  BY <1>1, LineText
<1>3. OneLine(b, nb)
  <2>1. \A c \in Begins(file) : c \in Int /\ (c < nb => c < e + 1)
    BY <1>1, LineFacts
  <2> QED
    BY <1>2, <2>1 DEF OneLine
<1>4. b \in LineBegins
  <2>1. b \in Int
    BY <1>1, LineFacts
  <2>2. Complete(b) \/ Text(b) # <<>>
    BY <1>1, <1>2, <2>1
  <2> QED
    BY <1>1, <2>2 DEF LineBegins
<1>5. line \in Seq(Byte)
  BY DEF Bytes
<1> QED
  BY <1>1, <1>2, <1>3, <1>4, <1>5, YieldKeeps

\* A pipe gives a part of what is left.
LEMMA PipeReadKeeps == ASSUME IInv, LogInv, PipeRead PROVE LogInv'
<1>1. streamed /\ mode = "stream" /\ gen.read = "chunk" /\ UNCHANGED <<vars, fixed>>
  BY DEF PipeRead
<1>2. PICK b, p : b = LineOf(gen) /\ p = gen.pos
  OBVIOUS
<1>3. /\ TypeOK /\ stage \in {"detect", "push"} /\ DOMAIN gen = Fields /\ StreamAt(gen)
      /\ size \in Nat /\ flaw \in Int /\ Unbroken(p) /\ b \in Nat /\ p \in 0..size
      /\ gen.partial \in Seq(Byte) /\ gen.chunk \in Seq(Byte)
      /\ b + Len(gen.partial) + Len(gen.chunk) = p
  BY <1>1, <1>2, StreamState
<1>4. gen.chunk = <<>> /\ Bytes(gen.partial, b, p) /\ newlines(b, p) = {} /\ b <= p
      /\ (b < size => b \in Begins(file))
  <2>1. gen.chunk = <<>>
    BY <1>1, <1>3 DEF StreamAt
  <2>2. b + Len(gen.partial) = p /\ Len(gen.partial) \in Nat
    BY <1>3, <2>1
  <2> QED
    BY <1>2, <1>3, <2>1, <2>2 DEF StreamAt
<1>5. Bytes(<<>>, p, p)
  BY <1>3 DEF Bytes
<1>6. CASE p # flaw /\ p = size
  <2>1. PICK next : next = [gen EXCEPT !.read = "end"]
    OBVIOUS
  <2>2. /\ next.pos = p /\ next.partial = gen.partial /\ next.chunk = <<>> /\ next.read = "end"
        /\ DOMAIN next = Fields
    BY <1>2, <1>3, <1>4, <2>1 DEF Fields
  <2>3. Reading(next, end_) /\ LineOf(next) = b
    <3>1. flaw = npos
      BY <1>3, <1>6 DEF Unbroken, LogInv, LogTypes
    <3> QED
      BY <1>1, <1>3, <1>4, <1>5, <1>6, <2>2, <3>1, StreamReading
  <2>4. Continue(next)
    BY <1>2, <1>6, <2>1 DEF PipeRead
  <2> QED
    BY <1>1, <1>2, <1>3, <2>3, <2>4, ContinueKeeps
<1>7. CASE p # flaw /\ p # size
  <2>1. PICK n \in 1..ChunkSize :
          /\ p + n <= (IF flaw = npos THEN size ELSE flaw)
          /\ Continue([gen EXCEPT !.pos = @ + n, !.read = "split",
                                  !.chunk = SubSeq(file, gen.pos + 1, gen.pos + n)])
    BY <1>2, <1>7 DEF PipeRead
  <2>2. PICK q \in Int : q = p + n
    BY <1>3, LogAssumption
  <2>3. q \in 0..size /\ q \in p..size /\ p <= q /\ Unbroken(q)
    <3>1. n \in Nat /\ flaw <= size
      BY <1>3, LogAssumption DEF LogInv, LogTypes, npos
    <3> QED
      BY <1>3, <2>1, <2>2, <3>1 DEF Unbroken
  <2>4. PICK next : next = [gen EXCEPT !.pos = @ + n, !.read = "split",
                                       !.chunk = SubSeq(file, gen.pos + 1, gen.pos + n)]
    OBVIOUS
  <2>5. /\ next.pos = q /\ next.partial = gen.partial /\ next.read = "split"
        /\ next.chunk = SubSeq(file, p + 1, q) /\ DOMAIN next = Fields
    BY <1>2, <1>3, <2>2, <2>4 DEF Fields
  <2>6. Bytes(next.chunk, p, q)
    BY <1>3, <2>3, <2>5, FileBytes
  <2>7. Reading(next, end_) /\ LineOf(next) = b
    <3>1. /\ b \in Nat /\ p \in Nat /\ Bytes(next.partial, b, p) /\ mode # "archive"
          /\ next.read \notin {"end", "chunk"} /\ DOMAIN next = Fields /\ next.pos = q
      BY <1>1, <1>3, <1>4, <2>5
    <3> QED
      BY <1>1, <1>4, <2>3, <2>6, <3>1, StreamReading
  <2>8. Continue(next)
    BY <2>1, <2>4
  <2> QED
    BY <1>1, <1>2, <1>3, <2>7, <2>8, ContinueKeeps
<1>8. CASE p = flaw
  <2>1. Fail
    BY <1>2, <1>8 DEF PipeRead
  <2>2. Damaged
    BY <1>3, <1>8 DEF Damaged, npos
  <2> QED
    BY <1>1, <1>3, <2>1, <2>2, FailKeeps
<1> QED
  BY <1>6, <1>7, <1>8

\* The archive: a turn of its loop.
LEMMA ArchiveReadKeeps == ASSUME IInv, LogInv, ArchiveRead PROVE LogInv'
<1>1. streamed /\ mode = "archive" /\ gen.read = "chunk" /\ UNCHANGED <<vars, fixed>>
  BY DEF ArchiveRead
<1>2. PICK b, p, m : b = LineOf(gen) /\ p = gen.pos /\ m = LineOf(gen) + Len(gen.partial)
  OBVIOUS
<1>3. /\ TypeOK /\ stage \in {"detect", "push"} /\ DOMAIN gen = Fields /\ StreamAt(gen) /\ ArchiveAt(gen)
      /\ size \in Nat /\ csize \in {size, size + 1} /\ flaw \in Int /\ Unbroken(p) /\ b \in Nat /\ p \in 0..size
      /\ gen.partial \in Seq(Byte) /\ gen.chunk \in Seq(Byte)
      /\ b + Len(gen.partial) + Len(gen.chunk) = p
  BY <1>1, <1>2, StreamState
<1>4. /\ m \in Nat /\ b <= m /\ m <= p
      /\ Bytes(gen.partial, b, m) /\ Bytes(gen.chunk, m, p) /\ newlines(b, m) = {}
      /\ b < size => b \in Begins(file)
  <2>1. Len(gen.partial) \in Nat /\ Len(gen.chunk) \in Nat
    BY <1>3
  <2>2. m \in Nat /\ b <= m /\ m <= p
    BY <1>2, <1>3, <2>1
  <2> QED
    BY <1>2, <1>3, <2>2 DEF StreamAt
<1>5. gen.avail_in = 0 /\ ~gen.compressed_eof_
  BY <1>3 DEF ArchiveAt
<1>6. CASE gen.decompressed_eof_ \/ Len(gen.chunk) = ChunkSize
  <2>1. PICK next : next = [gen EXCEPT !.read = IF gen.chunk = <<>> THEN "end" ELSE "split"]
    OBVIOUS
  <2>2. /\ next.pos = p /\ next.partial = gen.partial /\ next.chunk = gen.chunk /\ DOMAIN next = Fields
        /\ next.read = IF gen.chunk = <<>> THEN "end" ELSE "split"
        /\ next.avail_in = 0 /\ next.compressed_offset = gen.compressed_offset
    BY <1>2, <1>3, <1>5, <2>1 DEF Fields
  <2>3. /\ next.compressed_eof_ = gen.compressed_eof_ /\ next.decompressed_eof_ = gen.decompressed_eof_
    BY <2>1
  <2>4. ~gen.decompressed_eof_ => gen.chunk # <<>>
    BY <1>6, LogAssumption
  <2>5. ArchiveAt(next)
    BY <1>2, <1>3, <1>5, <2>2, <2>3, <2>4 DEF ArchiveAt
  <2>6. next.read = "end" => next.chunk = <<>> /\ p = size /\ flaw = npos
    BY <1>2, <1>3, <2>2, <2>4 DEF ArchiveAt
  <2>7. Reading(next, end_) /\ LineOf(next) = b
    BY <1>1, <1>3, <1>4, <2>2, <2>5, <2>6, StreamReading
  <2>8. Continue(next)
    BY <1>6, <2>1 DEF ArchiveRead
  <2> QED
    BY <1>1, <1>2, <1>3, <2>7, <2>8, ContinueKeeps
<1>7. CASE ~(gen.decompressed_eof_ \/ Len(gen.chunk) = ChunkSize)
  <2>1. gen.compressed_offset = p
    BY <1>2, <1>3, <1>7 DEF ArchiveAt
  <2>2. CASE p = csize
    <3>1. refilled(gen) = [gen EXCEPT !.compressed_eof_ = TRUE]
      BY <1>5, <2>1, <2>2 DEF refilled
    <3>2. truncated(refilled(gen))
      BY <1>5, <3>1 DEF truncated
    <3>3. Fail
      BY <1>7, <3>2 DEF ArchiveRead
    <3>4. csize = size
      BY <1>3, <2>2
    <3> QED
      BY <1>1, <1>3, <3>3, <3>4, FailKeeps DEF Damaged
  <2>4. CASE p # csize /\ p = flaw
    <3>1. refilled(gen).pos = p
      BY <1>2, <1>3, <1>5 DEF refilled, Fields
    <3>2. corrupt(refilled(gen))
      BY <2>4, <3>1 DEF corrupt
    <3>3. Fail
      BY <1>7, <3>2 DEF ArchiveRead
    <3>4. Damaged
      BY <1>3, <2>4 DEF Damaged, npos
    <3> QED
      BY <1>1, <1>3, <3>3, <3>4, FailKeeps
  <2>3. CASE p # csize /\ p # flaw
    <3>1. PICK g : g = [gen EXCEPT !.avail_in = 1, !.compressed_offset = @ + 1]
      OBVIOUS
    <3>2. g = refilled(gen)
      BY <1>5, <2>1, <2>3, <3>1 DEF refilled
    <3>3. /\ g.pos = p /\ g.partial = gen.partial /\ g.chunk = gen.chunk /\ DOMAIN g = Fields
          /\ g.read = "chunk" /\ g.avail_in = 1 /\ g.compressed_offset = p + 1
      BY <1>1, <1>2, <1>3, <2>1, <3>1 DEF Fields
    <3>4. g.compressed_eof_ = gen.compressed_eof_ /\ g.decompressed_eof_ = gen.decompressed_eof_
      BY <3>1
    <3>5. ~(truncated(refilled(gen)) \/ corrupt(refilled(gen)))
      BY <2>3, <3>2, <3>3 DEF truncated, corrupt
    <3>6. IF g.pos = size
          THEN Continue([[g EXCEPT !.read = IF g.chunk = <<>> THEN "end" ELSE "split"]
                            EXCEPT !.avail_in = 0, !.decompressed_eof_ = TRUE])
          ELSE Continue([g EXCEPT !.avail_in = 0, !.pos = @ + 1,
                                  !.chunk = Append(@, at(file, g.pos))])
      BY <1>7, <3>2, <3>5 DEF ArchiveRead
    <3>7. CASE p = size
      <4>1. PICK done : done = [g EXCEPT !.read = IF g.chunk = <<>> THEN "end" ELSE "split"]
        OBVIOUS
      <4>2. PICK next : next = [done EXCEPT !.avail_in = 0, !.decompressed_eof_ = TRUE]
        OBVIOUS
      <4>3. /\ done.pos = p /\ done.partial = gen.partial /\ done.chunk = gen.chunk /\ DOMAIN done = Fields
            /\ done.read = IF gen.chunk = <<>> THEN "end" ELSE "split"
        BY <3>3, <4>1 DEF Fields
      <4>4. /\ next.pos = p /\ next.partial = gen.partial /\ next.chunk = gen.chunk /\ DOMAIN next = Fields
            /\ next.read = done.read /\ next.avail_in = 0
        BY <4>2, <4>3 DEF Fields
      <4>5. done.compressed_eof_ = gen.compressed_eof_
        BY <3>4, <4>1
      <4>6. next.compressed_eof_ = gen.compressed_eof_ /\ next.decompressed_eof_
        BY <4>2, <4>5
      <4>7. csize = size + 1 /\ flaw = npos
        BY <1>3, <2>3, <3>7 DEF Unbroken, LogInv, LogTypes
      <4>8. ArchiveAt(next)
        BY <1>5, <3>7, <4>4, <4>6, <4>7 DEF ArchiveAt
      <4>9. next.read = "end" => next.chunk = <<>> /\ p = size /\ flaw = npos
        BY <3>7, <4>3, <4>4, <4>7
      <4>10. Reading(next, end_) /\ LineOf(next) = b
        BY <1>1, <1>3, <1>4, <4>4, <4>8, <4>9, StreamReading
      <4>11. Continue(next)
        BY <3>3, <3>6, <3>7, <4>1, <4>2
      <4> QED
        BY <1>1, <1>2, <1>3, <4>10, <4>11, ContinueKeeps
    <3>8. CASE p # size
      <4>1. PICK next : next = [g EXCEPT !.avail_in = 0, !.pos = @ + 1,
                                         !.chunk = Append(@, at(file, g.pos))]
        OBVIOUS
      <4>2. /\ next.pos = p + 1 /\ next.partial = gen.partial
            /\ next.chunk = Append(gen.chunk, at(file, p)) /\ DOMAIN next = Fields
            /\ next.read = "chunk" /\ next.avail_in = 0 /\ next.compressed_offset = p + 1
        BY <3>3, <4>1 DEF Fields
      <4>3. /\ next.compressed_eof_ = gen.compressed_eof_ /\ next.decompressed_eof_ = gen.decompressed_eof_
        BY <3>4, <4>1
      <4>4. ArchiveAt(next)
        BY <1>5, <1>7, <4>2, <4>3 DEF ArchiveAt
      <4>5. p + 1 \in 0..size /\ m <= p + 1 /\ p \in Nat /\ Unbroken(p + 1)
        BY <1>3, <1>4, <2>3, <3>8 DEF Unbroken
      <4>6. Bytes(next.chunk, m, p + 1)
        <5>1. at(file, p) \in Byte
          <6>1. file \in Seq(Byte) /\ size = Len(file) /\ p + 1 \in 1..Len(file)
            BY <1>3, <4>5, SearchAssumption DEF TypeOK, size
          <6> QED
            BY <6>1 DEF at
        <5>2. PICK c, v : c = gen.chunk /\ v = at(file, p)
          OBVIOUS
        <5>3. /\ c \in Seq(Byte) /\ Len(c) = p - m /\ v \in Byte
              /\ \A k \in 1..Len(c) : c[k] = at(file, m + k - 1)
          BY <1>4, <5>1, <5>2 DEF Bytes
        <5>4. /\ Append(c, v) \in Seq(Byte) /\ Len(Append(c, v)) = Len(c) + 1
              /\ Append(c, v)[Len(c) + 1] = v /\ \A k \in 1..Len(c) : Append(c, v)[k] = c[k]
          BY <5>3
        <5>5. ASSUME NEW k \in 1..Len(c) + 1 PROVE Append(c, v)[k] = at(file, m + k - 1)
          <6>1. CASE k \in 1..Len(c)
            BY <5>3, <5>4, <6>1
          <6>2. CASE k = Len(c) + 1
            <7>1. m + k - 1 = p
              BY <1>4, <4>5, <5>3, <6>2
            <7> QED
              BY <5>2, <5>4, <6>2, <7>1
          <6>3. Len(c) \in Nat
            BY <5>3
          <6> QED
            BY <6>1, <6>2, <6>3
        <5>6. next.chunk = Append(c, v) /\ Len(next.chunk) = (p + 1) - m
          BY <1>4, <4>2, <4>5, <5>2, <5>3, <5>4
        <5> QED
          BY <5>4, <5>5, <5>6 DEF Bytes
      <4>7. Reading(next, end_) /\ LineOf(next) = b
        <5>1. b \in Nat /\ Bytes(next.partial, b, m) /\ mode # "stream" /\ next.read # "end"
          BY <1>1, <1>3, <1>4, <4>2
        <5> QED
          BY <1>1, <1>4, <4>2, <4>4, <4>5, <4>6, <5>1, StreamReading
      <4>8. Continue(next)
        BY <3>3, <3>6, <3>8, <4>1
      <4> QED
        BY <1>1, <1>2, <1>3, <4>7, <4>8, ContinueKeeps
    <3> QED
      BY <3>7, <3>8
  <2> QED
    BY <2>2, <2>3, <2>4
<1> QED
  BY <1>6, <1>7

\* A line of the chunk, or its rest.
LEMMA StreamLineKeeps == ASSUME IInv, LogInv, StreamLine PROVE LogInv'
<1>1. streamed /\ gen.read = "split" /\ UNCHANGED <<vars, fixed>>
  BY DEF StreamLine
<1>2. PICK b, p, m : b = LineOf(gen) /\ p = gen.pos /\ m = LineOf(gen) + Len(gen.partial)
  OBVIOUS
<1>3. PICK chunk, partial : chunk = gen.chunk /\ partial = gen.partial
  OBVIOUS
<1>4. PICK n : n = firstNewline(chunk)
  OBVIOUS
<1>5. /\ TypeOK /\ stage \in {"detect", "push"} /\ DOMAIN gen = Fields /\ StreamAt(gen)
      /\ (mode = "archive" => ArchiveAt(gen))
      /\ size \in Nat /\ b \in Nat /\ p \in 0..size /\ Unbroken(p)
      /\ partial \in Seq(Byte) /\ chunk \in Seq(Byte) /\ b + Len(partial) + Len(chunk) = p
  BY <1>1, <1>2, <1>3, StreamState
<1>6. /\ m \in Nat /\ b <= m /\ m <= p /\ p \in Nat
      /\ Bytes(partial, b, m) /\ Bytes(chunk, m, p) /\ newlines(b, m) = {}
      /\ b < size => b \in Begins(file)
  <2>1. Len(partial) \in Nat /\ Len(chunk) \in Nat
    BY <1>5
  <2>2. m \in Nat /\ b <= m /\ m <= p /\ p \in Nat
    BY <1>2, <1>3, <1>5, <2>1
  <2> QED
    BY <1>2, <1>3, <1>5, <2>2 DEF StreamAt
<1>7. /\ n \in 0..p - m
      /\ n = 0 => newlines(m, p) = {}
      /\ n # 0 => newlines(m, m + n - 1) = {} /\ at(file, m + n - 1) = Newline
  BY <1>4, <1>6, NewlineOfBytes
\* Whatever becomes of the line, the archive stays where it is.
<1>8. ASSUME NEW g, g.read # "end", g.pos = p, g.avail_in = gen.avail_in,
             g.compressed_offset = gen.compressed_offset,
             g.compressed_eof_ = gen.compressed_eof_, g.decompressed_eof_ = gen.decompressed_eof_
      PROVE  mode = "archive" => ArchiveAt(g)
  BY <1>2, <1>5, <1>8 DEF ArchiveAt
<1>9. CASE n = 0
  <2>1. PICK next : next = [gen EXCEPT !.partial = whole(gen.chunk), !.chunk = <<>>, !.read = "chunk"]
    OBVIOUS
  <2>2. /\ next.pos = p /\ next.partial = partial \o chunk /\ next.chunk = <<>> /\ DOMAIN next = Fields
        /\ next.read = "chunk" /\ next.avail_in = gen.avail_in
        /\ next.compressed_offset = gen.compressed_offset
    BY <1>2, <1>3, <1>5, <2>1 DEF Fields, whole
  <2>3. /\ next.compressed_eof_ = gen.compressed_eof_ /\ next.decompressed_eof_ = gen.decompressed_eof_
    BY <2>1
  <2>4. mode = "archive" => ArchiveAt(next)
    BY <1>8, <2>2, <2>3
  <2>5. Bytes(next.partial, b, p) /\ Bytes(next.chunk, p, p)
    <3>1. Bytes(partial \o chunk, b, p)
      BY <1>5, <1>6, JoinBytes
    <3>2. Bytes(<<>>, p, p)
      BY <1>6 DEF Bytes
    <3> QED
      BY <2>2, <3>1, <3>2
  <2>6. newlines(b, p) = {}
    <3>1. \A k \in b..p - 1 : k \in b..m - 1 \/ k \in m..p - 1
      BY <1>5, <1>6
    <3> QED
      BY <1>6, <1>7, <1>9, <3>1 DEF newlines
  <2>7. Reading(next, end_) /\ LineOf(next) = b
    <3>1. b <= p /\ p <= p /\ next.read # "end"
      BY <1>5, <1>6, <2>2
    <3> QED
      BY <1>1, <1>5, <1>6, <2>2, <2>4, <2>5, <2>6, <3>1, StreamReading
  <2>8. Continue(next)
    BY <1>3, <1>4, <1>9, <2>1 DEF StreamLine
  <2> QED
    BY <1>1, <1>2, <1>5, <2>7, <2>8, ContinueKeeps
<1>10. CASE n # 0
  <2>1. PICK e \in Int : e = m + n - 1
    BY <1>6, <1>7
  <2>2. /\ n \in Nat /\ b <= e /\ m <= e /\ e < p /\ e < size /\ e \in Nat /\ e + 1 \in Nat
        /\ e \in b..size /\ e # size /\ at(file, e) = Newline /\ e + 1 = m + n
    BY <1>5, <1>6, <1>7, <1>10, <2>1
  <2>3. newlines(b, e) = {}
    <3>1. \A k \in b..e - 1 : k \in b..m - 1 \/ k \in m..e - 1
      BY <1>5, <1>6, <2>2
    <3> QED
      BY <1>6, <1>7, <1>10, <2>1, <3>1 DEF newlines
  <2>4. PICK line : line = whole(SubSeq(gen.chunk, 1, n - 1))
    OBVIOUS
  <2>5. Bytes(line, b, e)
    <3>1. m \in m..p /\ e \in m..p /\ m - m + 1 = 1 /\ e - m = n - 1
      BY <1>6, <2>1, <2>2
    <3>2. Bytes(SubSeq(chunk, m - m + 1, e - m), m, e)
      BY <1>6, <3>1, CutBytes
    <3>3. Bytes(SubSeq(chunk, 1, n - 1), m, e)
      BY <3>1, <3>2
    <3>4. Bytes(partial \o SubSeq(chunk, 1, n - 1), b, e)
      BY <1>5, <1>6, <2>2, <3>3, JoinBytes
    <3> QED
      BY <1>3, <2>4, <3>4 DEF whole
  <2>6. PICK left : left = SubSeq(gen.chunk, n + 1, Len(gen.chunk))
    OBVIOUS
  <2>7. Bytes(left, e + 1, p)
    <3>1. e + 1 \in m..p /\ p \in e + 1..p /\ (e + 1) - m + 1 = n + 1 /\ p - m = Len(chunk)
      BY <1>6, <2>2 DEF Bytes
    <3>2. Bytes(SubSeq(chunk, (e + 1) - m + 1, p - m), e + 1, p)
      BY <1>6, <3>1, CutBytes
    <3> QED
      BY <1>3, <2>6, <3>1, <3>2
  <2>8. PICK next : next = [gen EXCEPT !.partial = <<>>, !.chunk = left,
                                       !.read = IF left = <<>> THEN "chunk" ELSE "split"]
    OBVIOUS
  <2>9. /\ next.pos = p /\ next.partial = <<>> /\ next.chunk = left /\ DOMAIN next = Fields
        /\ next.read = IF left = <<>> THEN "chunk" ELSE "split"
        /\ next.avail_in = gen.avail_in /\ next.compressed_offset = gen.compressed_offset
    BY <1>2, <1>5, <2>8 DEF Fields
  <2>10. /\ next.compressed_eof_ = gen.compressed_eof_ /\ next.decompressed_eof_ = gen.decompressed_eof_
    BY <2>8
  <2>11. next.read # "end" /\ (next.read = "chunk" => next.chunk = <<>>)
    BY <2>9
  <2>12. mode = "archive" => ArchiveAt(next)
    BY <1>8, <2>9, <2>10, <2>11
  <2>13. b \in Begins(file) /\ (e + 1 < size => e + 1 \in Begins(file))
    <3>1. b < size
      BY <1>5, <2>2
    <3>2. ASSUME e + 1 < size PROVE e + 1 \in Begins(file)
      <4>1. e + 1 \in 0..size - 1 /\ (e + 1) - 1 = e
        BY <1>5, <2>2, <3>2
      <4> QED
        BY <1>5, <2>2, <4>1, LineFacts
    <3> QED
      BY <1>6, <3>1, <3>2
  <2>14. Reading(next, end_) /\ LineOf(next) = e + 1
    <3>1. Bytes(<<>>, e + 1, e + 1) /\ newlines(e + 1, e + 1) = {}
      BY <2>2 DEF Bytes, newlines
    <3>2. /\ Bytes(next.partial, e + 1, e + 1) /\ Bytes(next.chunk, e + 1, p) /\ next.pos = p
          /\ e + 1 <= e + 1 /\ e + 1 <= p
      BY <1>6, <2>2, <2>7, <2>9, <3>1
    <3> QED
      BY <1>1, <1>5, <2>2, <2>9, <2>11, <2>12, <2>13, <3>1, <3>2, StreamReading
  <2>15. Yield(line, next)
    BY <1>3, <1>4, <1>10, <2>4, <2>6, <2>8 DEF StreamLine
  <2>16. e + 1 \in Int /\ b < e + 1 /\ e + 1 <= e + 1
    BY <1>5, <2>2
  <2> QED
    BY <1>1, <1>2, <2>2, <2>3, <2>5, <2>13, <2>14, <2>15, <2>16, StreamYield
<1> QED
  BY <1>9, <1>10

\* The stream has ended, and with it the line.
LEMMA StreamEndKeeps == ASSUME IInv, LogInv, StreamEnd PROVE LogInv'
<1>1. streamed /\ gen.read = "end" /\ UNCHANGED <<vars, fixed>>
  BY DEF StreamEnd
<1>2. PICK b, partial : b = LineOf(gen) /\ partial = gen.partial
  OBVIOUS
<1>3. /\ TypeOK /\ stage \in {"detect", "push"} /\ DOMAIN gen = Fields /\ StreamAt(gen)
      /\ mode \in {"stream", "archive"} /\ (mode = "archive" => ArchiveAt(gen))
      /\ size \in Nat /\ Unbroken(gen.pos) /\ b \in Nat /\ partial \in Seq(Byte)
      /\ b + Len(partial) + Len(gen.chunk) = gen.pos
  BY <1>1, <1>2, StreamState
<1>4. /\ gen.chunk = <<>> /\ gen.pos = size /\ b + Len(partial) = size /\ Len(partial) \in Nat
      /\ Bytes(partial, b, size) /\ newlines(b, size) = {} /\ (b < size => b \in Begins(file))
  <2>1. gen.chunk = <<>> /\ gen.pos = size
    BY <1>1, <1>3 DEF StreamAt
  <2>2. b + Len(partial) = size /\ Len(partial) \in Nat
    BY <1>3, <2>1
  <2> QED
    BY <1>2, <1>3, <2>1, <2>2 DEF StreamAt
<1>5. /\ mode = "archive" => gen.decompressed_eof_ /\ csize = size + 1
      /\ flaw = npos
  BY <1>1, <1>3 DEF ArchiveAt, StreamAt
<1>6. CASE partial = <<>>
  <2>1. Return /\ b = size
    BY <1>2, <1>3, <1>4, <1>6 DEF StreamEnd
  <2>2. \A c \in Wanted : c < b
    BY <1>3, <2>1, WantedFinite
  <2>3. ~Damaged /\ mode # "range" /\ b \in Int
    BY <1>3, <1>5 DEF Damaged
  <2> QED
    BY <1>1, <1>2, <1>3, <2>1, <2>2, <2>3, ReturnKeeps
<1>7. CASE partial # <<>>
  <2>1. b < size /\ b \in Begins(file) /\ size \in b..size
    <3>1. Len(partial) # 0
      BY <1>3, <1>7
    <3>2. b < size
      BY <1>3, <1>4, <3>1
    <3> QED
      BY <1>3, <1>4, <3>2
  <2>2. PICK next : next = [gen EXCEPT !.partial = <<>>]
    OBVIOUS
  <2>3. /\ next.pos = size /\ next.partial = <<>> /\ next.chunk = <<>> /\ next.read = "end"
        /\ DOMAIN next = Fields
        /\ next.avail_in = gen.avail_in /\ next.compressed_offset = gen.compressed_offset
    BY <1>1, <1>3, <1>4, <2>2 DEF Fields
  <2>4. /\ next.compressed_eof_ = gen.compressed_eof_ /\ next.decompressed_eof_ = gen.decompressed_eof_
    BY <2>2
  <2>5. mode = "archive" => ArchiveAt(next)
    BY <1>3, <1>5, <2>3, <2>4 DEF ArchiveAt
  <2>6. Reading(next, end_) /\ LineOf(next) = size
    <3>1. Bytes(<<>>, size, size) /\ newlines(size, size) = {} /\ size \in 0..size /\ size <= size /\ ~(size < size)
      BY <1>3 DEF Bytes, newlines
    <3> QED
      BY <1>1, <1>3, <1>4, <1>5, <2>3, <2>5, <3>1, StreamReading
  <2>7. Yield(partial, next)
    BY <1>2, <1>7, <2>2 DEF StreamEnd
  <2>8. size \in Int /\ size <= size + 1
    BY <1>3
  <2> QED
    BY <1>1, <1>2, <1>4, <1>7, <2>1, <2>6, <2>7, <2>8, StreamYield
<1> QED
  BY <1>6, <1>7
----------------------------------------------------------------------------
LEMMA LogInitInv == LogInit => LogInv /\ Found
<1> SUFFICES ASSUME LogInit PROVE LogInv /\ Found
  OBVIOUS
<1>1. /\ Init /\ mode \in Modes /\ slots \in Slots
      /\ csize \in {size + 1} \cup IF mode = "archive" THEN {size} ELSE {}
      /\ (mode # "range" => timed) /\ flaw \in flaws(mode, csize)
      /\ stage = "open" /\ gen = lines(0) /\ emitted = <<>>
  BY DEF LogInit
<1>2. size \in Nat
  BY <1>1, InitInv, Numbers DEF IInv
<1>3. csize \in {size, size + 1} /\ (csize = size => mode = "archive")
  BY <1>1, <1>2
<1>4. LogTypes
  BY <1>1, <1>2, <1>3, LogAssumption DEF LogTypes, flaws
<1>5. LogInv
  BY <1>1, <1>4 DEF LogInv, LinesExact, FailsOnBadInput
<1>6. Found
  BY <1>1 DEF Init, Found
<1> QED
  BY <1>5, <1>6

LEMMA LogStepInv ==
  ASSUME IInv, IInv', LogInv, Found, [LogNext]_logVars
  PROVE  LogInv' /\ Found'
<1>1. CASE Search
  <2>1. Step
    BY <1>1 DEF Search
  <2>2. Found'
    BY <2>1, FoundStep
  <2> QED
    BY <1>1, <2>2, SearchKeeps
<1>2. CASE LogStep /\ ~Search
  <2>1. UNCHANGED vars
    BY <1>2 DEF LogStep, Open, PagedLine, PagedSpan, PagedEnd, PipeRead, ArchiveRead, StreamLine, StreamEnd
  <2>2. LogInv'
    BY <1>2, OpenKeeps, PagedLineKeeps, PagedSpanKeeps, PagedEndKeeps, PipeReadKeeps,
       ArchiveReadKeeps, StreamLineKeeps, StreamEndKeeps DEF LogStep
  <2> QED
    BY <2>1, <2>2, FoundSame
<1>3. CASE UNCHANGED logVars
  <2>1. /\ UNCHANGED vars /\ UNCHANGED <<vars, fixed>> /\ UNCHANGED <<stage, gen, emitted, ended>>
    BY <1>3 DEF logVars
  <2>2. /\ UNCHANGED <<file, range, pc, from_pos, to_pos, mode, slots, csize, timed, flaw>>
        /\ size' = size /\ Wanted' = Wanted
        /\ \A c : Text(c)' = Text(c) /\ Number(c)' = Number(c)
        /\ \A c : Complete(c)' <=> Complete(c)
    BY <2>1, SameLog
  <2>3. LogTypes'
    BY <2>1, <2>2 DEF LogInv, LogTypes
  <2>4. end_' = end_
    BY <2>1, <2>2, SameEnd
  <2>5. LineOf(gen)' = LineOf(gen) /\ (Reading(gen, end_)' <=> Reading(gen, end_))
    BY <2>1, <2>2, <2>4, SameReading
  <2>6. UpTo(LineOf(gen))' <=> UpTo(LineOf(gen))
    BY <2>1, <2>2, <2>5 DEF UpTo
  <2>7. LinesExact'
    BY <2>1, <2>2 DEF LogInv, LinesExact
  <2>8. FailsOnBadInput'
    BY <2>1, <2>2 DEF LogInv, FailsOnBadInput, Damaged
  <2>9. lines(0)' = lines(0)
    BY DEF lines
  <2>10. LogInv'
    BY <2>1, <2>2, <2>3, <2>5, <2>6, <2>7, <2>8, <2>9 DEF LogInv
  <2> QED
    BY <2>1, <2>10, FoundSame
<1> QED
  BY <1>1, <1>2, <1>3 DEF LogNext

LEMMA LogAlways == LogSpec => [](IInv /\ LogInv /\ Found)
<1>1. LogInit => IInv /\ LogInv /\ Found
  BY InitInv, LogInitInv DEF LogInit
<1>2. (IInv /\ LogInv /\ Found) /\ [LogNext]_logVars => (IInv /\ LogInv /\ Found)'
  BY OpenedSearch, LogStepInv
<1> QED
  BY <1>1, <1>2, PTL DEF LogSpec

\* However lines, pages and chunks overlap, Log::push emits a record for each
\* line of the range, in order and with its whole text, and nothing else; when
\* it has ended the stream none is missing.  For every file, page size and
\* chunk size, and whatever a pipe gives at a time.
THEOREM LinesRead == LogSpec => []LinesExact
<1>1. LogInv => LinesExact
  BY DEF LogInv
<1> QED
  BY <1>1, LogAlways, PTL

\* Opening or pushing a log fails only for a reason: its lines, its kind, a type
\* without a time format, a failing command or a damaged archive; and a damaged log
\* never ends like a complete one, whatever was read of it before the damage.
THEOREM FailsForAReason == LogSpec => []FailsOnBadInput
<1>1. LogInv => FailsOnBadInput
  BY DEF LogInv
<1> QED
  BY <1>1, LogAlways, PTL

\* What the range means for the records: of the lines that end in a newline and
\* bear a timestamp, those are read whose time lies in the range.
RecordsInRange ==
  stage \in {"push", "left", "done"} /\ mode \in {"range", "format"} =>
    \A b \in Begins(file) : Complete(b) =>
      \A i \in Stamps(file, b) : b \in LineBegins <=> at(file, i) \in range[1]..range[2]

\* The search and the reading together: by LinesRead the records of a log opened
\* with a time range are those of LineBegins, and these are the lines of the
\* range.  Reading never begins before the search is over.
THEOREM RangeRecords == LogSpec => []RecordsInRange
<1>1. ASSUME IInv, LogInv PROVE RecordsInRange
  <2> SUFFICES ASSUME stage \in {"push", "left", "done"}, mode \in {"range", "format"},
                      NEW b \in Begins(file), Complete(b), NEW i \in Stamps(file, b)
               PROVE  b \in LineBegins <=> at(file, i) \in range[1]..range[2]
    BY DEF RecordsInRange
  <2>1. pc = "done"
    BY <1>1 DEF LogInv
  <2>2. b \in LineBegins <=> b \in from_pos..to_pos - 1
    BY DEF LineBegins, Paged
  <2>3. b \in from_pos..to_pos - 1 <=> at(file, i) \in range[1]..range[2]
    BY <1>1, <2>1 DEF IInv, RangeExact
  <2> QED
    BY <2>2, <2>3
<1> QED
  BY <1>1, LogAlways, PTL
=============================================================================
