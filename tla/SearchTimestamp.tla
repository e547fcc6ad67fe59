-------------------------- MODULE SearchTimestamp --------------------------
(***************************************************************************)
(* The time range of a log file (getFileSourceRange): two binary searches  *)
(* over the bytes of a file whose lines are sorted by time, lowerBoundLine *)
(* for the first line of the range and upperBoundLine for the first line   *)
(* behind it.  A probe lands in the middle of a line; the beginning of the *)
(* line is looked for backwards and its end forwards, BufferSize bytes at  *)
(* a time.  Each chunk is a step here.                                     *)
(*                                                                         *)
(* A byte is a newline, a timestamp (standing for the text of one, with    *)
(* the time as its value), or anything else.  Offsets count from 0.        *)
(***************************************************************************)
EXTENDS Integers, Sequences

CONSTANTS Files,        \* the file contents considered
          Ranges,       \* the ranges <<ts_from, ts_to>> considered
          BufferSize    \* TimestampSearchBufferSize

Newline == -1
Plain   == 0
Byte    == Nat \cup {Newline}

at(f, i) == f[i + 1]

\* The offsets at which a line begins.
Begins(f) == {b \in 0..Len(f) - 1 : b = 0 \/ at(f, b - 1) = Newline}

\* The offset of the first timestamp of the line that begins at b, if any.
Stamps(f, b) ==
  {i \in b..Len(f) - 1 : at(f, i) > 0 /\ \A j \in b..i - 1 : at(f, j) = Plain}

\* The lines that have a timestamp are sorted by it.
SortedByTime(f) ==
  \A b, c \in Begins(f) : b <= c =>
    \A i \in Stamps(f, b), j \in Stamps(f, c) : at(f, i) <= at(f, j)

ASSUME SearchAssumption ==
  /\ Files \subseteq Seq(Byte)
  /\ \A f \in Files : SortedByTime(f)
  /\ Ranges \subseteq Nat \X Nat
  /\ BufferSize \in Nat \ {0}

VARIABLES file, range,  \* what is searched, and for what
          pc,           \* where the search is
          bound,        \* "lower" in lowerBoundLine, "upper" in upperBoundLine
          begin, end,   \* the bytes that may still hold the line looked for
          answer,       \* answer
          offset,       \* how far the chunks of the probe got
          line_begin,   \* the line the probe landed in
          next_begin,   \* and the line after it
          from_pos, to_pos

vars == <<file, range, pc, bound, begin, end, answer, offset,
          line_begin, next_begin, from_pos, to_pos>>

npos == -1
size == Len(file)

Init ==
  /\ file \in Files
  /\ range \in Ranges
  /\ pc = "search"
  /\ bound = "lower"
  /\ begin = 0 /\ end = size /\ answer = npos
  /\ offset = 0 /\ line_begin = 0 /\ next_begin = 0
  /\ from_pos = npos /\ to_pos = npos
----------------------------------------------------------------------------
Inputs == <<file, range>>
Bounds == <<bound, begin, end, answer>>
Result == <<from_pos, to_pos>>

newlines(lo, hi) == {i \in lo..hi - 1 : at(file, i) = Newline}
----------------------------------------------------------------------------
\* Mutated forms of definitions below; none is part of the specification.
skip_line_Exclusive(ts) == ts < IF bound = "lower" THEN range[1] ELSE range[2]
Skip_NoProgress ==
  /\ pc = "decide"
  /\ \E i \in Stamps(file, line_begin) :
       at(file, i) < IF bound = "lower" THEN range[1] ELSE range[2] + 1
  /\ begin' = line_begin
  /\ pc' = "search"
  /\ UNCHANGED <<Inputs, bound, end, answer, offset, line_begin, next_begin, Result>>
----------------------------------------------------------------------------
target == IF bound = "lower" THEN range[1] ELSE range[2]

\* skip_line of the two searches; accept_line is its negation.
skip_line(ts) == IF bound = "lower" THEN ts < target ELSE ts <= target

\* while (begin < end): probe the middle.  readLineAt always finds a line,
\* for the middle lies before the end of the file.
Probe ==
  /\ pc = "search"
  /\ begin < end
  /\ LET mid == begin + (end - begin) \div 2 IN
       IF mid = 0 \/ at(file, mid - 1) = Newline
       THEN pc' = "forward" /\ line_begin' = mid /\ offset' = mid
       ELSE pc' = "back" /\ offset' = mid /\ UNCHANGED line_begin
  /\ UNCHANGED <<Inputs, Bounds, next_begin, Result>>

\* findLineBegin: look for the last newline of the chunk before offset.
Back ==
  /\ pc = "back"
  /\ LET chunk == IF offset > BufferSize THEN offset - BufferSize ELSE 0
         nl    == newlines(chunk, offset) IN
       IF nl # {}
       THEN \E n \in nl :
              /\ \A m \in nl : m <= n
              /\ line_begin' = n + 1 /\ offset' = n + 1 /\ pc' = "forward"
       ELSE /\ offset' = chunk
            /\ IF chunk = 0
               THEN line_begin' = 0 /\ pc' = "forward"
               ELSE UNCHANGED <<line_begin, pc>>
  /\ UNCHANGED <<Inputs, Bounds, next_begin, Result>>

\* readLine: look for the first newline of the chunk at offset.
Forward ==
  /\ pc = "forward"
  /\ LET chunk == IF offset + BufferSize < size THEN offset + BufferSize ELSE size
         nl    == newlines(offset, chunk) IN
       IF nl # {}
       THEN \E n \in nl :
              /\ \A m \in nl : n <= m
              /\ next_begin' = n + 1 /\ pc' = "decide" /\ UNCHANGED offset
       ELSE /\ offset' = chunk
            /\ IF chunk = size
               THEN next_begin' = size /\ pc' = "decide"
               ELSE UNCHANGED <<next_begin, pc>>
  /\ UNCHANGED <<Inputs, Bounds, line_begin, Result>>

\* The line read: text, without its newline.
stamps == Stamps(file, line_begin) \cap (line_begin..next_begin - 1)

\* lineTimestamp throws.
NoTimestamp ==
  /\ pc = "decide"
  /\ stamps = {}
  /\ pc' = "error"
  /\ UNCHANGED <<Inputs, Bounds, offset, line_begin, next_begin, Result>>

Skip ==
  /\ pc = "decide"
  /\ \E i \in stamps : skip_line(at(file, i))
  /\ begin' = next_begin
  /\ pc' = "search"
  /\ UNCHANGED <<Inputs, bound, end, answer, offset, line_begin, next_begin, Result>>

Accept ==
  /\ pc = "decide"
  /\ \E i \in stamps : ~skip_line(at(file, i))
  /\ answer' = line_begin
  /\ end' = line_begin
  /\ pc' = "search"
  /\ UNCHANGED <<Inputs, bound, begin, offset, line_begin, next_begin, Result>>

\* lowerBoundLine returns, and upperBoundLine is called.
LowerDone ==
  /\ pc = "search" /\ bound = "lower"
  /\ begin >= end
  /\ from_pos' = answer
  /\ bound' = "upper"
  /\ begin' = 0 /\ end' = size /\ answer' = npos
  /\ UNCHANGED <<Inputs, pc, offset, line_begin, next_begin, to_pos>>

\* upperBoundLine returns; an empty range is read as [0, 0).
UpperDone ==
  /\ pc = "search" /\ bound = "upper"
  /\ begin >= end
  /\ LET to == IF answer = npos THEN size ELSE answer IN
       IF from_pos = npos \/ to <= from_pos
       THEN from_pos' = 0 /\ to_pos' = 0
       ELSE to_pos' = to /\ UNCHANGED from_pos
  /\ pc' = "done"
  /\ UNCHANGED <<Inputs, Bounds, offset, line_begin, next_begin>>

Step ==
  \/ Probe \/ Back \/ Forward \/ NoTimestamp \/ Skip \/ Accept
  \/ LowerDone \/ UpperDone

Returned == pc \in {"done", "error"}

Next == Step \/ (Returned /\ UNCHANGED vars)

Spec == Init /\ [][Next]_vars /\ WF_vars(Step)
----------------------------------------------------------------------------
Offset == 0..size

TypeOK ==
  /\ file \in Files
  /\ range \in Ranges
  /\ pc \in {"search", "back", "forward", "decide", "done", "error"}
  /\ bound \in {"lower", "upper"}
  /\ begin \in Offset /\ end \in Offset
  /\ answer \in Offset \cup {npos}
  /\ offset \in Offset /\ line_begin \in Offset /\ next_begin \in Offset
  /\ from_pos \in Offset \cup {npos} /\ to_pos \in Offset \cup {npos}

\* The lines the range selects are those whose timestamp lies in it, both ends
\* included, wherever the probes land and however lines and chunks overlap.
RangeExact ==
  pc = "done" =>
    \A b \in Begins(file) : \A i \in Stamps(file, b) :
      b \in from_pos..to_pos - 1 <=> at(file, i) \in range[1]..range[2]
=============================================================================
