----------------------------- MODULE LogSource -----------------------------
(***************************************************************************)
(* A log from its bytes to the records that Log::push emits: opening it    *)
(* (whole file, time range, archive or command stream), the detection of   *)
(* its type, the time-range search (SearchTimestamp), and the two ways its *)
(* bytes are cut into lines: page by page, where a line may span pages,    *)
(* and chunk by chunk, where the beginning of a line is carried over.      *)
(* Everything that yields a line is a step.                                *)
(***************************************************************************)
EXTENDS SearchTimestamp, SequencesExt

CONSTANTS Modes,        \* the kinds of sources considered
          PageSize,     \* bytes of a page
          ChunkSize     \* StreamReadChunkSize

\* "file", "range" (the time format comes from the log type), "format" (a range
\* with a given time format), "stream", "archive", "gzrange" (a range of an
\* archive), "missing" (a path that cannot be opened).
Paged == {"file", "range", "format"}
AllModes == Paged \cup {"stream", "archive", "gzrange", "missing"}

ASSUME LogAssumption ==
  /\ Modes \subseteq AllModes
  /\ PageSize \in Nat \ {0} /\ ChunkSize \in Nat \ {0}

VARIABLES mode, slots,  \* what is opened, and which fields are wanted
          csize,        \* the size of the archive
          timed,        \* whether the type of the log has a time format
          flaw,         \* where its stream or archive is broken, or npos
          stage,        \* where open() and push() are
          type_,        \* whether the log type is known
          gen,          \* the state of the generator lines()
          emitted,      \* the lines of the records emitted
          ended         \* nullptr was emitted

fixed == <<mode, slots, csize, timed, flaw>>
logVars == <<vars, fixed, stage, type_, gen, emitted, ended>>

\* slots_: no field, _line alone, or parsed fields.
Slots == {"none", "line", "fields"}

\* A generator at its first line.  Of PagedLineSource: pos, page_index and,
\* while a line spans pages, the line so far; of StreamLineSource: the rest of
\* the chunk and the partial line; of the archive: the state of its stream.
lines(first) ==
  [pos |-> first, page_index |-> first \div PageSize, spanning |-> FALSE,
   partial |-> <<>>, chunk |-> <<>>, read |-> "chunk",
   avail_in |-> 0, compressed_offset |-> 0, compressed_eof_ |-> FALSE,
   decompressed_eof_ |-> FALSE]

\* Where a read can fail.  The bytes of a command: a read error, or, behind the
\* last one, a command that failed.  The units of an archive: one for each byte
\* of the file and a trailer, each of which may be corrupt; a truncated archive
\* has lost the trailer.
flaws(m, n) ==
  {npos} \cup IF m = "stream" \/ (m = "archive" /\ n = size + 1) THEN 0..size ELSE {}

LogInit ==
  /\ Init
  /\ mode \in Modes /\ slots \in Slots
  /\ mode \notin {"range", "format"} => range = <<0, 0>>
  /\ csize \in {size + 1} \cup IF mode = "archive" THEN {size} ELSE {}
  /\ timed \in BOOLEAN /\ (mode # "range" => timed)
  /\ flaw \in flaws(mode, csize)
  /\ stage = "open" /\ type_ = FALSE
  /\ gen = lines(0)
  /\ emitted = <<>> /\ ended = FALSE

\* logfmt::detectLogType and parse_func: a format whose lines bear a timestamp,
\* and that cannot parse an empty line.
Detects(line) == \E k \in DOMAIN line : line[k] > 0
Parses(line) == line # <<>>

firstNewline(data) == SelectInSeq(data, LAMBDA b : b = Newline)

\* The range that is read: the whole file, until a range has been found.
end_ == IF stage = "push" /\ mode \in {"range", "format"} THEN to_pos ELSE size

----------------------------------------------------------------------------
\* Mutated forms of definitions below; none is part of the specification.
behind_SamePage(i, n, data) ==
  [gen EXCEPT !.spanning = FALSE, !.partial = <<>>,
     !.pos = IF n = Len(data) /\ (i + 1) * PageSize >= end_ THEN end_
             ELSE gen.page_index * PageSize + PageSize - Len(data) + n]
truncated_Ends(g) == FALSE
----------------------------------------------------------------------------
openStage(m) ==
  CASE m \in {"gzrange", "missing"} -> "error" [] m = "stream" -> "push" [] OTHER -> "detect"

\* open(): archives have no ranges, a missing file is refused; a command's type is
\* not detected here.
Open ==
  /\ stage = "open"
  /\ stage' = openStage(mode)
  /\ UNCHANGED <<vars, fixed, type_, gen, emitted, ended>>

\* detectLogType(source) is over: whole files are pushed, ranges searched; the
\* type gives the time format, if it has one, unless one was given.
Detected(found) ==
  /\ type_' = found
  /\ stage' = CASE mode \in {"file", "archive"} -> "push"
                [] mode = "range" /\ ~(found /\ timed) -> "error"
                [] OTHER -> "search"
  /\ gen' = lines(0)
  /\ UNCHANGED <<emitted, ended>>

\* getFileSourceRange: the search, then the lines of the range it found.
Search ==
  /\ stage = "search"
  /\ Step
  /\ stage' = CASE pc' = "done" -> "push" [] pc' = "error" -> "error" [] OTHER -> "search"
  /\ gen' = IF pc' = "done" THEN lines(from_pos') ELSE gen
  /\ UNCHANGED <<fixed, type_, emitted, ended>>

\* The body of Log::push for one line.  The subscribers may leave at any record.
Emit(line) ==
  /\ emitted' = Append(emitted, line)
  /\ stage' \in {"push", "left"}
  /\ UNCHANGED ended

PushLine(line) ==
  \/ /\ slots \in {"none", "line"}
     /\ Emit(line) /\ UNCHANGED type_
  \/ /\ slots = "fields" /\ (type_ \/ Detects(line))
     /\ type_' = TRUE
     /\ IF Parses(line) THEN Emit(line) ELSE UNCHANGED <<stage, emitted, ended>>
  \/ /\ slots = "fields" /\ ~type_ /\ ~Detects(line)
     /\ stage' = "error" /\ UNCHANGED <<type_, emitted, ended>>

\* The generator yields a line and, unless its reader stops, goes on from next.
Yield(line, next) ==
  \/ stage = "detect" /\ Detects(line) /\ Detected(TRUE)
  \/ /\ stage = "detect" /\ ~Detects(line)
     /\ gen' = next /\ UNCHANGED <<stage, type_, emitted, ended>>
  \/ stage = "push" /\ PushLine(line) /\ gen' = next

\* The generator returns: there is no type, or the records end.
Return ==
  \/ stage = "detect" /\ Detected(FALSE)
  \/ /\ stage = "push" /\ stage' = "done" /\ ended' = TRUE
     /\ UNCHANGED <<type_, gen, emitted>>

\* The generator goes on without yielding.
Continue(next) == gen' = next /\ UNCHANGED <<stage, type_, emitted, ended>>

Fail == stage' = "error" /\ UNCHANGED <<type_, gen, emitted, ended>>

----------------------------------------------------------------------------
\* PagedFile::page, and PagedLineSource::lines.
page(i) == SubSeq(file, i * PageSize + 1,
                  IF (i + 1) * PageSize < size THEN (i + 1) * PageSize ELSE size)

next_page(i) == (i + 1) * PageSize < end_

\* Behind newline number n of data, which ends where page i ends: in the same
\* page, in the next one, or nowhere if the next is not included.
behind(i, n, data) ==
  [gen EXCEPT !.spanning = FALSE, !.partial = <<>>,
     !.page_index = IF n = Len(data) /\ next_page(i) THEN i + 1 ELSE i,
     !.pos = IF n = Len(data) /\ ~next_page(i) THEN end_
             ELSE i * PageSize + Len(page(i)) - Len(data) + n]

paged == stage \in {"detect", "push"} /\ mode \in {"file", "range", "format"}

\* data: the page from pos on.
PagedLine ==
  /\ paged /\ ~gen.spanning /\ gen.pos < end_
  /\ LET here == page(gen.page_index)
         data == SubSeq(here, (gen.pos % PageSize) + 1, Len(here))
         n == firstNewline(data)
     IN IF n = 0 THEN Continue([gen EXCEPT !.spanning = TRUE, !.partial = data])
        ELSE IF gen.pos + n > end_ THEN Return
        ELSE Yield(SubSeq(data, 1, n - 1), behind(gen.page_index, n, data))
  /\ UNCHANGED <<vars, fixed>>

\* The line goes on in the next page; without one it is dropped.
PagedSpan ==
  /\ paged /\ gen.spanning
  /\ LET i == gen.page_index + 1
         n == firstNewline(page(i))
     IN IF ~next_page(gen.page_index) THEN Return
        ELSE IF n = 0 THEN Continue([gen EXCEPT !.page_index = i,
                                                !.partial = @ \o page(i)])
        ELSE Yield(gen.partial \o SubSeq(page(i), 1, n - 1), behind(i, n, page(i)))
  /\ UNCHANGED <<vars, fixed>>

PagedEnd ==
  /\ paged /\ ~gen.spanning /\ gen.pos >= end_
  /\ Return
  /\ UNCHANGED <<vars, fixed>>

----------------------------------------------------------------------------
\* StreamLineSource::lines.  read: "chunk" while stream->read fills the chunk,
\* "split" while its lines are yielded, "end" after a read of nothing.
streamed == stage \in {"detect", "push"} /\ mode \in {"stream", "archive"}

\* A pipe gives what it has, at most a chunk (CommandStream::read); starting the
\* command, reading from it and, at the end, wait() may fail.
PipeRead ==
  /\ streamed /\ mode = "stream" /\ gen.read = "chunk"
  /\ IF gen.pos = flaw THEN Fail
     ELSE IF gen.pos = size THEN Continue([gen EXCEPT !.read = "end"])
     ELSE \E n \in 1..ChunkSize :
            /\ gen.pos + n <= (IF flaw = npos THEN size ELSE flaw)
            /\ Continue([gen EXCEPT !.pos = @ + n, !.read = "split",
                                    !.chunk = SubSeq(file, gen.pos + 1, gen.pos + n)])
  /\ UNCHANGED <<vars, fixed>>

\* NativeArchiveStream::read, one turn of its loop: more input, inflate (external,
\* here a unit at a time), until the chunk is full or the trailer was read.
refilled(g) ==
  IF g.avail_in > 0 \/ g.compressed_eof_ THEN g
  ELSE IF g.compressed_offset = csize THEN [g EXCEPT !.compressed_eof_ = TRUE]
  ELSE [g EXCEPT !.avail_in = 1, !.compressed_offset = @ + 1]

\* Z_BUF_ERROR: nothing left to inflate, and no trailer.
truncated(g) == g.avail_in = 0

\* Any other error of inflate.
corrupt(g) == g.pos = flaw

ArchiveRead ==
  /\ streamed /\ mode = "archive" /\ gen.read = "chunk"
  /\ LET g == refilled(gen)
         done == [g EXCEPT !.read = IF g.chunk = <<>> THEN "end" ELSE "split"]
     IN IF gen.decompressed_eof_ \/ Len(gen.chunk) = ChunkSize
        THEN Continue([gen EXCEPT !.read = IF gen.chunk = <<>> THEN "end" ELSE "split"])
        ELSE IF truncated(g) \/ corrupt(g) THEN Fail
        ELSE IF g.pos = size
        THEN Continue([done EXCEPT !.avail_in = 0, !.decompressed_eof_ = TRUE])
        ELSE Continue([g EXCEPT !.avail_in = 0, !.pos = @ + 1,
                                !.chunk = Append(@, at(file, g.pos))])
  /\ UNCHANGED <<vars, fixed>>

whole(data) == gen.partial \o data

StreamLine ==
  /\ streamed /\ gen.read = "split"
  /\ LET n == firstNewline(gen.chunk)
         left == SubSeq(gen.chunk, n + 1, Len(gen.chunk))
     IN IF n = 0
        THEN Continue([gen EXCEPT !.partial = whole(gen.chunk), !.chunk = <<>>,
                                  !.read = "chunk"])
        ELSE Yield(whole(SubSeq(gen.chunk, 1, n - 1)),
                   [gen EXCEPT !.partial = <<>>, !.chunk = left,
                               !.read = IF left = <<>> THEN "chunk" ELSE "split"])
  /\ UNCHANGED <<vars, fixed>>

\* At the end what is left is a line, if it is not empty.
StreamEnd ==
  /\ streamed /\ gen.read = "end"
  /\ IF gen.partial = <<>> THEN Return
     ELSE Yield(gen.partial, [gen EXCEPT !.partial = <<>>])
  /\ UNCHANGED <<vars, fixed>>

----------------------------------------------------------------------------
LogStep ==
  \/ Open \/ Search
  \/ PagedLine \/ PagedSpan \/ PagedEnd
  \/ PipeRead \/ ArchiveRead \/ StreamLine \/ StreamEnd

Over == stage \in {"done", "left", "error"}

LogNext == LogStep \/ (Over /\ UNCHANGED logVars)

LogSpec == LogInit /\ [][LogNext]_logVars /\ WF_logVars(LogStep)
----------------------------------------------------------------------------
\* The text of the line that begins at b, with where it ends.
LineEnds(b) == {e \in b..size : e = size \/ at(file, e) = Newline}
Text(b) ==
  LET e == CHOOSE x \in LineEnds(b) : \A y \in LineEnds(b) : x <= y
  IN SubSeq(file, b + 1, e)
Complete(b) == \E e \in LineEnds(b) : e < size

\* The lines a log has: a stream's last line needs no newline, a file's does.
LineBegins ==
  {b \in Begins(file) :
     IF mode \in Paged
     THEN Complete(b) /\ (mode # "file" => b \in from_pos..to_pos - 1)
     ELSE Complete(b) \/ Text(b) # <<>>}
Wanted == {b \in LineBegins : slots = "fields" => Parses(Text(b))}

\* Which of the wanted lines the one that begins at b is, counted from 1.
Number(b) == Cardinality({c \in Wanted : c <= b})

\* However lines, pages and chunks overlap, a record comes out for each line of
\* the range, in order and with its whole text, and nothing else does; when the
\* stream is ended none is missing.
LinesExact ==
  /\ stage \in {"push", "left", "done"} =>
       /\ Len(emitted) <= Cardinality(Wanted)
       /\ \A b \in Wanted : Number(b) <= Len(emitted) => emitted[Number(b)] = Text(b)
  /\ stage = "done" => ended /\ Len(emitted) = Cardinality(Wanted)

\* A stream or an archive that cannot be read to its end.
Damaged == flaw # npos \/ (mode = "archive" /\ csize = size)

\* A log is refused only for a reason: a line whose time or format cannot be
\* told; a range of nothing, of an archive, or by the time format of a type that
\* has none; a path that does not open; a command that fails; a corrupt or
\* truncated archive.  And a damaged log never ends like a complete one, nor
\* does a range without a time format, however much of it was read before.
FailsOnBadInput ==
  /\ stage = "error" =>
       \/ \E b \in Begins(file) : Stamps(file, b) = {}
       \/ mode = "range" /\ (~timed \/ ~\E b \in Begins(file) : Complete(b))
       \/ mode \in {"gzrange", "missing"} \/ Damaged
  /\ stage = "done" => ~Damaged /\ (mode = "range" => timed)

\* Opening and pushing a log end.
PushEnds == <>Over
=============================================================================
