--------------------------- MODULE ArchiveQueries ---------------------------
(***************************************************************************)
(* The algorithms of the must-gather tools (pkg/toolsets/mustgather): how a *)
(* log is searched and cut.  A line is its position and whether the filter  *)
(* matches it.                                                              *)
(***************************************************************************)
EXTENDS Naturals, SequencesExt

\* The scan of mustgatherPodLogsGrep: with a tail, the matches go into a ring
\* of that size and ringIdx is its oldest place once it is full.
EmptyRing == [lines |-> << >>, ringIdx |-> 0, total |-> 0]

\* Plausible mistake: the ring is read from its first place, not its oldest.
FirstPlaceFirst(ring, tail) == ring.lines

ScanLine(ring, line, tail) ==
    CASE ~ line.match -> ring
      [] line.match /\ (tail <= 0 \/ Len(ring.lines) < tail) ->
            [ring EXCEPT !.lines = Append(@, line), !.total = @ + 1]
      [] OTHER ->
            [ring EXCEPT !.lines[ring.ringIdx + 1] = line,
                         !.ringIdx = (@ + 1) % tail, !.total = @ + 1]

\* The lines in their order again.
Ordered(ring, tail) ==
    IF tail > 0 /\ Len(ring.lines) = tail
    THEN [i \in 1..tail |-> ring.lines[((ring.ringIdx + i - 1) % tail) + 1]]
    ELSE ring.lines

\* The search of a log: the lines read so far, the ring, and the matches seen.
StartSearch(tail) == [tail |-> tail, read |-> 0, ring |-> EmptyRing, matched |-> << >>]

\* One turn of the scanner's loop.  matched is a history variable.
ReadLine(search, match) ==
    LET line == [at |-> search.read + 1, match |-> match]
    IN  [search EXCEPT !.read = @ + 1,
                       !.ring = ScanLine(@, line, search.tail),
                       !.matched = IF match THEN Append(@, line) ELSE @]

\* What is answered when the log ends here.
mustgatherPodLogsGrep(search) ==
    [found |-> search.ring.total, lines |-> Ordered(search.ring, search.tail)]
=============================================================================
