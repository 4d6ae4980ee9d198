---------------------------- MODULE MCAudioStream ----------------------------
(***************************************************************************)
(* Small instances of AudioStream.                                         *)
(***************************************************************************)
EXTENDS AudioStream

CONSTANTS Short, Long

Piece(start, end) == [start |-> start, end |-> end]

\* Segments that follow one another, and one that is empty, one that ends before
\* it starts, and one that is rounded down and overlaps; the last may end past
\* the recording.
LastPiece == Piece(10, 16)
Pieces == {Piece(0, 5), Piece(4, 10), Piece(5, 5), Piece(9, 2)}

\* A pass returns nothing, or up to two segments in any order and the last one.
MCPassSegments(from, to) ==
  LET usable == {piece \in Pieces : from <= piece.start + Rounding}
      runs == UNION {[1..n -> usable] : n \in 0..2}
  IN  {<<>>} \cup (IF from < to /\ from <= 10
                        THEN {Append(run, LastPiece) : run \in runs} ELSE {})

\* The quotient is a frame short at some multiples of a frame, and a frame too
\* many just below one.
MCConsidered(n) ==
  n \div FrameSamples + (IF n \in Short THEN -1 ELSE IF n \in Long THEN 1 ELSE 0)
=============================================================================
