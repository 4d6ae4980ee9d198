------------------------------- MODULE Chunker -------------------------------
(***************************************************************************)
(* Where audio is cut: the clips a caller asks for, the window a clip      *)
(* opens, and where a stretch longer than a window is split.  Positions    *)
(* are samples.                                                            *)
(***************************************************************************)
EXTENDS Integers, Sequences, SequencesExt

CONSTANTS
  Window,        \* window_samples
  WindowPadding, \* window_clip_time, in samples
  ChunkPadding   \* VadChunker's window padding
ASSUME ChunkerAssumption ==
  Window \in Nat \ {0, 1} /\ WindowPadding \in Nat /\ ChunkPadding \in Nat \ {0}

Monus(a, b) == IF a <= b THEN 0 ELSE a - b

\* A negative or non-finite timestamp is refused.
ClipsRefused(points) == \E i \in DOMAIN points : points[i] < 0

\* The timestamps in pairs: none is the whole content, an odd one runs to its
\* end.  Neither order nor bounds are checked.
SeekClips(points, content) ==
  LET begun == IF points = <<>> THEN <<0>> ELSE points
      even == IF Len(begun) % 2 = 1 THEN Append(begun, content) ELSE begun
  IN  [i \in 1..(Len(even) \div 2) |-> [start |-> even[2*i - 1], end |-> even[2*i]]]

\* Slip: Swift's guard, which a clip under the padding never passes.
OpensWindowPadded(seek, clipEnd, first) == seek < Monus(clipEnd, WindowPadding)

OpensWindow(seek, clipEnd, first) ==
  seek < clipEnd /\ (first \/ seek < Monus(clipEnd, WindowPadding))

SegmentSize(seek, clipEnd, content) ==
  Min({Window, Monus(content, seek), Monus(clipEnd, seek)})

\* A clip's longer stretches are cut while more than the padding is left.
CutsAgain(start, clipEnd, content) ==
  start < clipEnd - ChunkPadding /\ start < content

NeedsSplit(start, clipEnd) == start + Window < clipEnd

\* The middle of a silence of the window's second half, or its end.
Splits(start, content) ==
  LET end == Min({content, start + Window})
  IN  (start + (end - start) \div 2)..end
=============================================================================
