---------------------------- MODULE MCExtraction ----------------------------
(***************************************************************************)
(* Extractions of two slots, four frames a chunk: chunks of 13 samples on  *)
(* frames of 3; and calibrations.                                          *)
(***************************************************************************)
EXTENDS Extraction, Calibration

\* A segmenter's answer, frame by frame.
Slab(a, b, c, d) == [f \in Frames |-> CASE f = 0 -> a [] f = 1 -> b [] f = 2 -> c [] OTHER -> d]

\* Silence, a voice alone, one mostly under another, one both ways, one brief.
MCSlabs ==
  {Silence, Slab({0}, {0}, {0}, {}), Slab({0, 1}, {0, 1}, {0}, {}),
   Slab({0}, {1}, {1}, {0, 1}), Slab({1}, {}, {}, {})}

Good == [route |-> "fused", total |-> 16, step |-> 4, onsetOk |-> TRUE,
         maskFrames |-> ChunkFrames, slabs |-> MCSlabs, parts |-> <<>>]

\* A recording of one, two and three chunks, on the stride and off it.
Few == {Silence, Slab({0, 1}, {0, 1}, {0}, {}), Slab({0}, {1}, {1}, {0, 1})}
Recordings ==
  {[Good EXCEPT !.route = r, !.total = n] : r \in {"fused", "split", "argmax"}, n \in {9, 16}}
    \cup {[Good EXCEPT !.route = r, !.total = 18, !.slabs = Few] : r \in {"fused", "argmax"}}
    \cup {[Good EXCEPT !.step = 5, !.total = 23, !.slabs = Few \ {Silence}]}

Quiet == [Good EXCEPT !.slabs = {Slab({0}, {0}, {0}, {})}]

\* What is refused: options, models and geometries.
RefusedAsks ==
  LET odd == {[Quiet EXCEPT !.total = 0], [Quiet EXCEPT !.step = 0], [Quiet EXCEPT !.step = 14],
              [Quiet EXCEPT !.onsetOk = FALSE], [Quiet EXCEPT !.maskFrames = 5],
              [Quiet EXCEPT !.total = 40], [Quiet EXCEPT !.total = 22], [Quiet EXCEPT !.step = 1, !.total = 18]}
  IN odd \cup {[a EXCEPT !.route = "argmax"] : a \in odd}
         \cup {[a EXCEPT !.route = "split"] : a \in {o \in odd : o.step > 0}}

\* Parts of a caller's own: rows under silent columns, live columns without a
\* row, a count that is not theirs, a grid with an origin of its own.
TwoSlabs == {Slab({0}, {0}, {}, {}), Slab({0, 1}, {0, 1}, {0}, {})}
Handed(sw, s, r, off, b) ==
  LET g == [chunks |-> 2, chunksSW |-> sw, framesSW |-> FrameSlidingWindow]
      right == CountFromSegmentations(2, s, sw, FrameSlidingWindow)
      ct == CASE off = "none" -> <<>>
              [] off = "short" -> [t \in 0..2 |-> 0]
              [] off = "more" -> [right EXCEPT ![0] = @ + 1]
              [] OTHER -> right
  IN [Good EXCEPT !.route = "assembled", !.parts = ExtractionParts(g, s, r, ct, b)]

Chunking == ChunkSlidingWindow(4)
Assembled ==
  {Handed(sw, s, r, off, b) :
     sw \in {Chunking, [Chunking EXCEPT !.start = 2], [Chunking EXCEPT !.duration = 5]},
     s \in [0..1 -> TwoSlabs],
     r \in [0..1 -> {[x \in Slots |-> {0}], [x \in Slots |-> IF x = 0 THEN {0} ELSE {}]}],
     off \in {"none", "short", "more", "right"}, b \in {TRUE, FALSE}}
  \cup {[a EXCEPT !.parts.chunksSW.step = 0] :
          a \in {Handed(Chunking, [c \in 0..1 |-> Silence], [c \in 0..1 |-> NoRows], "right", TRUE)}}

MCAsks == {Quiet} \cup Recordings \cup RefusedAsks \cup Assembled

-----------------------------------------------------------------------------
(* Two scorings, two speakers, and cohorts of a few profiles.             *)
MCRowLength == [s \in Scorings |-> IF s = "identity" THEN 192 ELSE 256]
MCHeldOuts == {<<"plda", "plda">>, <<"cosine", "plda">>}

\* A recording is extracted, or cohorts are calibrated.
VARIABLE part
MCInit ==
  /\ Init /\ CalibrationInit
  /\ \/ part = "extraction"
     \/ part = "calibration" /\ ask = Quiet
MCNext ==
  /\ \/ part = "extraction" /\ Next /\ UNCHANGED calibrationVars
     \/ part = "calibration" /\ (CalibrationNext \/ UNCHANGED calibrationVars) /\ UNCHANGED vars
  /\ UNCHANGED part
MCSpec == MCInit /\ [][MCNext]_<<vars, calibrationVars, part>>

\* Calibrations alone.
CalibrationSpec == part = "calibration" /\ MCSpec

\* What is assembled is what was heard, on a grid that leaves nothing out.
ExtractionsHold == ExtractionHolds /\ GridIsWhole
=============================================================================
