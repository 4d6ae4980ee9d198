--------------------------- MODULE SpeakerWindows ---------------------------
(***************************************************************************)
(* The two grids of a diarization: the chunks cut from a recording and the *)
(* output frames their activity is added up on.                            *)
(*                                                                         *)
(*   src/coremlit/src/audio/speaker/window/mod.rs                          *)
(*   src/coremlit/src/audio/speaker/extract/mod.rs (derived sizes)         *)
(*   src/coremlit/src/audio/speaker/source/argmax/mod.rs (30 s windows)    *)
(*                                                                         *)
(* Times are whole samples: the code divides both durations by the same    *)
(* rate, and the error of its f64 quotients is left out.                   *)
(***************************************************************************)
EXTENDS Integers, FiniteSets, FiniteSetsExt

CONSTANTS
  ChunkSamples,    \* SEG_CHUNK_SAMPLES
  ChunkFrames,     \* frames the segmenter answers per chunk
  FrameStep,       \* FRAME_STEP_S, in samples
  FrameDuration,   \* FRAME_DURATION_S, in samples
  OuterWindows     \* ARGMAX_WINDOWS_PER_CHUNK

ASSUME WindowsAssumption ==
  /\ ChunkSamples \in Nat \ {0} /\ ChunkFrames \in Nat \ {0}
  /\ FrameStep \in Nat \ {0} /\ FrameDuration \in Nat \ {0}
  /\ OuterWindows \in Nat \ {0}

SlidingWindow == [start: Int, duration: Int, step: Int]

\* round_ties_even of n / d, d > 0.
RoundTiesEven(n, d) ==
  LET q == n \div d
      r == n % d
  IN IF 2 * r > d \/ (2 * r = d /\ q % 2 = 1) THEN q + 1 ELSE q

(***************************************************************************)
(* The chunk grid.                                                         *)
(***************************************************************************)
NumChunks(total, step) ==
  IF total <= ChunkSamples THEN 1
  ELSE (total - ChunkSamples + step - 1) \div step + 1

ChunkStart(c, step) == c * step

ChunkSlidingWindow(step) == [start |-> 0, duration |-> ChunkSamples, step |-> step]

FrameSlidingWindow == [start |-> 0, duration |-> FrameDuration, step |-> FrameStep]

(***************************************************************************)
(* The output frames.                                                      *)
(***************************************************************************)
NumOutputFrames(chunks, chunksSW, framesSW) ==
  RoundTiesEven(chunksSW.duration + (chunks - 1) * chunksSW.step, framesSW.step) + 1

\* Where the count puts chunk c's first frame: neither origin is read.
AggregateStart(c, chunksSW, framesSW) == RoundTiesEven(c * chunksSW.step, framesSW.step)

\* Where the reconstruction puts it: both are.
ReconstructStart(c, chunksSW, framesSW) ==
  RoundTiesEven(chunksSW.start + c * chunksSW.step - framesSW.start, framesSW.step)

Misaligned(chunks, chunksSW, framesSW) ==
  \E c \in 0..chunks - 1 :
    AggregateStart(c, chunksSW, framesSW) # ReconstructStart(c, chunksSW, framesSW)

UncoveredLastChunk(chunks, frames, output, chunksSW, framesSW) ==
  LET first == ReconstructStart(chunks - 1, chunksSW, framesSW)
  IN first >= 0 /\ output < first + frames

\* Centres are a step apart: they collapse only when a step is no step.
CollapsedCenter(output, framesSW) == output > 1 /\ framesSW.step <= 0

\* The cells <<c, f>> that fall on output frame t.
CellsAt(t, chunks, frames, chunksSW, framesSW) ==
  {<<c, t - AggregateStart(c, chunksSW, framesSW)>> :
     c \in {d \in 0..chunks - 1 :
              t - AggregateStart(d, chunksSW, framesSW) \in 0..frames - 1}}

\* What cells add up to, counted one by one.
Total(chunkCount, cells) ==
  Cardinality(UNION {{cell} \X (1..chunkCount[cell[1]][cell[2]]) : cell \in cells})

\* Every output frame takes the mean of the cells over it, none of them
\* standing for 0; cells that fall off the grid are skipped.
Aggregate(chunkCount, chunks, frames, chunksSW, framesSW) ==
  [t \in 0..NumOutputFrames(chunks, chunksSW, framesSW) - 1 |->
     LET cells == CellsAt(t, chunks, frames, chunksSW, framesSW)
     IN IF cells = {} THEN 0
        ELSE RoundTiesEven(Total(chunkCount, cells), Cardinality(cells))]

\* The samples of a recording that chunk c is cut from; the rest is padding.
Heard(c, total, step) ==
  {i \in 0..total - 1 : i - ChunkStart(c, step) \in 0..ChunkSamples - 1}

(***************************************************************************)
(* The thirty-second windows of the other segmenter.                       *)
(***************************************************************************)
\* ARGMAX_CHUNK_SAMPLES, ARGMAX_CHUNK_STRIDE_OFFSET and ARGMAX_CHUNK_HOP_SAMPLES
\* for a stride: the whole run of windows, the part a hop does not skip.
OuterSamples(stride) == ChunkSamples + (OuterWindows - 1) * stride
StrideOffset(stride) == ChunkSamples - stride
HopSamples(stride) == OuterSamples(stride) - StrideOffset(stride)

\* The loop of argmax_chunk_starts: outer chunk 0 is always there, k + 1 when
\* chunk k ends before the recording does.
NumOuter(total, stride) ==
  CHOOSE n \in 1..total + 1 :
    /\ (n - 1) * HopSamples(stride) + OuterSamples(stride) >= total
    /\ \A k \in 0..n - 2 : k * HopSamples(stride) + OuterSamples(stride) < total

OuterLength(k, total, stride) ==
  LET start == k * HopSamples(stride)
      left == IF start < total THEN total - start ELSE 0
  IN IF left < OuterSamples(stride) THEN left ELSE OuterSamples(stride)

WindowBounded(w, length, stride) ==
  w = 0 \/ w * stride + StrideOffset(stride) < length

GlobalChunk(k, w) == k * OuterWindows + w
=============================================================================
