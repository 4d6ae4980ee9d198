------------------------------ MODULE VadStream ------------------------------
(***************************************************************************)
(* The streaming Silero backend (CoreMlBackend of audio/vad): blocks of    *)
(* any size in, one probability out for each completed frame, a recurrent  *)
(* state carried from frame to frame, and a frame of padding at the end.   *)
(* Samples are numbered in the order of the stream, from 1; 0 is padding.  *)
(***************************************************************************)
EXTENDS Naturals, Sequences, SequencesExt

CONSTANTS
  FrameSize,     \* CHUNK_SAMPLES
  Blocks,        \* what a push may bring
  MaxSamples,    \* bound: samples of a stream
  MaxStreams     \* bound: streams, one after the other

ASSUME VadAssumption ==
  /\ FrameSize \in Nat \ {0} /\ Blocks \subseteq Nat /\ MaxSamples \in Nat /\ MaxStreams \in Nat

VARIABLES
  pending,   \* PCM that does not complete a frame
  emitted,   \* the frames whose probability reached the sink, and the sample
             \* before each, which is its window's context
  pushed,    \* the samples of the stream so far
  ended,     \* finish was called on the stream
  refused,   \* history: the samples of pushes that failed
  streams    \* history: the streams begun

vadVars == <<pending, emitted, pushed, ended, refused, streams>>

VadInit ==
  /\ pending = <<>> /\ emitted = <<>> /\ pushed = 0 /\ ended = FALSE
  /\ refused = {} /\ streams = 1

\* predict_chunk, over frames in a row: the last sample of one frame is the
\* next one's context; the first frame's is zero.
Context(before) == IF before = <<>> THEN 0 ELSE Last(Last(before).frame)
PredictAll(before, frames) ==
  FoldLeft(LAMBDA acc, f : Append(acc, [frame |-> f, context |-> Context(acc)]), before, frames)

Piece(block, from, k) == SubSeq(block, from + (k - 1) * FrameSize + 1, from + k * FrameSize)

\* The frames a push runs: the pending one, if the block completes it, and
\* whole ones straight off the block.
Completes(block) == pending # <<>> /\ Len(pending) + Len(block) >= FrameSize
Direct(block) == IF Completes(block) THEN FrameSize - Len(pending) ELSE 0
Whole(block) == (Len(block) - Direct(block)) \div FrameSize
FramesOf(block) ==
  (IF Completes(block) THEN <<pending \o SubSeq(block, 1, Direct(block))>> ELSE <<>>)
    \o [k \in 1..Whole(block) |-> Piece(block, Direct(block), k)]
IsShort(block) == pending # <<>> /\ ~Completes(block)
Remainder(block) == SubSeq(block, Direct(block) + Whole(block) * FrameSize + 1, Len(block))

Block(n) == [k \in 1..n |-> pushed + k]
MayPush(n) == ~ended /\ pushed + n <= MaxSamples

Push(n) ==
  LET block == Block(n)
  IN  /\ MayPush(n)
      /\ pushed' = pushed + n
      /\ IF IsShort(block)
           THEN pending' = pending \o block /\ UNCHANGED emitted
           ELSE /\ emitted' = PredictAll(emitted, FramesOf(block))
                /\ pending' = Remainder(block)
      /\ UNCHANGED <<ended, refused, streams>>

\* Slip: a frame that fails is dropped, whoever pushed its samples.
DropAfterFailure(block, k) == <<>>

\* A pending frame that fails stays, for the next call to run again.
AfterFailure(block, k) == IF k = 1 /\ Completes(block) THEN FramesOf(block)[1] ELSE <<>>

\* The k-th frame fails: what comes after it in the block is gone.
PushFails(n, k) ==
  LET block == Block(n)
      frames == FramesOf(block)
  IN  /\ MayPush(n) /\ ~IsShort(block) /\ k \in DOMAIN frames
      /\ pushed' = pushed + n
      /\ emitted' = PredictAll(emitted, SubSeq(frames, 1, k - 1))
      /\ pending' = AfterFailure(block, k)
      /\ refused' = refused \cup ToSet(block)
      /\ UNCHANGED <<ended, streams>>

Padded == pending \o [k \in 1 .. FrameSize - Len(pending) |-> 0]
Finish ==
  /\ ended' = TRUE /\ pending' = <<>>
  /\ emitted' = IF pending = <<>> THEN emitted ELSE PredictAll(emitted, <<Padded>>)
  /\ UNCHANGED <<pushed, refused, streams>>

\* The padding stays in what is pending.
FinishFails ==
  /\ pending # <<>>
  /\ ended' = TRUE /\ pending' = Padded
  /\ UNCHANGED <<emitted, pushed, refused, streams>>

\* A fresh stream, whatever became of the last.
ResetStream ==
  /\ streams < MaxStreams /\ streams' = streams + 1
  /\ pending' = <<>> /\ emitted' = <<>> /\ pushed' = 0 /\ ended' = FALSE /\ refused' = {}

VadNext ==
  \/ \E n \in Blocks : Push(n) \/ \E k \in 1 .. MaxSamples : PushFails(n, k)
  \/ Finish \/ FinishFails \/ ResetStream

-----------------------------------------------------------------------------
RealSamples(frame) == SelectSeq(frame, LAMBDA x : x # 0)
Heard == FlattenSeq([i \in DOMAIN emitted |-> RealSamples(emitted[i].frame)])
IsRun(samples) == \A k \in 2 .. Len(samples) : samples[k] = samples[k - 1] + 1

\* However the stream was cut into blocks and whatever failed, a frame that
\* reaches the sink is a run of the stream, after the one before it and in its
\* context, padded only at the end; a sample that did not come to the sink is
\* still pending, or came with a push that failed, which an earlier push's
\* samples never pay for; and what a failure did not touch is complete.
FramesFollowTheStream ==
  /\ \A i \in DOMAIN emitted :
       /\ Len(emitted[i].frame) = FrameSize
       /\ IsRun(RealSamples(emitted[i].frame))
       /\ emitted[i].context = (IF i = 1 THEN 0 ELSE Last(emitted[i - 1].frame))
       /\ 0 \in ToSet(emitted[i].frame) => ended /\ i = Len(emitted)
  /\ \A k \in 2 .. Len(Heard) : Heard[k - 1] < Heard[k]
  /\ (1 .. pushed) \ (ToSet(Heard) \cup ToSet(pending)) \subseteq refused
  /\ refused = {} /\ ~ended => Len(pending) < FrameSize
  /\ ended /\ pending = <<>> /\ refused = {} => Len(Heard) = pushed
=============================================================================
