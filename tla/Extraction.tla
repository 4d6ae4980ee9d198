----------------------------- MODULE Extraction -----------------------------
(***************************************************************************)
(* Who speaks when: a recording is cut into chunks, a segmenter says which *)
(* of a few local slots are active at each frame of a chunk, an embedder   *)
(* gives each active slot a voice, and the online clustering gives every   *)
(* voice a speaker.                                                        *)
(*                                                                         *)
(*   src/coremlit/src/audio/speaker/extract/mod.rs                         *)
(*   src/coremlit/src/audio/speaker/source/argmax/mod.rs                   *)
(*                                                                         *)
(* An Extraction is reached along four routes: the fused loop, the split   *)
(* loop a caller runs itself (failed calls repeated on the slab the failed *)
(* call has written to), the thirty-second source, and parts a caller put  *)
(* together. A slab gives each frame the set of its active slots; a row is *)
(* the set of frames it was pooled over, {} for the all-zero row.          *)
(***************************************************************************)
EXTENDS SpeakerWindows, Sequences

CONSTANTS
  NumSlots,          \* SEG_NUM_SLOTS
  MinClean,          \* EXCLUDE_OVERLAP_MIN_FRAMES
  MinActive,         \* ARGMAX_MIN_ACTIVE_FRAMES
  MaxOutputFrames, MaxChunks, MaxTensorBytes, \* the three caps of a geometry
  RowBytes,          \* EMBEDDING_DIM * 4
  MaxClusterId,      \* the reconstruction's last label
  OuterStride,       \* ARGMAX_WINDOW_STRIDE_SAMPLES
  Asks,              \* the calls: route, samples, step, options, models, and
                     \* what the segmenter may say of a chunk
  MaxRetries         \* bound: failed calls of the split route

ASSUME ExtractionAssumption ==
  /\ NumSlots \in Nat \ {0} /\ MinClean \in Nat /\ MinActive \in Nat
  /\ MaxClusterId \in Nat /\ MaxRetries \in Nat
  /\ OuterStride \in 1..ChunkSamples

Slots == 0..NumSlots - 1
Frames == 0..ChunkFrames - 1
None == -1
UNMATCHED == -2

VARIABLES
  ask,       \* the call being served
  at,        \* where it is
  grid,      \* num_chunks, chunks_sw and frames_sw
  heard,     \* history: the segmenter's answer for each chunk
  dull,      \* history: the <<c, s>> whose row could not reach the clustering
  slabs, rows, count, \* the tensors
  left,      \* chunks, outer chunks or slots still to do
  retries,
  outcome,   \* "none", "ok" or an error
  hard,      \* the label of each <<c, s>>
  created,   \* speakers of the online clusterer
  online     \* the clustered count

vars == <<ask, at, grid, heard, dull, slabs, rows, count, left, retries, outcome,
          hard, created, online>>
tensors == <<heard, dull, slabs, rows, count>>
clustering == <<hard, created, online>>

\* multilabel: a frame's class names at most two slots.
Powerset == {v \in SUBSET Slots : Cardinality(v) <= 2}

\* A call: samples and a step, the split route's a whole grid; of a chunk the
\* segmenter may say what multilabel can, a caller's parts say what they like.
ASSUME AsksAssumption ==
  \A a \in Asks :
    /\ a.route \in {"fused", "split", "argmax", "assembled"}
    /\ a.total \in Nat /\ a.step \in Nat /\ (a.route = "split" => a.step > 0)
    /\ a.slabs \subseteq [Frames -> Powerset]
    /\ a.route = "assembled" =>
         /\ a.parts.chunks \in Nat
         /\ a.parts.chunksSW \in SlidingWindow /\ a.parts.framesSW \in SlidingWindow
         /\ a.parts.slabs \in [0..a.parts.chunks - 1 -> [Frames -> SUBSET Slots]]
         /\ a.parts.rows \in [0..a.parts.chunks - 1 -> [Slots -> SUBSET Frames]]

Silence == [f \in Frames |-> {}]
NoRows == [s \in Slots |-> {}]

(***************************************************************************)
(* The embed stage of one chunk.                                           *)
(***************************************************************************)
Column(slab, s) == {f \in Frames : s \in slab[f]}
Speaking(slab) == {s \in Slots : Column(slab, s) # {}}
CleanFrames(slab) == {f \in Frames : Cardinality(slab[f]) < 2}

\* Which rows cannot reach the clustering is the voice's own affair.
Unreachable(slots) == SUBSET slots

\* Slip: a slot that is mostly overlap keeps its starved mask.
StarvedMask(slab, s) == Column(slab, s) \cap CleanFrames(slab)

\* The frames of a slot that nobody else speaks in, all of its frames when
\* those are too few.
SlotMask(slab, s) ==
  LET clean == Column(slab, s) \cap CleanFrames(slab)
  IN IF Cardinality(clean) <= MinClean THEN Column(slab, s) ELSE clean

SlotPlans(slab) == [s \in Speaking(slab) |-> SlotMask(slab, s)]

ZeroColumns(slab, gone) == [f \in Frames |-> slab[f] \ gone]

\* One batched call: a slot without a plan rides on the first planned mask.
Batch(plans) ==
  [s \in Slots |-> IF s \in DOMAIN plans THEN plans[s]
                   ELSE plans[Min(DOMAIN plans)]]

\* Only rows of planned slots that reach the clustering are copied out.
KeptRows(plans, drop) ==
  [s \in Slots |-> IF s \in DOMAIN plans \ drop THEN Batch(plans)[s] ELSE {}]

\* Every column without a row in the end is zeroed.
KeptSlab(slab, drop) == ZeroColumns(slab, (Slots \ Speaking(slab)) \cup drop)

\* What is left of a slab when the batched call failed: the skips are zeroed.
SkippedSlab(slab) == ZeroColumns(slab, Slots \ Speaking(slab))

(***************************************************************************)
(* The embed stage of the thirty-second source.                            *)
(***************************************************************************)
ActiveSpeakers(slab) == {s \in Slots : Cardinality(Column(slab, s)) > MinActive}

\* write_segmentations: slots under the gate stay silent, though the overlap
\* their frames make has already been taken out of the masks.
GatedSlab(slab) == ZeroColumns(slab, Slots \ ActiveSpeakers(slab))

GatedPlans(slab) == [s \in ActiveSpeakers(slab) |-> SlotMask(slab, s)]

(***************************************************************************)
(* The checks every route ends in.                                         *)
(***************************************************************************)
FirstRefusal(checks) ==
  LET bad == {i \in DOMAIN checks : checks[i][2]}
  IN IF bad = {} THEN "none" ELSE checks[Min(bad)][1]

Active(slab) == [f \in Frames |-> Cardinality(slab[f])]

CountFromSegmentations(chunks, slab, chunksSW, framesSW) ==
  Aggregate([c \in 0..chunks - 1 |-> Active(slab[c])],
            chunks, ChunkFrames, chunksSW, framesSW)

TensorBytes(chunks) == chunks * NumSlots * (RowBytes + 8 * ChunkFrames)

Usable(sw) == sw.duration > 0 /\ sw.step > 0

OutputOf(p) == NumOutputFrames(p.chunks, p.chunksSW, p.framesSW)

\* The tensors have the lengths the geometry derives, and the grid is no
\* longer than the cap.
Emptied(p) == p.chunks = 0 \/ p.count = <<>>
Unusable(p) == ~Usable(p.chunksSW) \/ ~Usable(p.framesSW)
Mislaid(p) == DOMAIN p.count # 0..OutputOf(p) - 1

\* The count and the activations would be put on different frames.
Displaced(p) == Misaligned(p.chunks, p.chunksSW, p.framesSW)

NotBinary(p) == ~p.binary

\* An active slot whose row cannot reach the clustering.
Rowless(p) ==
  \E c \in 0..p.chunks - 1 : \E s \in Speaking(p.slabs[c]) : p.rows[c][s] = {}

\* Every frame's count is the one its segmentations give.
Miscounted(p) ==
  p.count # CountFromSegmentations(p.chunks, p.slabs, p.chunksSW, p.framesSW)

Collapsed(p) == CollapsedCenter(OutputOf(p), p.framesSW)

Uncovered(p) ==
  UncoveredLastChunk(p.chunks, ChunkFrames, OutputOf(p), p.chunksSW, p.framesSW)

\* check_assembled_parts, in its order.
AssembledRefusal(p) ==
  IF Emptied(p) THEN "ZeroExtractionDimension"
  ELSE IF Unusable(p) THEN "InvalidSlidingWindow"
  ELSE IF Mislaid(p) THEN "ExtractionLenMismatch"
  ELSE FirstRefusal(<<<<"OutputFrameCountTooLarge", OutputOf(p) > MaxOutputFrames>>,
                      <<"MisalignedChunkPlacement", Displaced(p)>>,
                      <<"NonBinarySegmentation", NotBinary(p)>>,
                      <<"ActiveSlotWithoutEmbedding", Rowless(p)>>,
                      <<"CountNotSegmentationDerived", Miscounted(p)>>,
                      <<"CollapsedFrameCenter", Collapsed(p)>>,
                      <<"UncoveredLastChunk", Uncovered(p)>>>>)

ExtractionParts(g, slab, row, ct, binary) ==
  [chunks |-> g.chunks, chunksSW |-> g.chunksSW, framesSW |-> g.framesSW,
   slabs |-> slab, rows |-> row, count |-> ct, binary |-> binary]

(***************************************************************************)
(* What a call checks before any inference.                                *)
(***************************************************************************)
SizeChecks(total, step) ==
  LET chunks == NumChunks(total, step)
  IN <<<<"OutputFrameCountTooLarge",
         NumOutputFrames(chunks, ChunkSlidingWindow(step), FrameSlidingWindow) > MaxOutputFrames>>,
       <<"ExtractionChunkCountTooLarge", chunks > MaxChunks>>,
       <<"ExtractionTensorBytesTooLarge", TensorBytes(chunks) > MaxTensorBytes>>>>

MisplacedCheck(total, step) ==
  <<"MisalignedChunkPlacement",
    Misaligned(NumChunks(total, step), ChunkSlidingWindow(step), FrameSlidingWindow)>>

CoverCheck(total, step) ==
  LET chunks == NumChunks(total, step)
      sw == ChunkSlidingWindow(step)
  IN <<"UncoveredLastChunk",
       UncoveredLastChunk(chunks, ChunkFrames, NumOutputFrames(chunks, sw, FrameSlidingWindow),
                          sw, FrameSlidingWindow)>>

GeometryChecks(total, step) ==
  SizeChecks(total, step) \o <<MisplacedCheck(total, step), CoverCheck(total, step)>>

\* The stride is the model's own: its placement is not looked at again.
ArgmaxGeometryChecks(total, step) == Append(SizeChecks(total, step), CoverCheck(total, step))

FusedRefusal(a) ==
  LET early == FirstRefusal(<<
        <<"EmptySamples", a.total = 0>>,
        <<"ZeroStepSamples", a.step = 0>>,
        <<"StepSamplesExceedsWindow", a.step > ChunkSamples>>,
        <<"OnsetOutOfRange", ~a.onsetOk>>,
        <<"FrameCountMismatch", a.maskFrames # ChunkFrames>>>>)
  IN IF early # "none" THEN early ELSE FirstRefusal(GeometryChecks(a.total, a.step))

ArgmaxRefusal(a) ==
  LET early == FirstRefusal(<<
        <<"EmptySamples", a.total = 0>>,
        <<"UnsupportedStepSamples", a.step # OuterStride>>,
        <<"OnsetOutOfRange", ~a.onsetOk>>>>)
  IN IF early # "none" THEN early ELSE FirstRefusal(ArgmaxGeometryChecks(a.total, a.step))

\* The split route's caller brings whole chunks: only the onset and the slab's
\* length are looked at.
SplitRefusal(a) ==
  FirstRefusal(<<<<"OnsetOutOfRange", ~a.onsetOk>>,
                 <<"ExtractionLenMismatch", a.maskFrames # ChunkFrames>>>>)

Refusal(a) ==
  CASE a.route = "fused" -> FusedRefusal(a)
    [] a.route = "argmax" -> ArgmaxRefusal(a)
    [] OTHER -> "none"

(***************************************************************************)
(* The call.                                                               *)
(***************************************************************************)
NoGrid == [chunks |-> 0, chunksSW |-> FrameSlidingWindow, framesSW |-> FrameSlidingWindow]

Init ==
  /\ ask \in Asks /\ at = "called" /\ grid = NoGrid /\ left = {}
  /\ heard = <<>> /\ dull = {} /\ slabs = <<>> /\ rows = <<>> /\ count = <<>>
  /\ retries = 0 /\ outcome = "none"
  /\ hard = <<>> /\ created = 0 /\ online = <<>>

Fail(error) == outcome' = error /\ at' = "done"

\* A refused call has run no inference.
Refuse ==
  /\ at = "called" /\ ask.route # "assembled"
  /\ Refusal(ask) # "none" /\ Fail(Refusal(ask))
  /\ UNCHANGED <<ask, grid, tensors, left, retries, clustering>>

\* shared_plda_transform could not be built, or the thirty-second source finds
\* a sample that is not finite, or is no f16.
Unavailable ==
  /\ at = "called" /\ ask.route # "assembled" /\ Refusal(ask) = "none"
  /\ \/ Fail("PldaTransformUnavailable")
     \/ ask.route = "argmax" /\ Fail("Infer")
  /\ UNCHANGED <<ask, grid, tensors, left, retries, clustering>>

Begin ==
  /\ at = "called" /\ ask.route # "assembled" /\ Refusal(ask) = "none"
  /\ LET chunks == NumChunks(ask.total, ask.step)
     IN /\ grid' = [chunks |-> chunks, chunksSW |-> ChunkSlidingWindow(ask.step),
                    framesSW |-> FrameSlidingWindow]
        /\ slabs' = [c \in 0..chunks - 1 |-> Silence]
        /\ heard' = [c \in 0..chunks - 1 |-> Silence]
        /\ rows' = [c \in 0..chunks - 1 |-> NoRows]
        /\ left' = IF ask.route = "argmax" THEN 0..NumOuter(ask.total, ask.step) - 1
                   ELSE 0..chunks - 1
  /\ at' = "segment"
  /\ UNCHANGED <<ask, dull, count, retries, outcome, clustering>>

\* The segmenter answers for the next chunk: the fused loop embeds it at once,
\* the split loop when all of them are there.
SegmentChunk ==
  /\ at = "segment" /\ ask.route \in {"fused", "split"}
  /\ \E slab \in ask.slabs :
       LET c == Min(left)
       IN /\ heard' = [heard EXCEPT ![c] = slab]
          /\ slabs' = [slabs EXCEPT ![c] = slab]
          /\ IF ask.route = "fused" THEN at' = "embed" /\ left' = left
             ELSE IF left = {c} THEN at' = "embed" /\ left' = DOMAIN slabs
             ELSE at' = at /\ left' = left \ {c}
  /\ UNCHANGED <<ask, grid, dull, rows, count, retries, outcome, clustering>>

\* Chunk c's slots are embedded; drop are those whose row says nothing.
EmbedSlots(c, drop) ==
  /\ slabs' = [slabs EXCEPT ![c] = KeptSlab(slabs[c], drop)]
  /\ rows' = [rows EXCEPT ![c] = KeptRows(SlotPlans(slabs[c]), drop)]
  /\ dull' = dull \cup {<<c, s>> : s \in drop}
  /\ left' = left \ {c}

EmbedChunk ==
  /\ at = "embed" /\ ask.route = "fused"
  /\ \E drop \in Unreachable(Speaking(slabs[Min(left)])) : EmbedSlots(Min(left), drop)
  /\ at' = IF left' = {} THEN "assemble" ELSE "segment"
  /\ UNCHANGED <<ask, grid, heard, count, retries, outcome, clustering>>

\* extract_chunk_embeddings, for the chunks in the caller's own order.
ExtractChunkEmbeddings ==
  /\ at = "embed" /\ ask.route = "split" /\ SplitRefusal(ask) = "none"
  /\ \E c \in left : \E drop \in Unreachable(Speaking(slabs[c])) : EmbedSlots(c, drop)
  /\ at' = IF left' = {} THEN "assemble" ELSE at
  /\ UNCHANGED <<ask, grid, heard, count, retries, outcome, clustering>>

SplitRefused ==
  /\ at = "embed" /\ ask.route = "split"
  /\ SplitRefusal(ask) # "none" /\ Fail(SplitRefusal(ask))
  /\ UNCHANGED <<ask, grid, tensors, left, retries, clustering>>

\* The batched call fails after the skips were zeroed; the caller tries the
\* chunk again on the slab it has.
EmbedFailsAndIsRetried ==
  /\ at = "embed" /\ ask.route = "split" /\ SplitRefusal(ask) = "none"
  /\ retries < MaxRetries /\ retries' = retries + 1
  /\ \E c \in left : /\ Speaking(slabs[c]) # {}
                     /\ slabs' = [slabs EXCEPT ![c] = SkippedSlab(slabs[c])]
  /\ UNCHANGED <<ask, at, grid, heard, dull, rows, count, left, outcome, clustering>>

\* An inference that fails ends the fused loop, and the thirty-second one;
\* windows past the audio are masked and embedded like the others.
InferenceFails ==
  /\ \/ at = "segment"
     \/ /\ at = "embed" /\ ask.route = "fused" /\ Speaking(slabs[Min(left)]) # {}
     \/ /\ at = "embed" /\ ask.route = "argmax"
        /\ \E w \in 0..OuterWindows - 1 :
             LET c == GlobalChunk(Min(left), w)
             IN c \in DOMAIN heard => ActiveSpeakers(heard[c]) # {}
  /\ Fail("Infer")
  /\ UNCHANGED <<ask, grid, tensors, left, retries, clustering>>

BoundedWindows(k) ==
  {w \in 0..OuterWindows - 1 :
     WindowBounded(w, OuterLength(k, ask.total, ask.step), ask.step)}

BoundedChunks(k) == {GlobalChunk(k, w) : w \in BoundedWindows(k)}

SegmentOuter ==
  /\ at = "segment" /\ ask.route = "argmax"
  /\ \E said \in [BoundedChunks(Min(left)) -> ask.slabs] :
       /\ heard' = [c \in DOMAIN heard |->
                      IF c \in DOMAIN said THEN said[c] ELSE heard[c]]
       /\ slabs' = [c \in DOMAIN slabs |->
                      IF c \in DOMAIN said THEN GatedSlab(said[c]) ELSE slabs[c]]
  /\ at' = "embed"
  /\ UNCHANGED <<ask, grid, dull, rows, count, left, retries, outcome, clustering>>

EmbedOuter ==
  /\ at = "embed" /\ ask.route = "argmax"
  /\ LET here == BoundedChunks(Min(left))
     IN \E drop \in [here -> SUBSET Slots] :
          /\ \A c \in here : drop[c] \in Unreachable(ActiveSpeakers(heard[c]))
          /\ slabs' = [c \in DOMAIN slabs |->
                         IF c \in here THEN ZeroColumns(slabs[c], drop[c]) ELSE slabs[c]]
          /\ rows' = [c \in DOMAIN rows |->
                        IF c \in here THEN KeptRows(GatedPlans(heard[c]), drop[c])
                        ELSE rows[c]]
          /\ dull' = dull \cup UNION {{<<c, s>> : s \in drop[c]} : c \in here}
  /\ left' = left \ {Min(left)}
  /\ at' = IF left' = {} THEN "assemble" ELSE "segment"
  /\ UNCHANGED <<ask, grid, heard, count, retries, outcome, clustering>>

(***************************************************************************)
(* The Extraction.                                                         *)
(***************************************************************************)
Verdict(refusal) ==
  IF refusal = "none" THEN outcome' = "ok" /\ at' = "ready" ELSE Fail(refusal)

\* Slip: the count is derived from what the segmenter said.
CountOfHeard ==
  CountFromSegmentations(grid.chunks, heard, grid.chunksSW, grid.framesSW)

\* The count comes after the drops, from the columns they left.
SourceCount ==
  CountFromSegmentations(grid.chunks, slabs, grid.chunksSW, grid.framesSW)

\* assemble_checked, and the split caller's count_from_segmentations followed
\* by try_from_parts.
Assemble ==
  /\ at = "assemble"
  /\ count' = SourceCount
  /\ Verdict(AssembledRefusal(ExtractionParts(grid, slabs, rows, SourceCount, TRUE)))
  /\ UNCHANGED <<ask, grid, heard, dull, slabs, rows, left, retries, clustering>>

\* try_from_parts of parts nobody vouches for.
TryFromParts ==
  /\ at = "called" /\ ask.route = "assembled"
  /\ LET p == ask.parts
     IN /\ grid' = [chunks |-> p.chunks, chunksSW |-> p.chunksSW, framesSW |-> p.framesSW]
        /\ slabs' = p.slabs /\ rows' = p.rows /\ count' = p.count
        /\ Verdict(AssembledRefusal(p))
  /\ UNCHANGED <<ask, heard, dull, left, retries, clustering>>

(***************************************************************************)
(* diarize_online.                                                         *)
(***************************************************************************)
ChunkOf(i) == i \div NumSlots
SlotOf(i) == i % NumSlots

DiarizeOnline ==
  /\ at = "ready" /\ at' = "cluster"
  /\ hard' = [c \in 0..grid.chunks - 1 |-> [s \in Slots |-> UNMATCHED]]
  /\ left' = 0..grid.chunks * NumSlots - 1
  /\ heard' = <<>> /\ dull' = {} /\ retries' = 0 \* the histories end here
  /\ UNCHANGED <<ask, grid, slabs, rows, count, outcome, created, online>>

\* A slot that never speaks and an all-zero row are passed over.
FedSlot(c, s) == Column(slabs[c], s) # {} /\ rows[c][s] # {}

PassOver ==
  /\ at = "cluster" /\ left # {} /\ ~FedSlot(ChunkOf(Min(left)), SlotOf(Min(left)))
  /\ left' = left \ {Min(left)}
  /\ UNCHANGED <<ask, at, grid, tensors, retries, outcome, clustering>>

Label(i, k) == hard' = [hard EXCEPT ![ChunkOf(i)][SlotOf(i)] = k]

\* Assignment::New, ::Existing and ::Dropped.
AssignNew ==
  /\ at = "cluster" /\ left # {} /\ FedSlot(ChunkOf(Min(left)), SlotOf(Min(left)))
  /\ created' = created + 1
  /\ IF created > MaxClusterId
     THEN Fail("HardClustersIdAboveMax") /\ UNCHANGED <<hard, left>>
     ELSE Label(Min(left), created) /\ left' = left \ {Min(left)} /\ UNCHANGED <<at, outcome>>
  /\ UNCHANGED <<ask, grid, tensors, retries, online>>

AssignExisting ==
  /\ at = "cluster" /\ left # {} /\ FedSlot(ChunkOf(Min(left)), SlotOf(Min(left)))
  /\ \E k \in 0..created - 1 : Label(Min(left), k)
  /\ left' = left \ {Min(left)}
  /\ UNCHANGED <<ask, at, grid, tensors, retries, outcome, created, online>>

AssignDropped ==
  /\ at = "cluster" /\ left # {} /\ FedSlot(ChunkOf(Min(left)), SlotOf(Min(left)))
  /\ left' = left \ {Min(left)}
  /\ UNCHANGED <<ask, at, grid, tensors, retries, outcome, clustering>>

LabelsAt(c, f) == {hard[c][s] : s \in slabs[c][f]} \ {UNMATCHED}

\* Slip: local slots are counted where clusters should be.
SlotsAt(c) == [f \in Frames |-> Cardinality(slabs[c][f])]

ClustersAt(c) == [f \in Frames |-> Cardinality(LabelsAt(c, f))]

CountClusters ==
  /\ at = "cluster" /\ left = {} /\ at' = "done"
  /\ IF NumOutputFrames(grid.chunks, grid.chunksSW, grid.framesSW) # Cardinality(DOMAIN count)
     THEN outcome' = "CountLenMismatch" /\ UNCHANGED online
     ELSE /\ online' = Aggregate([c \in 0..grid.chunks - 1 |-> ClustersAt(c)],
                                 grid.chunks, ChunkFrames, grid.chunksSW, grid.framesSW)
          /\ UNCHANGED outcome
  /\ UNCHANGED <<ask, grid, tensors, left, retries, hard, created>>

Done == at = "done" /\ UNCHANGED vars

Next ==
  \/ Refuse \/ Unavailable \/ Begin \/ SegmentChunk \/ EmbedChunk
  \/ ExtractChunkEmbeddings \/ SplitRefused \/ EmbedFailsAndIsRetried \/ InferenceFails
  \/ SegmentOuter \/ EmbedOuter \/ Assemble \/ TryFromParts
  \/ DiarizeOnline \/ PassOver \/ AssignNew \/ AssignExisting \/ AssignDropped
  \/ CountClusters \/ Done

Spec == Init /\ [][Next]_vars

(***************************************************************************)
(* Properties.                                                             *)
(***************************************************************************)
Sourced == ask.route # "assembled"

\* The least activity of a slot that is heard at all.
Gate == IF ask.route = "argmax" THEN MinActive ELSE 0

TypeOK ==
  /\ ask \in Asks /\ retries \in 0..MaxRetries
  /\ at \in {"called", "segment", "embed", "assemble", "ready", "cluster", "done"}
  /\ \A c \in DOMAIN slabs : slabs[c] \in [Frames -> IF Sourced THEN Powerset ELSE SUBSET Slots]
  /\ \A c \in DOMAIN rows : rows[c] \in [Slots -> SUBSET Frames]
  /\ DOMAIN slabs = DOMAIN rows
  /\ created \in 0..MaxClusterId + 2

\* An extraction holds what was heard, whichever route built it and whatever
\* failed and was tried again on the way: a slot is live exactly when the
\* segmenter heard enough of it and its row reached the clustering, its column
\* is then the segmenter's own and its row pools the frames it spoke alone in
\* or, when those are too few, all of its frames; a slot that was dropped
\* leaves neither a column nor a row (extract/mod.rs:3760 "cannot drift",
\* :1286 of the split route).
WhatWasHeard ==
  (at = "ready" /\ Sourced) =>
    \A c \in DOMAIN slabs, s \in Slots :
      LET said == Column(heard[c], s)
          alone == {f \in said : heard[c][f] = {s}}
          live == Cardinality(said) > Gate /\ <<c, s>> \notin dull
      IN /\ Column(slabs[c], s) = IF live THEN said ELSE {}
         /\ rows[c][s] = IF ~live THEN {}
                         ELSE IF Cardinality(alone) > MinClean THEN alone ELSE said

\* No source is refused by the checks it shares with the caller's own parts
\* once it has begun to infer: a fused or thirty-second extraction then fails
\* by an inference alone, and a split one for its options, or by one of the
\* checks of the geometry the fused call makes before any inference
\* (extract/mod.rs:2431, 3019-3022: "how ArgmaxSource came to emit an
\* extraction this constructor refuses").
ProducersAreNotRefused ==
  (Sourced /\ grid # NoGrid /\ at = "done") =>
    \/ outcome \in {"ok", "Infer", "HardClustersIdAboveMax"}
    \/ /\ ask.route = "split"
       /\ \/ outcome = SplitRefusal(ask)
          \/ \E i \in 1..5 : GeometryChecks(ask.total, ask.step)[i] = <<outcome, TRUE>>

\* The extraction's invariant.
ExtractionHolds == TypeOK /\ WhatWasHeard /\ ProducersAreNotRefused

\* No phantom speaker: a frame counts no more speakers than there are clusters
\* with a live slot over that very frame, in the place the reconstruction puts
\* it, so that no cluster is marked active where none of its slots spoke; and
\* the labels are those of speakers the clusterer made, with none left out
\* (extract/mod.rs:3443-3455, 3555).
NoPhantomSpeaker ==
  (at = "done" /\ outcome = "ok") =>
    /\ {hard[c][s] : c \in DOMAIN hard, s \in Slots} \ {UNMATCHED} = 0..created - 1
    /\ \A t \in DOMAIN online :
         online[t] <= Cardinality(UNION
           {LabelsAt(cf[1], cf[2]) :
              cf \in {of \in (0..grid.chunks - 1) \X Frames :
                       ReconstructStart(of[1], grid.chunksSW, grid.framesSW) + of[2] = t}})

\* The grid leaves no sample out and no chunk without a sample of its own; the
\* bounded windows of the thirty-second source are those very chunks, each
\* once and at its start; and every frame of a chunk has its output frame
\* (window/mod.rs:683, source/argmax/mod.rs:862 "the module doc's grid
\* theorem", extract/mod.rs:1070).
GridIsWhole ==
  (Sourced /\ grid # NoGrid /\ FusedRefusal(ask) = "none") =>
    /\ \A i \in 0..ask.total - 1 : \E c \in 0..grid.chunks - 1 : i \in Heard(c, ask.total, ask.step)
    /\ \A c \in 1..grid.chunks - 1 :
         ~(Heard(c, ask.total, ask.step) \subseteq Heard(c - 1, ask.total, ask.step))
    /\ ask.route = "argmax" =>
         LET windows == {kw \in (0..NumOuter(ask.total, ask.step) - 1) \X (0..OuterWindows - 1) :
                           kw[2] \in BoundedWindows(kw[1])}
         IN /\ {GlobalChunk(kw[1], kw[2]) : kw \in windows} = 0..grid.chunks - 1
            /\ Cardinality(windows) = grid.chunks
            /\ \A kw \in windows : ChunkStart(GlobalChunk(kw[1], kw[2]), ask.step)
                                     = kw[1] * HopSamples(ask.step) + kw[2] * ask.step
    /\ \A c \in 0..grid.chunks - 1, f \in Frames :
         ReconstructStart(c, grid.chunksSW, grid.framesSW) + f
           \in 0..NumOutputFrames(grid.chunks, grid.chunksSW, grid.framesSW) - 1
=============================================================================
