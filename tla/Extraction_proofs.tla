-------------------------- MODULE Extraction_proofs --------------------------
(***************************************************************************)
(* Proofs about extractions, the diarization that follows one, and the     *)
(* calibrations beside them.                                               *)
(*                                                                         *)
(* The extraction's invariant says of every chunk how far it has come:     *)
(* untold, segmented, or embedded as it was heard; and of the grid that it *)
(* is the call's own.  What the checks of an Extraction refuse then does   *)
(* not happen to a source, and no sample is left out by its grid.  The     *)
(* clustering's adds that the slots still to do have no label, that the    *)
(* labels are the speakers made so far, and that the count and the         *)
(* reconstruction agree on where a chunk begins.                           *)
(***************************************************************************)
EXTENDS MCExtraction, Selections_proofs

-----------------------------------------------------------------------------
(* Slabs: columns, what zeroing leaves of them, and who is heard alone.    *)

Slab0 == [Frames -> Powerset]

LEMMA FramesAreFinite ==
  /\ IsFiniteSet(Frames) /\ \A S \in SUBSET Frames : IsFiniteSet(S) /\ Cardinality(S) \in Nat
  /\ IsFiniteSet(Slots) /\ \A S \in SUBSET Slots : IsFiniteSet(S) /\ Cardinality(S) \in Nat
<1>1. \A n \in Nat : IsFiniteSet(0..n - 1)
  BY FS_Interval
<1>2. IsFiniteSet(Frames) /\ IsFiniteSet(Slots)
  BY <1>1, WindowsAssumption, ExtractionAssumption DEF Frames, Slots
<1>3. QED
  BY <1>2, FS_Subset, FS_CardinalityType

LEMMA SilenceIsASlab == Silence \in Slab0
<1>1. {} \in Powerset
  BY FS_EmptySet DEF Powerset
<1>2. QED
  BY <1>1 DEF Silence, Slab0

LEMMA ZeroedSlabs ==
  ASSUME NEW slab \in Slab0, NEW gone
  PROVE  /\ ZeroColumns(slab, gone) \in Slab0
         /\ \A s \in Slots : Column(ZeroColumns(slab, gone), s) =
                               IF s \in gone THEN {} ELSE Column(slab, s)
<1>1. ASSUME NEW f \in Frames PROVE slab[f] \ gone \in Powerset
  <2>1. slab[f] \in SUBSET Slots /\ Cardinality(slab[f]) <= 2
    BY DEF Slab0, Powerset
  <2>2. slab[f] \ gone \in SUBSET Slots
    BY <2>1
  <2>3. IsFiniteSet(slab[f]) /\ Cardinality(slab[f]) \in Nat /\ Cardinality(slab[f] \ gone) \in Nat
    BY <2>1, <2>2, FramesAreFinite
  <2>4. Cardinality(slab[f] \ gone) <= Cardinality(slab[f])
    BY <2>3, FS_Subset
  <2>5. QED
    BY <2>1, <2>2, <2>3, <2>4 DEF Powerset
<1>2. ZeroColumns(slab, gone) \in Slab0
  BY <1>1 DEF ZeroColumns, Slab0
<1>3. QED
  BY <1>2 DEF ZeroColumns, Column

LEMMA ColumnsAreFrames ==
  ASSUME NEW slab, NEW s
  PROVE  /\ Column(slab, s) \subseteq Frames /\ Cardinality(Column(slab, s)) \in Nat
         /\ (Column(slab, s) = {}) = (Cardinality(Column(slab, s)) = 0)
<1>1. Column(slab, s) \subseteq Frames
  BY DEF Column
<1>2. QED
  BY <1>1, FramesAreFinite, FS_EmptySet

\* The frames nobody else speaks in are those of the slot alone.
LEMMA CleanIsAlone ==
  ASSUME NEW slab \in Slab0, NEW s \in Slots
  PROVE  Column(slab, s) \cap CleanFrames(slab) = {f \in Column(slab, s) : slab[f] = {s}}
<1>1. ASSUME NEW f \in Frames, s \in slab[f]
      PROVE  (Cardinality(slab[f]) < 2) = (slab[f] = {s})
  <2>1. slab[f] \in SUBSET Slots /\ IsFiniteSet(slab[f]) /\ Cardinality(slab[f]) \in Nat
    BY FramesAreFinite DEF Slab0, Powerset
  <2>2. Cardinality({s}) = 1
    BY FS_Singleton
  <2>3. ASSUME Cardinality(slab[f]) < 2 PROVE slab[f] = {s}
    <3>1. {s} \subseteq slab[f]
      BY <1>1
    <3>2. Cardinality({s}) <= Cardinality(slab[f])
          /\ (Cardinality({s}) = Cardinality(slab[f]) => {s} = slab[f])
      BY <2>1, <3>1, FS_Subset
    <3>3. QED
      BY <2>1, <2>2, <2>3, <3>2
  <2>4. QED
    BY <2>2, <2>3
<1>2. QED
  BY <1>1 DEF Column, CleanFrames

\* A chunk once it is embedded, and the slots there are with enough to hear.
Loud(slab, gate) == {s \in Slots : Cardinality(Column(slab, s)) > gate}
EmbeddedAs(said, slab, row, gone, gate) ==
  \A s \in Slots :
    LET column == Column(said, s)
        alone == {f \in column : said[f] = {s}}
        live == Cardinality(column) > gate /\ s \notin gone
    IN /\ Column(slab, s) = IF live THEN column ELSE {}
       /\ row[s] = IF ~live THEN {} ELSE IF Cardinality(alone) > MinClean THEN alone ELSE column

LEMMA EmbeddingKeepsTheWord ==
  ASSUME NEW said \in Slab0, NEW slab, NEW drop, NEW gone, NEW gate, NEW plans,
         \A s \in Slots : Column(slab, s) = IF s \in Loud(said, gate) \ drop THEN Column(said, s) ELSE {},
         plans = [s \in Loud(said, gate) |-> SlotMask(said, s)],
         \A s \in Slots : (s \in gone) = (s \in drop)
  PROVE  EmbeddedAs(said, slab, KeptRows(plans, drop), gone, gate)
<1> SUFFICES ASSUME NEW s \in Slots
             PROVE  LET column == Column(said, s)
                        alone == {f \in column : said[f] = {s}}
                        live == Cardinality(column) > gate /\ s \notin gone
                    IN /\ Column(slab, s) = IF live THEN column ELSE {}
                       /\ KeptRows(plans, drop)[s] =
                            IF ~live THEN {} ELSE IF Cardinality(alone) > MinClean THEN alone ELSE column
  BY DEF EmbeddedAs
<1> DEFINE column == Column(said, s)
           alone == {f \in column : said[f] = {s}}
           live == Cardinality(column) > gate /\ s \notin gone
<1>1. live = (s \in Loud(said, gate) \ drop)
  BY DEF Loud
<1>2. SlotMask(said, s) = IF Cardinality(alone) > MinClean THEN alone ELSE column
  <2>1. SlotMask(said, s) = IF Cardinality(alone) <= MinClean THEN column ELSE alone
    BY CleanIsAlone DEF SlotMask
  <2>2. Cardinality(alone) \in Nat
    BY FramesAreFinite DEF Column
  <2>3. QED
    BY <2>1, <2>2, ExtractionAssumption
<1>3. KeptRows(plans, drop)[s] = IF s \in Loud(said, gate) \ drop THEN SlotMask(said, s) ELSE {}
  <2>1. CASE s \in Loud(said, gate) \ drop
    <3>1. s \in DOMAIN plans \ drop
      BY <2>1
    <3>2. Batch(plans)[s] = plans[s]
      BY <3>1 DEF Batch
    <3>3. KeptRows(plans, drop)[s] = Batch(plans)[s]
      BY <3>1 DEF KeptRows
    <3>4. QED
      BY <2>1, <3>2, <3>3
  <2>2. CASE s \notin Loud(said, gate) \ drop
    <3>1. s \notin DOMAIN plans \ drop
      BY <2>2
    <3>2. KeptRows(plans, drop)[s] = {}
      BY <3>1 DEF KeptRows
    <3>3. QED
      BY <2>2, <3>2
  <2>3. QED
    BY <2>1, <2>2
<1> HIDE DEF column, alone, live
<1>4. QED
  BY <1>1, <1>2, <1>3 DEF column, alone, live
LEMMA RowsOfEmbedded ==
  ASSUME NEW said, NEW slab, NEW plans, NEW drop, NEW gone, NEW gate,
         EmbeddedAs(said, slab, KeptRows(plans, drop), gone, gate)
  PROVE  KeptRows(plans, drop) \in [Slots -> SUBSET Frames]
<1>1. ASSUME NEW s \in Slots PROVE KeptRows(plans, drop)[s] \in SUBSET Frames
  <2>1. Column(said, s) \subseteq Frames
    BY DEF Column
  <2>2. KeptRows(plans, drop)[s] \subseteq Column(said, s)
    BY DEF EmbeddedAs
  <2>3. QED
    BY <2>1, <2>2
<1>2. KeptRows(plans, drop) = [s \in Slots |-> KeptRows(plans, drop)[s]]
  BY DEF KeptRows
<1>3. QED
  BY <1>1, <1>2

LEMMA SlotsAreEmbedded ==
  ASSUME NEW said \in Slab0, NEW drop \in SUBSET Speaking(said), NEW gone,
         \A s \in Slots : (s \in gone) = (s \in drop)
  PROVE  /\ KeptSlab(said, drop) \in Slab0
         /\ KeptRows(SlotPlans(said), drop) \in [Slots -> SUBSET Frames]
         /\ EmbeddedAs(said, KeptSlab(said, drop), KeptRows(SlotPlans(said), drop), gone, 0)
<1>1. Speaking(said) = Loud(said, 0)
  BY ColumnsAreFrames DEF Speaking, Loud
<1>2. SlotPlans(said) = [s \in Loud(said, 0) |-> SlotMask(said, s)]
  BY <1>1 DEF SlotPlans
<1>3. /\ KeptSlab(said, drop) \in Slab0
      /\ \A s \in Slots : Column(KeptSlab(said, drop), s) =
           IF s \in Loud(said, 0) \ drop THEN Column(said, s) ELSE {}
  BY <1>1, ZeroedSlabs DEF KeptSlab
<1>4. EmbeddedAs(said, KeptSlab(said, drop), KeptRows(SlotPlans(said), drop), gone, 0)
  BY <1>2, <1>3, EmbeddingKeepsTheWord
<1>5. QED
  BY <1>3, <1>4, RowsOfEmbedded

LEMMA GatedAreEmbedded ==
  ASSUME NEW said \in Slab0, NEW drop \in SUBSET ActiveSpeakers(said), NEW gone,
         \A s \in Slots : (s \in gone) = (s \in drop)
  PROVE  /\ ZeroColumns(GatedSlab(said), drop) \in Slab0
         /\ KeptRows(GatedPlans(said), drop) \in [Slots -> SUBSET Frames]
         /\ EmbeddedAs(said, ZeroColumns(GatedSlab(said), drop), KeptRows(GatedPlans(said), drop),
                       gone, MinActive)
<1>1. ActiveSpeakers(said) = Loud(said, MinActive)
  BY DEF ActiveSpeakers, Loud
<1>2. GatedPlans(said) = [s \in Loud(said, MinActive) |-> SlotMask(said, s)]
  BY <1>1 DEF GatedPlans
<1>3. /\ GatedSlab(said) \in Slab0
      /\ \A s \in Slots : Column(GatedSlab(said), s) =
           IF s \in Loud(said, MinActive) THEN Column(said, s) ELSE {}
  BY <1>1, ZeroedSlabs DEF GatedSlab
<1>4. /\ ZeroColumns(GatedSlab(said), drop) \in Slab0
      /\ \A s \in Slots : Column(ZeroColumns(GatedSlab(said), drop), s) =
           IF s \in Loud(said, MinActive) \ drop THEN Column(said, s) ELSE {}
  BY <1>3, ZeroedSlabs
<1>5. EmbeddedAs(said, ZeroColumns(GatedSlab(said), drop), KeptRows(GatedPlans(said), drop),
                 gone, MinActive)
  BY <1>2, <1>4, EmbeddingKeepsTheWord
<1>6. QED
  BY <1>4, <1>5, RowsOfEmbedded

\* A failed call leaves a slab as it was: what it zeroed was silent.
LEMMA SkippingChangesNothing ==
  ASSUME NEW slab \in Slab0
  PROVE  SkippedSlab(slab) = slab
<1>1. ASSUME NEW f \in Frames PROVE slab[f] \ (Slots \ Speaking(slab)) = slab[f]
  <2>1. slab[f] \in SUBSET Slots
    BY DEF Slab0, Powerset
  <2>2. \A s \in slab[f] : s \in Speaking(slab)
    BY <2>1 DEF Speaking, Column
  <2>3. QED
    BY <2>1, <2>2
<1>2. SkippedSlab(slab) = [f \in Frames |-> slab[f] \ (Slots \ Speaking(slab))]
  BY DEF SkippedSlab, ZeroColumns
<1>3. slab = [f \in Frames |-> slab[f]]
  BY DEF Slab0
<1>4. QED
  BY <1>1, <1>2, <1>3

LEMMA SilenceIsEmbedded ==
  ASSUME NEW gone, NEW gate \in Nat
  PROVE  EmbeddedAs(Silence, Silence, NoRows, gone, gate)
<1>1. \A s \in Slots : Column(Silence, s) = {}
  BY DEF Column, Silence
<1>2. Cardinality({}) = 0
  BY FS_EmptySet
<1>3. QED
  BY <1>1, <1>2 DEF EmbeddedAs, NoRows

\* An embedded chunk has a row for every slot that speaks in it.
LEMMA EmbeddedHasRows ==
  ASSUME NEW said \in Slab0, NEW slab, NEW row, NEW gone, NEW gate \in Nat,
         EmbeddedAs(said, slab, row, gone, gate), NEW s \in Speaking(slab)
  PROVE  row[s] # {}
<1> DEFINE column == Column(said, s)
           alone == {f \in column : said[f] = {s}}
<1>1. s \in Slots /\ Column(slab, s) # {}
  BY DEF Speaking
<1>2. /\ column # {}
      /\ row[s] = IF Cardinality(alone) > MinClean THEN alone ELSE column
  BY <1>1 DEF EmbeddedAs
<1> HIDE DEF column, alone
<1>3. Cardinality(alone) > MinClean => alone # {}
  <2>1. Cardinality({}) = 0 /\ MinClean \in Nat
    BY FS_EmptySet, ExtractionAssumption
  <2>2. CASE alone = {}
    BY <2>1, <2>2
  <2>3. CASE alone # {}
    BY <2>3
  <2>4. QED
    BY <2>2, <2>3
<1>4. QED
  BY <1>2, <1>3

-----------------------------------------------------------------------------
(* Checks: the first that holds is the one refused for.                    *)

LEMMA FirstRefusalFacts ==
  ASSUME NEW n \in Nat, NEW checks, DOMAIN checks = 1..n
  PROVE  \/ FirstRefusal(checks) = "none" /\ \A i \in 1..n : ~checks[i][2]
         \/ \E i \in 1..n : /\ checks[i][2] /\ FirstRefusal(checks) = checks[i][1]
                            /\ \A j \in 1..n : j < i => ~checks[j][2]
<1> DEFINE bad == {i \in DOMAIN checks : checks[i][2]}
<1>1. FirstRefusal(checks) = IF bad = {} THEN "none" ELSE checks[Min(bad)][1]
  BY Zenon DEF FirstRefusal
<1>2. CASE bad = {}
  BY <1>1, <1>2
<1>3. CASE bad # {}
  <2>1. bad \in SUBSET Nat
    OBVIOUS
  <2>2. Min(bad) \in bad /\ \A j \in bad : Min(bad) <= j
    BY <1>3, <2>1, MinOfNaturals
  <2>3. PICK first \in bad : first = Min(bad) /\ \A j \in bad : first <= j
    BY <2>2
  <2>4. first \in 1..n /\ checks[first][2] /\ FirstRefusal(checks) = checks[first][1]
    BY <1>1, <1>3, <2>3
  <2>5. ASSUME NEW j \in 1..n, j < first PROVE ~checks[j][2]
    <3>1. j \in Nat /\ first \in Nat /\ ~(first <= j) /\ j \in DOMAIN checks
      BY <2>4, <2>5
    <3>2. j \notin bad
      BY <2>3, <3>1
    <3>3. QED
      BY <3>1, <3>2
  <2>6. QED
    BY <2>4, <2>5
<1>4. QED
  BY <1>2, <1>3

-----------------------------------------------------------------------------
(* The grids. *)

LEMMA Products == \A a, b \in Nat : a * b \in Nat
  OBVIOUS

LEMMA RoundedIsNatural ==
  ASSUME NEW n \in Nat, NEW d \in Nat \ {0}
  PROVE  RoundTiesEven(n, d) \in Nat
  BY Quotients DEF RoundTiesEven

LEMMA ChunksOfARecording ==
  ASSUME NEW total \in Nat, NEW step \in Nat \ {0}
  PROVE  NumChunks(total, step) \in Nat \ {0}
<1>1. CASE total <= ChunkSamples
  BY <1>1 DEF NumChunks
<1>2. CASE ~(total <= ChunkSamples)
  <2>1. total - ChunkSamples + step - 1 \in Nat
    BY <1>2, WindowsAssumption
  <2>2. (total - ChunkSamples + step - 1) \div step \in Nat
    BY <2>1, Quotients
  <2>3. QED
    BY <1>2, <2>2 DEF NumChunks
<1>3. QED
  BY <1>1, <1>2

\* The output frames of a grid of whole chunks, and where it puts them.
LEMMA FramesOfARecording ==
  ASSUME NEW chunks \in Nat \ {0}, NEW step \in Nat \ {0}
  PROVE  /\ NumOutputFrames(chunks, ChunkSlidingWindow(step), FrameSlidingWindow) \in Nat \ {0}
         /\ \A c \in Nat :
              /\ AggregateStart(c, ChunkSlidingWindow(step), FrameSlidingWindow) = RoundTiesEven(c * step, FrameStep)
              /\ ReconstructStart(c, ChunkSlidingWindow(step), FrameSlidingWindow) = RoundTiesEven(c * step, FrameStep)
              /\ RoundTiesEven(c * step, FrameStep) \in Nat
         /\ ~Misaligned(chunks, ChunkSlidingWindow(step), FrameSlidingWindow)
<1>1. /\ ChunkSlidingWindow(step).start = 0 /\ ChunkSlidingWindow(step).duration = ChunkSamples
      /\ ChunkSlidingWindow(step).step = step
      /\ FrameSlidingWindow.start = 0 /\ FrameSlidingWindow.step = FrameStep
  BY DEF ChunkSlidingWindow, FrameSlidingWindow
<1>2. (chunks - 1) * step \in Nat /\ \A c \in Nat : c * step \in Nat
  BY Products
<1>3. PICK reach \in Nat : reach = ChunkSamples + (chunks - 1) * step
  BY <1>2, WindowsAssumption
<1>4. RoundTiesEven(reach, FrameStep) \in Nat
  BY RoundedIsNatural, WindowsAssumption
<1>5. NumOutputFrames(chunks, ChunkSlidingWindow(step), FrameSlidingWindow) = RoundTiesEven(reach, FrameStep) + 1
  BY <1>1, <1>3 DEF NumOutputFrames
<1>6. ASSUME NEW c \in Nat
      PROVE  /\ AggregateStart(c, ChunkSlidingWindow(step), FrameSlidingWindow) = RoundTiesEven(c * step, FrameStep)
             /\ ReconstructStart(c, ChunkSlidingWindow(step), FrameSlidingWindow) = RoundTiesEven(c * step, FrameStep)
             /\ RoundTiesEven(c * step, FrameStep) \in Nat
  <2>1. PICK n \in Nat : n = c * step /\ 0 + c * step - 0 = n
    BY <1>2
  <2>2. RoundTiesEven(n, FrameStep) \in Nat
    BY RoundedIsNatural, WindowsAssumption
  <2>3. QED
    BY <1>1, <2>1, <2>2 DEF AggregateStart, ReconstructStart
<1>7. ~Misaligned(chunks, ChunkSlidingWindow(step), FrameSlidingWindow)
  BY <1>6 DEF Misaligned
<1>8. QED
  BY <1>4, <1>5, <1>6, <1>7

-----------------------------------------------------------------------------
(* The windows of thirty seconds. *)

\* A hop skips as many windows as an outer chunk has.
LEMMA HopsAreWindows ==
  ASSUME NEW stride \in 1..ChunkSamples
  PROVE  /\ HopSamples(stride) = OuterWindows * stride
         /\ HopSamples(stride) \in Nat \ {0} /\ OuterSamples(stride) \in Nat \ {0}
         /\ OuterSamples(stride) = ChunkSamples + OuterWindows * stride - stride
<1>1. /\ stride \in Nat \ {0} /\ OuterWindows \in Nat \ {0} /\ ChunkSamples \in Nat \ {0}
      /\ stride <= ChunkSamples
  BY WindowsAssumption
<1>2. \A w, s \in Nat \ {0} : (w - 1) * s = w * s - s /\ w * s \in Nat /\ w * s >= s
  OBVIOUS
<1>3. PICK run \in Nat : run = OuterWindows * stride /\ run >= stride
                         /\ (OuterWindows - 1) * stride = run - stride
  BY <1>1, <1>2
<1>4. QED
  BY <1>1, <1>3 DEF HopSamples, OuterSamples, StrideOffset

\* The loop over outer chunks ends, and the next begins while there is audio
\* the last did not hold.
LEMMA OuterChunks ==
  ASSUME NEW total \in Nat, NEW stride \in 1..ChunkSamples
  PROVE  /\ NumOuter(total, stride) \in Nat \ {0}
         /\ (NumOuter(total, stride) - 1) * HopSamples(stride) + OuterSamples(stride) >= total
         /\ \A k \in 0..NumOuter(total, stride) - 2 :
              k * HopSamples(stride) + OuterSamples(stride) < total
<1> DEFINE Enough(n) == (n - 1) * HopSamples(stride) + OuterSamples(stride) >= total
           ends == {n \in 1..total + 1 : Enough(n)}
<1>1. HopSamples(stride) \in Nat \ {0} /\ OuterSamples(stride) \in Nat
  BY HopsAreWindows
<1>2. PICK hop \in Nat \ {0}, outer \in Nat : hop = HopSamples(stride) /\ outer = OuterSamples(stride)
  BY <1>1
<1>3. Enough(total + 1)
  <2>1. \A a \in Nat, b \in Nat \ {0} : a * b >= a /\ a * b \in Nat
    OBVIOUS
  <2>2. total * hop >= total /\ total * hop \in Nat
    BY <2>1
  <2>3. (total + 1) - 1 = total
    OBVIOUS
  <2>4. QED
    BY <1>2, <2>2, <2>3
<1>4. ends # {} /\ ends \in SUBSET Nat
  BY <1>3
<1>5. PICK least \in ends : \A n \in ends : least <= n
  BY <1>4, MinOfNaturals
<1>6. least \in 1..total + 1 /\ Enough(least)
  BY <1>5
<1>7. ASSUME NEW k \in 0..least - 2 PROVE k * HopSamples(stride) + OuterSamples(stride) < total
  <2>1. k + 1 \in 1..total + 1 /\ k + 1 < least /\ (k + 1) - 1 = k /\ k \in Nat
    BY <1>6, <1>7
  <2>2. k + 1 \notin ends
    BY <1>5, <2>1
  <2>3. ~(k * HopSamples(stride) + OuterSamples(stride) >= total)
    BY <2>1, <2>2
  <2>4. k * hop \in Nat
    BY <2>1, Products
  <2>5. QED
    BY <1>2, <2>3, <2>4
<1>8. \E n \in 1..total + 1 :
        /\ (n - 1) * HopSamples(stride) + OuterSamples(stride) >= total
        /\ \A k \in 0..n - 2 : k * HopSamples(stride) + OuterSamples(stride) < total
  BY <1>6, <1>7
<1>9. /\ NumOuter(total, stride) \in 1..total + 1
      /\ (NumOuter(total, stride) - 1) * HopSamples(stride) + OuterSamples(stride) >= total
      /\ \A k \in 0..NumOuter(total, stride) - 2 :
           k * HopSamples(stride) + OuterSamples(stride) < total
  BY <1>8 DEF NumOuter
<1>10. QED
  BY <1>9

\* A window of one outer chunk is none of another's.
LEMMA GlobalChunksDiffer ==
  ASSUME NEW k \in Nat, NEW l \in Nat, NEW v \in 0..OuterWindows - 1, NEW w \in 0..OuterWindows - 1,
         GlobalChunk(k, v) = GlobalChunk(l, w)
  PROVE  k = l /\ v = w
<1>1. PICK windows \in Nat \ {0} : windows = OuterWindows
  BY WindowsAssumption
<1>2. ASSUME NEW a \in Nat, NEW b \in Nat, a < b
      PROVE  b * windows >= a * windows + windows
  <2>1. PICK d \in Nat : b = a + 1 + d
    <3>1. b - a - 1 \in Nat /\ b = a + 1 + (b - a - 1)
      BY <1>2
    <3>2. QED
      BY <3>1
  <2>2. (a + 1 + d) * windows = a * windows + windows + d * windows /\ d * windows \in Nat
        /\ a * windows \in Nat
    BY <1>1, Products
  <2>3. QED
    BY <2>1, <2>2
<1>3. k * windows \in Nat /\ l * windows \in Nat /\ k * windows + v = l * windows + w
  BY <1>1, Products DEF GlobalChunk
<1>4. k = l
  BY <1>1, <1>2, <1>3
<1>5. QED
  BY <1>3, <1>4

-----------------------------------------------------------------------------
(* The extraction's inductive invariant: what each chunk has come to.      *)

\* What one turn of the loop takes on: a chunk, or an outer chunk's windows.
Share(k) == IF ask.route = "argmax" THEN BoundedChunks(k) ELSE {k}
Ahead(turns) == UNION {Share(k) : k \in turns}

Untold(c) ==
  /\ heard[c] = Silence /\ slabs[c] = Silence /\ rows[c] = NoRows
  /\ \A s \in Slots : <<c, s>> \notin dull

Segmented(c) ==
  /\ heard[c] \in Slab0 /\ rows[c] = NoRows
  /\ slabs[c] = IF ask.route = "argmax" THEN GatedSlab(heard[c]) ELSE heard[c]
  /\ \A s \in Slots : <<c, s>> \notin dull

Embedded(c) ==
  /\ heard[c] \in Slab0
  /\ EmbeddedAs(heard[c], slabs[c], rows[c], {s \in Slots : <<c, s>> \in dull}, Gate)

Progress(c) ==
  /\ at = "segment" /\ ask.route = "split" => IF c \in left THEN Untold(c) ELSE Segmented(c)
  /\ at = "segment" /\ ask.route # "split" => IF c \in Ahead(left) THEN Untold(c) ELSE Embedded(c)
  /\ at = "embed" /\ ask.route = "split" => IF c \in left THEN Segmented(c) ELSE Embedded(c)
  /\ at = "embed" /\ ask.route # "split" =>
       IF c \in Share(Min(left)) THEN Segmented(c)
       ELSE IF c \in Ahead(left \ {Min(left)}) THEN Untold(c) ELSE Embedded(c)
  /\ at \in {"assemble", "ready"} => Embedded(c)

Infers == at \in {"segment", "embed", "assemble"}

GridOf(a) == [chunks |-> NumChunks(a.total, a.step), chunksSW |-> ChunkSlidingWindow(a.step),
              framesSW |-> FrameSlidingWindow]

PlacesInd ==
  /\ ask \in Asks /\ retries \in 0..MaxRetries
  /\ at \in {"called", "segment", "embed", "assemble", "ready", "cluster", "done"}
  /\ at = "called" => grid = NoGrid /\ slabs = <<>> /\ rows = <<>> /\ dull = {}
  /\ Infers => Sourced
  /\ at \in {"segment", "embed"} =>
       left # {} /\ left \subseteq IF ask.route = "argmax" THEN Nat ELSE 0..grid.chunks - 1
  /\ at = "cluster" => created \in 0..MaxClusterId + 1
  /\ at = "done" => created \in 0..MaxClusterId + 2
  /\ at \notin {"cluster", "done"} => created = 0

GridInd ==
  Sourced =>
    /\ grid # NoGrid => grid = GridOf(ask) /\ Refusal(ask) = "none"
    /\ at \notin {"called", "done"} => grid = GridOf(ask) /\ Refusal(ask) = "none"

TensorsInd ==
  /\ DOMAIN rows = DOMAIN slabs
  /\ \A c \in DOMAIN slabs : /\ slabs[c] \in [Frames -> IF Sourced THEN Powerset ELSE SUBSET Slots]
                             /\ rows[c] \in [Slots -> SUBSET Frames]

HeardInd ==
  (Infers \/ (Sourced /\ at = "ready")) =>
    /\ DOMAIN heard = 0..grid.chunks - 1 /\ DOMAIN slabs = 0..grid.chunks - 1
    /\ \A c \in 0..grid.chunks - 1 : Progress(c)

OutcomeInd ==
  (Sourced /\ at \in {"ready", "cluster"}) =>
    /\ outcome = "ok"
    /\ DOMAIN count = 0..NumOutputFrames(grid.chunks, grid.chunksSW, grid.framesSW) - 1

ExtractionInd ==
  PlacesInd /\ GridInd /\ TensorsInd /\ HeardInd /\ OutcomeInd /\ ProducersAreNotRefused

-----------------------------------------------------------------------------
(* What a call that was not refused has passed.                            *)

\* Two lists written out, one after the other.
LEMMA ListsJoin ==
  ASSUME NEW u, NEW v, NEW w, NEW x, NEW y
  PROVE  <<u, v, w>> \o <<x, y>> = <<u, v, w, x, y>>
<1> DEFINE T == {u, v, w, x, y}
           before == <<u, v, w>>
           behind == <<x, y>>
           whole == before \o behind
           all == <<u, v, w, x, y>>
<1>1. /\ before \in Seq(T) /\ Len(before) = 3 /\ before[1] = u /\ before[2] = v /\ before[3] = w
      /\ behind \in Seq(T) /\ Len(behind) = 2 /\ behind[1] = x /\ behind[2] = y
  OBVIOUS
<1>2. /\ DOMAIN all = 1..5 /\ all = [i \in 1..5 |-> all[i]]
      /\ all[1] = u /\ all[2] = v /\ all[3] = w /\ all[4] = x /\ all[5] = y
  OBVIOUS
<1> HIDE DEF T, before, behind, all
<1>3. /\ whole \in Seq(T) /\ Len(whole) = Len(before) + Len(behind)
      /\ \A k \in 1..Len(before) : whole[k] = before[k]
      /\ \A k \in (Len(before) + 1)..(Len(before) + Len(behind)) :
           /\ k - Len(before) \in DOMAIN behind
           /\ whole[k] = behind[k - Len(before)]
  BY <1>1, ConcatenationFacts
<1> HIDE DEF whole
<1>4. whole[1] = u /\ whole[2] = v /\ whole[3] = w
  BY <1>1, <1>3
<1>5. whole[4] = behind[4 - 3] /\ whole[5] = behind[5 - 3]
  BY <1>1, <1>3
<1>6. 4 - 3 = 1 /\ 5 - 3 = 2
  OBVIOUS
<1>7. Len(whole) = 5 /\ whole = [i \in 1..5 |-> whole[i]]
  BY <1>1, <1>3
<1>8. \A i \in 1..5 : whole[i] = all[i]
  BY <1>1, <1>2, <1>4, <1>5, <1>6
<1>9. whole = all
  BY <1>2, <1>7, <1>8
<1>10. QED
  BY <1>9 DEF whole, before, behind, all

LEMMA ListsGrow ==
  ASSUME NEW u, NEW v, NEW w, NEW x
  PROVE  Append(<<u, v, w>>, x) = <<u, v, w, x>>
<1> DEFINE after == Append(<<u, v, w>>, x)
           all == <<u, v, w, x>>
<1>1. after = [i \in 1..4 |-> after[i]] /\ after[1] = u /\ after[2] = v /\ after[3] = w /\ after[4] = x
  OBVIOUS
<1>2. all = [i \in 1..4 |-> all[i]] /\ all[1] = u /\ all[2] = v /\ all[3] = w /\ all[4] = x
  OBVIOUS
<1> HIDE DEF after, all
<1>3. \A i \in 1..4 : after[i] = all[i]
  BY <1>1, <1>2
<1>4. after = all
  BY <1>1, <1>2, <1>3
<1>5. QED
  BY <1>4 DEF after, all

Long(total, step) ==
  NumOutputFrames(NumChunks(total, step), ChunkSlidingWindow(step), FrameSlidingWindow) > MaxOutputFrames
Exposed(total, step) ==
  UncoveredLastChunk(NumChunks(total, step), ChunkFrames,
                     NumOutputFrames(NumChunks(total, step), ChunkSlidingWindow(step), FrameSlidingWindow),
                     ChunkSlidingWindow(step), FrameSlidingWindow)

LEMMA GeometryIsChecked ==
  ASSUME NEW total, NEW step
  PROVE  /\ DOMAIN GeometryChecks(total, step) = 1..5
         /\ GeometryChecks(total, step)[1] = <<"OutputFrameCountTooLarge", Long(total, step)>>
         /\ GeometryChecks(total, step)[5] = <<"UncoveredLastChunk", Exposed(total, step)>>
         /\ \A i \in 1..5 : GeometryChecks(total, step)[i][1] # "none"
         /\ DOMAIN ArgmaxGeometryChecks(total, step) = 1..4
         /\ ArgmaxGeometryChecks(total, step)[1] = <<"OutputFrameCountTooLarge", Long(total, step)>>
         /\ ArgmaxGeometryChecks(total, step)[4] = <<"UncoveredLastChunk", Exposed(total, step)>>
         /\ \A i \in 1..4 : ArgmaxGeometryChecks(total, step)[i][1] # "none"
<1> DEFINE many == NumChunks(total, step) > MaxChunks
           wide == TensorBytes(NumChunks(total, step)) > MaxTensorBytes
           lost == Misaligned(NumChunks(total, step), ChunkSlidingWindow(step), FrameSlidingWindow)
           u == <<"OutputFrameCountTooLarge", Long(total, step)>>
           v == <<"ExtractionChunkCountTooLarge", many>>
           w == <<"ExtractionTensorBytesTooLarge", wide>>
           x == <<"MisalignedChunkPlacement", lost>>
           y == <<"UncoveredLastChunk", Exposed(total, step)>>
           five == <<u, v, w, x, y>>
           four == <<u, v, w, y>>
<1>1. SizeChecks(total, step) = <<u, v, w>>
  BY Zenon DEF SizeChecks, Long
<1>2. MisplacedCheck(total, step) = x /\ CoverCheck(total, step) = y
  BY Zenon DEF MisplacedCheck, CoverCheck, Exposed
<1>3. /\ GeometryChecks(total, step) = <<u, v, w>> \o <<x, y>>
      /\ ArgmaxGeometryChecks(total, step) = Append(<<u, v, w>>, y)
  BY <1>1, <1>2, Zenon DEF GeometryChecks, ArgmaxGeometryChecks
<1>4. /\ u[1] = "OutputFrameCountTooLarge" /\ v[1] = "ExtractionChunkCountTooLarge"
      /\ w[1] = "ExtractionTensorBytesTooLarge" /\ x[1] = "MisalignedChunkPlacement"
      /\ y[1] = "UncoveredLastChunk"
  <2> HIDE DEF many, wide, lost
  <2>1. QED
    OBVIOUS
<1> HIDE DEF u, v, w, x, y
<1>5. GeometryChecks(total, step) = five /\ ArgmaxGeometryChecks(total, step) = four
  BY <1>3, ListsJoin, ListsGrow, Zenon
<1>6. /\ DOMAIN five = 1..5 /\ five[1] = u /\ five[5] = y
      /\ \A i \in 1..5 : five[i] \in {u, v, w, x, y}
      /\ DOMAIN four = 1..4 /\ four[1] = u /\ four[4] = y
      /\ \A i \in 1..4 : four[i] \in {u, v, w, y}
  OBVIOUS
<1> HIDE DEF five, four
<1>7. \A i \in 1..5 : five[i][1] # "none"
  BY <1>4, <1>6
<1>8. \A i \in 1..4 : four[i][1] # "none"
  BY <1>4, <1>6
<1>9. QED
  BY <1>5, <1>6, <1>7, <1>8, Zenon DEF u, y

LEMMA NothingWasWrong ==
  ASSUME NEW n \in Nat, NEW checks, DOMAIN checks = 1..n,
         \A i \in 1..n : checks[i][1] # "none", FirstRefusal(checks) = "none"
  PROVE  \A i \in 1..n : ~checks[i][2]
<1>1. \/ FirstRefusal(checks) = "none" /\ \A i \in 1..n : ~checks[i][2]
      \/ \E i \in 1..n : /\ checks[i][2] /\ FirstRefusal(checks) = checks[i][1]
                         /\ \A j \in 1..n : j < i => ~checks[j][2]
  BY FirstRefusalFacts, Zenon
<1>2. QED
  BY <1>1, Zenon

LEMMA FusedCallsAreSound ==
  ASSUME NEW a, FusedRefusal(a) = "none"
  PROVE  /\ a.total # 0 /\ a.step # 0 /\ ~(a.step > ChunkSamples)
         /\ ~Long(a.total, a.step) /\ ~Exposed(a.total, a.step)
<1> DEFINE empty == a.total = 0
           still == a.step = 0
           wide == a.step > ChunkSamples
           onset == ~a.onsetOk
           masks == a.maskFrames # ChunkFrames
           early == <<<<"EmptySamples", empty>>, <<"ZeroStepSamples", still>>,
                      <<"StepSamplesExceedsWindow", wide>>, <<"OnsetOutOfRange", onset>>,
                      <<"FrameCountMismatch", masks>>>>
           late == GeometryChecks(a.total, a.step)
<1>1. FusedRefusal(a) = IF FirstRefusal(early) # "none" THEN FirstRefusal(early) ELSE FirstRefusal(late)
  BY Zenon DEF FusedRefusal
<1> HIDE DEF empty, still, wide, onset, masks
<1>2. /\ DOMAIN early = 1..5 /\ \A i \in 1..5 : early[i][1] # "none"
      /\ early[1][2] = empty /\ early[2][2] = still /\ early[3][2] = wide
  OBVIOUS
<1> HIDE DEF early, late
<1>3. FirstRefusal(early) = "none" /\ FirstRefusal(late) = "none"
  BY <1>1
<1>4. \A i \in 1..5 : ~early[i][2]
  BY <1>2, <1>3, NothingWasWrong
<1>5. DOMAIN late = 1..5 /\ \A i \in 1..5 : late[i][1] # "none"
  BY GeometryIsChecked DEF late
<1>6. \A i \in 1..5 : ~late[i][2]
  BY <1>3, <1>5, NothingWasWrong
<1>7. ~empty /\ ~still /\ ~wide
  <2>1. 1 \in 1..5 /\ 2 \in 1..5 /\ 3 \in 1..5
    OBVIOUS
  <2>2. QED
    BY <1>2, <1>4, <2>1, Zenon
<1>8. ~late[1][2] /\ ~late[5][2]
  BY <1>6
<1>9. late[1] = <<"OutputFrameCountTooLarge", Long(a.total, a.step)>>
      /\ late[5] = <<"UncoveredLastChunk", Exposed(a.total, a.step)>>
  BY GeometryIsChecked, Zenon DEF late
<1>10. late[1][2] = Long(a.total, a.step) /\ late[5][2] = Exposed(a.total, a.step)
  BY <1>9
<1>11. QED
  BY <1>7, <1>8, <1>10, Zenon DEF empty, still, wide

LEMMA ArgmaxCallsAreSound ==
  ASSUME NEW a, ArgmaxRefusal(a) = "none"
  PROVE  /\ a.total # 0 /\ a.step = OuterStride
         /\ ~Long(a.total, a.step) /\ ~Exposed(a.total, a.step)
<1> DEFINE empty == a.total = 0
           odd == a.step # OuterStride
           onset == ~a.onsetOk
           early == <<<<"EmptySamples", empty>>, <<"UnsupportedStepSamples", odd>>,
                      <<"OnsetOutOfRange", onset>>>>
           late == ArgmaxGeometryChecks(a.total, a.step)
<1>1. ArgmaxRefusal(a) = IF FirstRefusal(early) # "none" THEN FirstRefusal(early) ELSE FirstRefusal(late)
  BY Zenon DEF ArgmaxRefusal
<1> HIDE DEF empty, odd, onset
<1>2. /\ DOMAIN early = 1..3 /\ \A i \in 1..3 : early[i][1] # "none"
      /\ early[1][2] = empty /\ early[2][2] = odd
  OBVIOUS
<1> HIDE DEF early, late
<1>3. FirstRefusal(early) = "none" /\ FirstRefusal(late) = "none"
  BY <1>1
<1>4. \A i \in 1..3 : ~early[i][2]
  BY <1>2, <1>3, NothingWasWrong
<1>5. DOMAIN late = 1..4 /\ \A i \in 1..4 : late[i][1] # "none"
  BY GeometryIsChecked DEF late
<1>6. \A i \in 1..4 : ~late[i][2]
  BY <1>3, <1>5, NothingWasWrong
<1>7. ~empty /\ ~odd
  <2>1. 1 \in 1..3 /\ 2 \in 1..3
    OBVIOUS
  <2>2. QED
    BY <1>2, <1>4, <2>1, Zenon
<1>8. ~late[1][2] /\ ~late[4][2]
  BY <1>6
<1>9. late[1] = <<"OutputFrameCountTooLarge", Long(a.total, a.step)>>
      /\ late[4] = <<"UncoveredLastChunk", Exposed(a.total, a.step)>>
  BY GeometryIsChecked, Zenon DEF late
<1>10. late[1][2] = Long(a.total, a.step) /\ late[4][2] = Exposed(a.total, a.step)
  BY <1>9
<1>11. QED
  BY <1>7, <1>8, <1>10, Zenon DEF empty, odd

\* What a source assembles is refused for its size or its last chunk alone.
LEMMA SourcesAreRarelyRefused ==
  ASSUME ask.total \in Nat, ask.step \in Nat \ {0}, grid = GridOf(ask),
         \A c \in 0..grid.chunks - 1 : \A s \in Speaking(slabs[c]) : rows[c][s] # {},
         NEW refusal, refusal = AssembledRefusal(ExtractionParts(grid, slabs, rows, SourceCount, TRUE))
  PROVE  /\ DOMAIN SourceCount = 0..NumOutputFrames(grid.chunks, grid.chunksSW, grid.framesSW) - 1
         /\ \/ refusal = "none"
            \/ refusal = "OutputFrameCountTooLarge" /\ Long(ask.total, ask.step)
            \/ refusal = "UncoveredLastChunk" /\ Exposed(ask.total, ask.step)
<1>1. PICK ct : ct = SourceCount
  OBVIOUS
<1>2. ct = CountFromSegmentations(grid.chunks, slabs, grid.chunksSW, grid.framesSW)
  BY <1>1 DEF SourceCount
<1> DEFINE p == ExtractionParts(grid, slabs, rows, ct, TRUE)
           long == OutputOf(p) > MaxOutputFrames
           displaced == Displaced(p)
           grey == NotBinary(p)
           rowless == Rowless(p)
           miscounted == Miscounted(p)
           collapsed == Collapsed(p)
           uncovered == Uncovered(p)
           checks == <<<<"OutputFrameCountTooLarge", long>>, <<"MisalignedChunkPlacement", displaced>>,
                       <<"NonBinarySegmentation", grey>>, <<"ActiveSlotWithoutEmbedding", rowless>>,
                       <<"CountNotSegmentationDerived", miscounted>>, <<"CollapsedFrameCenter", collapsed>>,
                       <<"UncoveredLastChunk", uncovered>>>>
<1>3. /\ grid.chunks = NumChunks(ask.total, ask.step) /\ grid.chunksSW = ChunkSlidingWindow(ask.step)
      /\ grid.framesSW = FrameSlidingWindow
  BY DEF GridOf
<1>4. /\ p.chunks = grid.chunks /\ p.chunksSW = grid.chunksSW /\ p.framesSW = grid.framesSW
      /\ p.slabs = slabs /\ p.rows = rows /\ p.count = ct /\ p.binary = TRUE
  BY DEF ExtractionParts
<1>5. p = ExtractionParts(grid, slabs, rows, ct, TRUE)
  OBVIOUS
<1> HIDE DEF p
<1>6. PICK chunks \in Nat \ {0} : chunks = grid.chunks
  BY <1>3, ChunksOfARecording
<1>7. PICK frames \in Nat \ {0} : frames = NumOutputFrames(grid.chunks, grid.chunksSW, grid.framesSW)
  BY <1>3, <1>6, FramesOfARecording
<1>8. OutputOf(p) = frames
  BY <1>4, <1>7, Zenon DEF OutputOf
<1>9. DOMAIN ct = 0..frames - 1
  BY <1>2, <1>7, Zenon DEF CountFromSegmentations, Aggregate
<1>10. ct # <<>>
  <2>1. 0 \in DOMAIN ct
    BY <1>9
  <2>2. QED
    BY <2>1
<1>11. ~Emptied(p)
  BY <1>4, <1>6, <1>10 DEF Emptied
<1>12. ~Unusable(p)
  <2>1. /\ grid.chunksSW.duration = ChunkSamples /\ grid.chunksSW.step = ask.step
        /\ grid.framesSW.duration = FrameDuration /\ grid.framesSW.step = FrameStep
    BY <1>3 DEF ChunkSlidingWindow, FrameSlidingWindow
  <2>2. QED
    BY <1>4, <2>1, WindowsAssumption DEF Unusable, Usable
<1>13. ~Mislaid(p)
  BY <1>4, <1>8, <1>9 DEF Mislaid
<1>14. AssembledRefusal(p) = FirstRefusal(checks)
  BY <1>11, <1>12, <1>13, Zenon DEF AssembledRefusal
<1>15. ~displaced
  <2>1. ~Misaligned(chunks, ChunkSlidingWindow(ask.step), FrameSlidingWindow)
    BY FramesOfARecording
  <2>2. Displaced(p) = Misaligned(p.chunks, p.chunksSW, p.framesSW)
    BY DEF Displaced
  <2>3. QED
    BY <1>3, <1>4, <1>6, <2>1, <2>2
<1>16. ~grey
  BY <1>4 DEF NotBinary
<1>17. ~rowless
  BY <1>4 DEF Rowless
<1>18. ~miscounted
  BY <1>2, <1>4, Zenon DEF Miscounted
<1>19. ~collapsed
  BY <1>3, <1>4, WindowsAssumption DEF Collapsed, CollapsedCenter, FrameSlidingWindow
<1>20. long => Long(ask.total, ask.step)
  BY <1>3, <1>4 DEF Long, OutputOf
<1>21. uncovered => Exposed(ask.total, ask.step)
  BY <1>3, <1>4 DEF Exposed, Uncovered, OutputOf
<1>22. refusal = FirstRefusal(checks)
  BY <1>1, <1>5, <1>14
<1> HIDE DEF long, displaced, grey, rowless, miscounted, collapsed, uncovered
<1>23. /\ DOMAIN checks = 1..7
       /\ checks[1] = <<"OutputFrameCountTooLarge", long>> /\ checks[7] = <<"UncoveredLastChunk", uncovered>>
       /\ checks[2][2] = displaced /\ checks[3][2] = grey /\ checks[4][2] = rowless
       /\ checks[5][2] = miscounted /\ checks[6][2] = collapsed
  OBVIOUS
<1>24. /\ checks[1][1] = "OutputFrameCountTooLarge" /\ checks[1][2] = long
       /\ checks[7][1] = "UncoveredLastChunk" /\ checks[7][2] = uncovered
  OBVIOUS
<1> HIDE DEF checks
<1>25. \/ FirstRefusal(checks) = "none"
       \/ \E i \in 1..7 : checks[i][2] /\ FirstRefusal(checks) = checks[i][1]
  BY <1>23, FirstRefusalFacts
<1>26. \A i \in 1..7 : i = 1 \/ i = 2 \/ i = 3 \/ i = 4 \/ i = 5 \/ i = 6 \/ i = 7
  OBVIOUS
<1>27. ASSUME NEW i \in 1..7, checks[i][2] PROVE i = 1 \/ i = 7
  BY <1>15, <1>16, <1>17, <1>18, <1>19, <1>23, <1>26, <1>27, Zenon
<1>28. \/ FirstRefusal(checks) = "none"
       \/ long /\ FirstRefusal(checks) = "OutputFrameCountTooLarge"
       \/ uncovered /\ FirstRefusal(checks) = "UncoveredLastChunk"
  BY <1>24, <1>25, <1>27, Zenon
<1>29. QED
  BY <1>1, <1>7, <1>9, <1>20, <1>21, <1>22, <1>28, Zenon

-----------------------------------------------------------------------------
(* Steps of the extraction.                                                *)

LEMMA CallsAreSound ==
  ASSUME NEW a \in Asks, a.route # "assembled", Refusal(a) = "none"
  PROVE  /\ a.route \in {"fused", "split", "argmax"} /\ a.total \in Nat /\ a.step \in Nat \ {0}
         /\ a.slabs \subseteq Slab0
         /\ a.route = "argmax" => a.step = OuterStride /\ a.step \in 1..ChunkSamples
         /\ a.route # "split" => ~Long(a.total, a.step) /\ ~Exposed(a.total, a.step)
<1>1. /\ a.route \in {"fused", "split", "argmax"} /\ a.total \in Nat /\ a.step \in Nat
      /\ a.route = "split" => a.step > 0
      /\ a.slabs \subseteq Slab0
  BY AsksAssumption DEF Slab0
<1>2. CASE a.route = "fused"
  <2>1. FusedRefusal(a) = "none"
    BY <1>2 DEF Refusal
  <2>2. QED
    BY <1>1, <1>2, <2>1, FusedCallsAreSound
<1>3. CASE a.route = "argmax"
  <2>1. ArgmaxRefusal(a) = "none"
    BY <1>3 DEF Refusal
  <2>2. QED
    BY <1>1, <1>3, <2>1, ArgmaxCallsAreSound, ExtractionAssumption, WindowsAssumption
<1>4. CASE a.route = "split"
  BY <1>1, <1>4
<1>5. QED
  BY <1>1, <1>2, <1>3, <1>4

LEMMA UntoldIsEmbedded ==
  ASSUME NEW c, Untold(c)
  PROVE  Embedded(c)
<1>1. Gate \in Nat
  BY ExtractionAssumption DEF Gate
<1>2. QED
  BY <1>1, SilenceIsASlab, SilenceIsEmbedded DEF Untold, Embedded

\* A chunk whose tensors are left alone is what it was.
LEMMA ChunksAreLeftAlone ==
  ASSUME NEW c, ask' = ask, heard'[c] = heard[c], slabs'[c] = slabs[c], rows'[c] = rows[c],
         \A s \in Slots : (<<c, s>> \in dull') = (<<c, s>> \in dull)
  PROVE  Untold(c)' = Untold(c) /\ Segmented(c)' = Segmented(c) /\ Embedded(c)' = Embedded(c)
<1>1. {s \in Slots : <<c, s>> \in dull'} = {s \in Slots : <<c, s>> \in dull}
  OBVIOUS
<1>2. Gate' = Gate
  BY DEF Gate
<1>3. Untold(c)' = Untold(c)
  BY DEF Untold
<1>4. Segmented(c)' = Segmented(c)
  BY DEF Segmented
<1>5. Embedded(c)' = Embedded(c)
  BY <1>1, <1>2 DEF Embedded
<1>6. QED
  BY <1>3, <1>4, <1>5

LEMMA SharesStay ==
  ASSUME ask' = ask
  PROVE  /\ \A k : Share(k)' = Share(k)
         /\ \A S : Ahead(S)' = Ahead(S)
         /\ Sourced' = Sourced /\ Gate' = Gate
<1>1. \A k : Share(k)' = Share(k)
  BY DEF Share, BoundedChunks, BoundedWindows
<1>2. QED
  BY <1>1 DEF Ahead, Sourced, Gate

LEMMA SharesAreApart ==
  ASSUME NEW turns, turns \subseteq Nat, NEW k \in turns
  PROVE  /\ Ahead(turns) = Share(k) \cup Ahead(turns \ {k})
         /\ Share(k) \cap Ahead(turns \ {k}) = {}
         /\ ask.route # "argmax" => Share(k) = {k} /\ Ahead(turns) = turns
<1>1. Ahead(turns) = Share(k) \cup Ahead(turns \ {k})
  BY DEF Ahead
<1>2. ASSUME NEW c, c \in Share(k), NEW l \in turns \ {k}, c \in Share(l)
      PROVE  FALSE
  <2>1. CASE ask.route # "argmax"
    BY <1>2, <2>1 DEF Share
  <2>2. CASE ask.route = "argmax"
    <3>1. PICK v \in BoundedWindows(k) : c = GlobalChunk(k, v)
      BY <1>2, <2>2 DEF Share, BoundedChunks
    <3>2. PICK w \in BoundedWindows(l) : c = GlobalChunk(l, w)
      BY <1>2, <2>2 DEF Share, BoundedChunks
    <3>3. v \in 0..OuterWindows - 1 /\ w \in 0..OuterWindows - 1
      BY DEF BoundedWindows
    <3>4. QED
      BY <3>1, <3>2, <3>3, GlobalChunksDiffer
  <2>3. QED
    BY <2>1, <2>2
<1>3. Share(k) \cap Ahead(turns \ {k}) = {}
  BY <1>2 DEF Ahead
<1>4. ask.route # "argmax" => Share(k) = {k} /\ Ahead(turns) = turns
  BY DEF Share, Ahead
<1>5. QED
  BY <1>1, <1>3, <1>4

LEMMA TensorsAreLeftAlone ==
  ASSUME ExtractionInd, ask' = ask, slabs' = slabs, rows' = rows
  PROVE  TensorsInd'
  BY DEF ExtractionInd, TensorsInd, Sourced

\* A call that ends here leaves its tensors as they are.
LEMMA FailuresKeepTheRest ==
  ASSUME ExtractionInd, at' = "done", UNCHANGED <<ask, grid, tensors, left, retries, clustering>>,
         at # "cluster", ProducersAreNotRefused'
  PROVE  ExtractionInd'
<1>1. TensorsInd'
  BY TensorsAreLeftAlone DEF tensors
<1>2. PlacesInd'
  BY ExtractionAssumption DEF ExtractionInd, PlacesInd, Infers, clustering
<1>3. GridInd' /\ HeardInd' /\ OutcomeInd'
  BY DEF ExtractionInd, GridInd, HeardInd, OutcomeInd, Infers, Sourced
<1>4. QED
  BY <1>1, <1>2, <1>3 DEF ExtractionInd

LEMMA RefuseStep ==
  ASSUME ExtractionInd, Refuse \/ Unavailable
  PROVE  ExtractionInd'
<1>1. /\ at = "called" /\ at' = "done" /\ UNCHANGED <<ask, grid, tensors, left, retries, clustering>>
  BY DEF Refuse, Unavailable, Fail
<1>2. grid' = NoGrid
  BY <1>1 DEF ExtractionInd, PlacesInd
<1>3. ProducersAreNotRefused'
  BY <1>2 DEF ProducersAreNotRefused
<1>4. QED
  BY <1>1, <1>3, FailuresKeepTheRest

LEMMA FailStep ==
  ASSUME ExtractionInd, SplitRefused \/ InferenceFails
  PROVE  ExtractionInd'
<1>1. /\ at \in {"segment", "embed"} /\ at' = "done"
      /\ UNCHANGED <<ask, grid, tensors, left, retries, clustering>>
      /\ outcome' = "Infer" \/ (ask.route = "split" /\ outcome' = SplitRefusal(ask))
  BY DEF SplitRefused, InferenceFails, Fail
<1>2. ProducersAreNotRefused'
  BY <1>1 DEF ProducersAreNotRefused
<1>3. QED
  BY <1>1, <1>2, FailuresKeepTheRest

LEMMA BeginStep ==
  ASSUME ExtractionInd, Begin
  PROVE  ExtractionInd'
<1> DEFINE chunks == NumChunks(ask.total, ask.step)
<1>1. /\ at = "called" /\ at' = "segment" /\ ask.route # "assembled" /\ Refusal(ask) = "none"
      /\ grid' = GridOf(ask)
      /\ slabs' = [c \in 0..chunks - 1 |-> Silence] /\ heard' = [c \in 0..chunks - 1 |-> Silence]
      /\ rows' = [c \in 0..chunks - 1 |-> NoRows]
      /\ left' = IF ask.route = "argmax" THEN 0..NumOuter(ask.total, ask.step) - 1 ELSE 0..chunks - 1
      /\ UNCHANGED <<ask, dull, count, retries, outcome, clustering>>
  BY DEF Begin, GridOf
<1>2. dull = {} /\ ask \in Asks /\ created = 0 /\ retries \in 0..MaxRetries
  BY <1>1 DEF ExtractionInd, PlacesInd
<1>3. /\ ask.total \in Nat /\ ask.step \in Nat \ {0}
      /\ ask.route = "argmax" => ask.step \in 1..ChunkSamples
  BY <1>1, <1>2, CallsAreSound
<1>4. chunks \in Nat \ {0} /\ grid'.chunks = chunks
  BY <1>1, <1>3, ChunksOfARecording DEF GridOf
<1>5. ask.route = "argmax" => NumOuter(ask.total, ask.step) \in Nat \ {0}
  BY <1>3, OuterChunks
<1> HIDE DEF chunks
<1>6. PlacesInd'
  <2>1. left' # {} /\ left' \subseteq IF ask.route = "argmax" THEN Nat ELSE 0..grid'.chunks - 1
    <3>1. CASE ask.route = "argmax"
      <4>1. PICK n \in Nat \ {0} : n = NumOuter(ask.total, ask.step)
        BY <1>5, <3>1
      <4>2. left' = 0..n - 1
        BY <1>1, <3>1, <4>1
      <4>3. 0 \in 0..n - 1 /\ 0..n - 1 \subseteq Nat
        OBVIOUS
      <4>4. QED
        BY <3>1, <4>2, <4>3
    <3>2. CASE ask.route # "argmax"
      <4>1. left' = 0..chunks - 1 /\ 0 \in 0..chunks - 1
        BY <1>1, <1>4, <3>2
      <4>2. QED
        BY <1>4, <3>2, <4>1
    <3>3. QED
      BY <3>1, <3>2
  <2>2. created' = 0 /\ retries' = retries /\ ask' = ask
    BY <1>1, <1>2 DEF clustering
  <2>3. QED
    BY <1>1, <1>2, <2>1, <2>2 DEF PlacesInd, Infers, Sourced
<1>7. GridInd'
  BY <1>1 DEF GridInd, Sourced
<1>8. TensorsInd'
  <2>1. Silence \in Slab0 /\ NoRows \in [Slots -> SUBSET Frames]
    BY SilenceIsASlab DEF NoRows
  <2>2. DOMAIN slabs' = 0..chunks - 1 /\ DOMAIN rows' = 0..chunks - 1
    BY <1>1
  <2>3. \A c \in 0..chunks - 1 : slabs'[c] \in Slab0 /\ rows'[c] \in [Slots -> SUBSET Frames]
    BY <1>1, <2>1
  <2>4. Sourced'
    BY <1>1 DEF Sourced
  <2>5. QED
    BY <2>2, <2>3, <2>4 DEF TensorsInd, Slab0
<1>9. HeardInd'
  <2>1. DOMAIN heard' = 0..chunks - 1 /\ DOMAIN slabs' = 0..chunks - 1
    BY <1>1
  <2>2. ASSUME NEW c \in 0..chunks - 1 PROVE Progress(c)'
    <3>1. Untold(c)'
      BY <1>1, <1>2 DEF Untold
    <3>2. Embedded(c)'
      BY <3>1, UntoldIsEmbedded, PTL
    <3>3. ask.route = "split" => c \in left'
      BY <1>1
    <3>4. QED
      BY <1>1, <3>1, <3>2, <3>3 DEF Progress
  <2>3. QED
    BY <1>4, <2>1, <2>2 DEF HeardInd
<1>10. OutcomeInd' /\ ProducersAreNotRefused'
  BY <1>1 DEF OutcomeInd, ProducersAreNotRefused
<1>11. QED
  BY <1>6, <1>7, <1>8, <1>9, <1>10 DEF ExtractionInd

\* The turn a loop is at.
LEMMA NextTurn ==
  ASSUME ExtractionInd, at \in {"segment", "embed"}
  PROVE  /\ ask \in Asks /\ ask.route \in {"fused", "split", "argmax"} /\ Sourced
         /\ ask.slabs \subseteq Slab0
         /\ grid = GridOf(ask) /\ Refusal(ask) = "none"
         /\ left \in SUBSET Nat /\ left # {} /\ Min(left) \in left
         /\ ask.route # "argmax" => left \subseteq 0..grid.chunks - 1
         /\ DOMAIN heard = 0..grid.chunks - 1 /\ DOMAIN slabs = 0..grid.chunks - 1
         /\ DOMAIN rows = 0..grid.chunks - 1
         /\ \A c \in 0..grid.chunks - 1 : Progress(c) /\ slabs[c] \in Slab0
                                            /\ rows[c] \in [Slots -> SUBSET Frames]
<1>1. ask \in Asks /\ Sourced /\ grid = GridOf(ask) /\ Refusal(ask) = "none"
  BY DEF ExtractionInd, PlacesInd, GridInd, Infers
<1>2. ask.route \in {"fused", "split", "argmax"} /\ ask.slabs \subseteq Slab0
  BY <1>1, CallsAreSound DEF Sourced
<1>3. /\ left # {} /\ (ask.route # "argmax" => left \subseteq 0..grid.chunks - 1)
      /\ (ask.route = "argmax" => left \subseteq Nat)
  BY DEF ExtractionInd, PlacesInd
<1>4. left \in SUBSET Nat
  BY <1>3
<1>5. Min(left) \in left
  BY <1>3, <1>4, MinOfNaturals
<1>6. /\ DOMAIN heard = 0..grid.chunks - 1 /\ DOMAIN slabs = 0..grid.chunks - 1
      /\ \A c \in 0..grid.chunks - 1 : Progress(c)
  BY DEF ExtractionInd, HeardInd, Infers
<1>7. DOMAIN rows = DOMAIN slabs /\ \A c \in DOMAIN slabs : slabs[c] \in Slab0 /\ rows[c] \in [Slots -> SUBSET Frames]
  BY <1>1 DEF ExtractionInd, TensorsInd, Slab0
<1>8. QED
  BY <1>1, <1>2, <1>3, <1>4, <1>5, <1>6, <1>7

\* A step of a loop keeps the invariant when it keeps what concerns the chunks.
LEMMA LoopsGoOn ==
  ASSUME ExtractionInd, at \in {"segment", "embed"}, at' \in {"segment", "embed", "assemble"},
         UNCHANGED <<ask, grid, clustering>>, retries' \in 0..MaxRetries,
         at' # "assemble" =>
           left' # {} /\ left' \subseteq IF ask.route = "argmax" THEN Nat ELSE 0..grid.chunks - 1,
         DOMAIN heard' = DOMAIN heard, DOMAIN slabs' = DOMAIN slabs, DOMAIN rows' = DOMAIN rows,
         \A c \in 0..grid.chunks - 1 : slabs'[c] \in Slab0 /\ rows'[c] \in [Slots -> SUBSET Frames],
         \A c \in 0..grid.chunks - 1 : Progress(c)'
  PROVE  ExtractionInd'
<1>1. created = 0 /\ created' = 0 /\ Sourced /\ Sourced' /\ ask \in Asks
  BY DEF ExtractionInd, PlacesInd, Infers, Sourced, clustering
<1>2. PlacesInd'
  BY <1>1 DEF PlacesInd, Infers
<1>3. GridInd'
  BY <1>1 DEF ExtractionInd, GridInd
<1>4. HeardInd' /\ TensorsInd'
  <2>1. /\ DOMAIN heard = 0..grid.chunks - 1 /\ DOMAIN slabs = 0..grid.chunks - 1
        /\ DOMAIN rows = 0..grid.chunks - 1
    BY NextTurn
  <2>2. HeardInd'
    BY <2>1 DEF HeardInd
  <2>3. TensorsInd'
    BY <1>1, <2>1 DEF TensorsInd, Slab0
  <2>4. QED
    BY <2>2, <2>3
<1>5. OutcomeInd' /\ ProducersAreNotRefused'
  BY DEF OutcomeInd, ProducersAreNotRefused
<1>6. QED
  BY <1>2, <1>3, <1>4, <1>5 DEF ExtractionInd

\* A loop over chunks takes on the chunk it is at.
PlainProgress(c) ==
  /\ at = "segment" /\ ask.route = "split" => IF c \in left THEN Untold(c) ELSE Segmented(c)
  /\ at = "segment" /\ ask.route # "split" => IF c \in left THEN Untold(c) ELSE Embedded(c)
  /\ at = "embed" /\ ask.route = "split" => IF c \in left THEN Segmented(c) ELSE Embedded(c)
  /\ at = "embed" /\ ask.route # "split" =>
       IF c = Min(left) THEN Segmented(c)
       ELSE IF c \in left \ {Min(left)} THEN Untold(c) ELSE Embedded(c)
  /\ at \in {"assemble", "ready"} => Embedded(c)

LEMMA PlainTurns ==
  ASSUME NEW c, ask.route # "argmax"
  PROVE  Progress(c) <=> PlainProgress(c)
<1>1. Share(Min(left)) = {Min(left)}
  BY DEF Share
<1>2. Ahead(left) = left /\ Ahead(left \ {Min(left)}) = left \ {Min(left)}
  BY DEF Share, Ahead
<1>3. QED
  BY <1>1, <1>2 DEF Progress, PlainProgress

LEMMA SegmentChunkStep ==
  ASSUME ExtractionInd, SegmentChunk
  PROVE  ExtractionInd'
<1>1. /\ at = "segment" /\ ask.route \in {"fused", "split"}
      /\ UNCHANGED <<ask, grid, dull, rows, count, retries, outcome, clustering>>
  BY DEF SegmentChunk
<1>2. PICK c0 : c0 = Min(left)
  OBVIOUS
<1>3. PICK slab \in ask.slabs :
        /\ heard' = [heard EXCEPT ![c0] = slab] /\ slabs' = [slabs EXCEPT ![c0] = slab]
        /\ IF ask.route = "fused" THEN at' = "embed" /\ left' = left
           ELSE IF left = {c0} THEN at' = "embed" /\ left' = DOMAIN slabs
           ELSE at' = at /\ left' = left \ {c0}
  BY <1>2 DEF SegmentChunk
<1>4. /\ slab \in Slab0 /\ left \in SUBSET Nat /\ left \subseteq 0..grid.chunks - 1 /\ c0 \in left
      /\ DOMAIN heard = 0..grid.chunks - 1 /\ DOMAIN slabs = 0..grid.chunks - 1
      /\ DOMAIN rows = 0..grid.chunks - 1
      /\ \A c \in 0..grid.chunks - 1 : Progress(c) /\ slabs[c] \in Slab0
                                         /\ rows[c] \in [Slots -> SUBSET Frames]
  BY <1>1, <1>2, <1>3, NextTurn
<1>5. c0 \in 0..grid.chunks - 1 /\ ask' = ask /\ dull' = dull /\ rows' = rows
  BY <1>1, <1>4
<1>6. /\ heard'[c0] = slab /\ slabs'[c0] = slab
      /\ DOMAIN heard' = DOMAIN heard /\ DOMAIN slabs' = DOMAIN slabs
      /\ \A c \in 0..grid.chunks - 1 : c # c0 => heard'[c] = heard[c] /\ slabs'[c] = slabs[c]
  BY <1>3, <1>4, <1>5
<1>7. \A c \in 0..grid.chunks - 1 : PlainProgress(c)
  BY <1>1, <1>4, PlainTurns
<1>8. Untold(c0)
  BY <1>1, <1>4, <1>5, <1>7 DEF PlainProgress
<1>9. Segmented(c0)'
  <2>1. rows'[c0] = NoRows /\ \A s \in Slots : <<c0, s>> \notin dull'
    BY <1>5, <1>8 DEF Untold
  <2>2. QED
    BY <1>1, <1>4, <1>5, <1>6, <2>1 DEF Segmented
<1>10. ASSUME NEW c \in 0..grid.chunks - 1 PROVE PlainProgress(c)'
  <2>1. CASE c = c0
    <3>1. Segmented(c)'
      BY <1>9, <2>1
    <3>2. CASE ask.route = "fused"
      BY <1>1, <1>2, <1>3, <2>1, <3>1, <3>2 DEF PlainProgress
    <3>3. CASE ask.route # "fused" /\ left = {c0}
      BY <1>1, <1>3, <1>4, <3>1, <3>3 DEF PlainProgress
    <3>4. CASE ask.route # "fused" /\ left # {c0}
      BY <1>1, <1>3, <2>1, <3>1, <3>4 DEF PlainProgress
    <3>5. QED
      BY <3>2, <3>3, <3>4
  <2>2. CASE c # c0
    <3>1. Untold(c)' = Untold(c) /\ Segmented(c)' = Segmented(c) /\ Embedded(c)' = Embedded(c)
      BY <1>5, <1>6, <2>2, ChunksAreLeftAlone
    <3>2. PlainProgress(c)
      BY <1>7
    <3>3. CASE ask.route = "fused"
      BY <1>1, <1>2, <1>3, <2>2, <3>1, <3>2, <3>3 DEF PlainProgress
    <3>4. CASE ask.route # "fused" /\ left = {c0}
      BY <1>1, <1>3, <1>4, <2>2, <3>1, <3>2, <3>4 DEF PlainProgress
    <3>5. CASE ask.route # "fused" /\ left # {c0}
      BY <1>1, <1>3, <2>2, <3>1, <3>2, <3>5 DEF PlainProgress
    <3>6. QED
      BY <3>3, <3>4, <3>5
  <2>3. QED
    BY <2>1, <2>2
<1>11. \A c \in 0..grid.chunks - 1 : Progress(c)'
  <2>1. ASSUME NEW c \in 0..grid.chunks - 1 PROVE Progress(c)'
    <3>1. (ask.route # "argmax")'
      BY <1>1
    <3>2. (Progress(c) <=> PlainProgress(c))'
      BY <3>1, PlainTurns, PTL
    <3>3. QED
      BY <1>10, <3>2
  <2>2. QED
    BY <2>1
<1>12. /\ at' \in {"segment", "embed"} /\ left' # {}
       /\ left' \subseteq IF ask.route = "argmax" THEN Nat ELSE 0..grid.chunks - 1
  <2>1. left # {c0} => left \ {c0} # {}
    BY <1>4
  <2>2. QED
    BY <1>1, <1>3, <1>4, <1>5, <2>1
<1>13. \A c \in 0..grid.chunks - 1 : slabs'[c] \in Slab0 /\ rows'[c] \in [Slots -> SUBSET Frames]
  BY <1>4, <1>5, <1>6
<1>14. retries' \in 0..MaxRetries
  BY <1>1 DEF ExtractionInd, PlacesInd
<1>15. QED
  BY <1>1, <1>5, <1>6, <1>11, <1>12, <1>13, <1>14, LoopsGoOn

LEMMA EmbedSlotsStep ==
  ASSUME ExtractionInd, at = "embed", ask.route # "argmax", NEW c0 \in 0..grid.chunks - 1, Segmented(c0),
         NEW drop \in SUBSET Speaking(slabs[c0]), EmbedSlots(c0, drop), ask' = ask, heard' = heard
  PROVE  /\ Embedded(c0)'
         /\ DOMAIN slabs' = DOMAIN slabs /\ DOMAIN rows' = DOMAIN rows
         /\ \A c \in 0..grid.chunks - 1 : slabs'[c] \in Slab0 /\ rows'[c] \in [Slots -> SUBSET Frames]
         /\ \A c \in 0..grid.chunks - 1 :
              c # c0 => /\ Untold(c)' = Untold(c) /\ Segmented(c)' = Segmented(c)
                        /\ Embedded(c)' = Embedded(c)
<1>1. /\ DOMAIN slabs = 0..grid.chunks - 1 /\ DOMAIN rows = 0..grid.chunks - 1
      /\ \A c \in 0..grid.chunks - 1 : slabs[c] \in Slab0 /\ rows[c] \in [Slots -> SUBSET Frames]
  BY NextTurn
<1>2. PICK said \in Slab0 : said = heard[c0] /\ said = slabs[c0]
  BY DEF Segmented
<1>3. /\ slabs' = [slabs EXCEPT ![c0] = KeptSlab(said, drop)]
      /\ rows' = [rows EXCEPT ![c0] = KeptRows(SlotPlans(said), drop)]
      /\ dull' = dull \cup {<<c0, s>> : s \in drop}
  BY <1>2 DEF EmbedSlots
<1>4. /\ slabs'[c0] = KeptSlab(said, drop) /\ rows'[c0] = KeptRows(SlotPlans(said), drop)
      /\ DOMAIN slabs' = DOMAIN slabs /\ DOMAIN rows' = DOMAIN rows
      /\ \A c \in 0..grid.chunks - 1 : c # c0 => slabs'[c] = slabs[c] /\ rows'[c] = rows[c]
  BY <1>1, <1>3
<1> DEFINE gone == {s \in Slots : <<c0, s>> \in dull'}
<1>5. \A s \in Slots : (s \in gone) = (s \in drop)
  <2>1. \A s \in Slots : <<c0, s>> \notin dull
    BY DEF Segmented
  <2>2. QED
    BY <1>3, <2>1
<1>6. drop \in SUBSET Speaking(said)
  BY <1>2
<1>7. /\ KeptSlab(said, drop) \in Slab0
      /\ KeptRows(SlotPlans(said), drop) \in [Slots -> SUBSET Frames]
      /\ EmbeddedAs(said, KeptSlab(said, drop), KeptRows(SlotPlans(said), drop), gone, 0)
  <2> HIDE DEF gone
  <2>1. QED
    BY <1>5, <1>6, SlotsAreEmbedded
<1>8. Embedded(c0)'
  <2>1. heard'[c0] = said /\ Gate' = 0
    BY <1>2 DEF Gate
  <2>2. QED
    BY <1>4, <1>7, <2>1 DEF Embedded
<1>9. ASSUME NEW c \in 0..grid.chunks - 1
      PROVE  slabs'[c] \in Slab0 /\ rows'[c] \in [Slots -> SUBSET Frames]
  <2>1. CASE c = c0
    BY <1>4, <1>7, <2>1
  <2>2. CASE c # c0
    BY <1>1, <1>4, <2>2
  <2>3. QED
    BY <2>1, <2>2
<1>10. ASSUME NEW c \in 0..grid.chunks - 1, c # c0
       PROVE  Untold(c)' = Untold(c) /\ Segmented(c)' = Segmented(c) /\ Embedded(c)' = Embedded(c)
  <2>1. \A s \in Slots : (<<c, s>> \in dull') = (<<c, s>> \in dull)
    BY <1>3, <1>10
  <2>2. slabs'[c] = slabs[c] /\ rows'[c] = rows[c]
    BY <1>4, <1>10
  <2>3. QED
    BY <2>1, <2>2, ChunksAreLeftAlone
<1>11. QED
  BY <1>4, <1>8, <1>9, <1>10

LEMMA EmbedStep ==
  ASSUME ExtractionInd, EmbedChunk \/ ExtractChunkEmbeddings
  PROVE  ExtractionInd'
<1>1. /\ at = "embed" /\ ask.route \in {"fused", "split"} /\ ask.route # "argmax"
      /\ at' = IF left' = {} THEN "assemble" ELSE IF ask.route = "fused" THEN "segment" ELSE "embed"
      /\ UNCHANGED <<ask, grid, heard, count, retries, outcome, clustering>>
  BY DEF EmbedChunk, ExtractChunkEmbeddings
<1>2. PICK c0 : /\ c0 \in left /\ (ask.route = "fused" => c0 = Min(left))
                /\ \E drop \in SUBSET Speaking(slabs[c0]) : EmbedSlots(c0, drop)
  <2>1. Min(left) \in left
    BY <1>1, NextTurn
  <2>2. CASE EmbedChunk
    BY <2>1, <2>2 DEF EmbedChunk, Unreachable
  <2>3. CASE ExtractChunkEmbeddings
    BY <2>3 DEF ExtractChunkEmbeddings, Unreachable
  <2>4. QED
    BY <2>2, <2>3
<1>3. PICK drop \in SUBSET Speaking(slabs[c0]) : EmbedSlots(c0, drop)
  BY <1>2
<1>4. left' = left \ {c0}
  BY <1>3 DEF EmbedSlots
<1>5. /\ left \in SUBSET Nat /\ left \subseteq 0..grid.chunks - 1 /\ c0 \in 0..grid.chunks - 1
      /\ DOMAIN heard = 0..grid.chunks - 1
      /\ \A c \in 0..grid.chunks - 1 : Progress(c)
  BY <1>1, <1>2, NextTurn
<1>6. \A c \in 0..grid.chunks - 1 : PlainProgress(c)
  BY <1>1, <1>5, PlainTurns
<1>7. Segmented(c0)
  BY <1>1, <1>2, <1>5, <1>6 DEF PlainProgress
<1>8. /\ Embedded(c0)'
      /\ DOMAIN slabs' = DOMAIN slabs /\ DOMAIN rows' = DOMAIN rows
      /\ \A c \in 0..grid.chunks - 1 : slabs'[c] \in Slab0 /\ rows'[c] \in [Slots -> SUBSET Frames]
      /\ \A c \in 0..grid.chunks - 1 :
           c # c0 => Untold(c)' = Untold(c) /\ Segmented(c)' = Segmented(c) /\ Embedded(c)' = Embedded(c)
  BY <1>1, <1>3, <1>5, <1>7, EmbedSlotsStep
<1>9. ASSUME NEW c \in 0..grid.chunks - 1 PROVE PlainProgress(c)'
  <2>1. CASE c = c0
    <3>1. Embedded(c)' /\ c \notin left'
      BY <1>4, <1>8, <2>1
    <3>2. QED
      BY <1>1, <3>1 DEF PlainProgress
  <2>2. CASE c # c0
    <3>1. Untold(c)' = Untold(c) /\ Segmented(c)' = Segmented(c) /\ Embedded(c)' = Embedded(c)
      BY <1>8, <2>2
    <3>2. PlainProgress(c) /\ (c \in left' <=> c \in left)
      BY <1>4, <1>6, <2>2
    <3>3. CASE ask.route = "fused"
      BY <1>1, <1>2, <1>4, <2>2, <3>1, <3>2, <3>3 DEF PlainProgress
    <3>4. CASE ask.route # "fused"
      BY <1>1, <1>4, <2>2, <3>1, <3>2, <3>4 DEF PlainProgress
    <3>5. QED
      BY <3>3, <3>4
  <2>3. QED
    BY <2>1, <2>2
<1>10. ASSUME NEW c \in 0..grid.chunks - 1 PROVE Progress(c)'
  <2>1. (ask.route # "argmax")'
    BY <1>1
  <2>2. (Progress(c) <=> PlainProgress(c))'
    BY <2>1, PlainTurns, PTL
  <2>3. QED
    BY <1>9, <2>2
<1>11. at' # "assemble" =>
         left' # {} /\ left' \subseteq IF ask.route = "argmax" THEN Nat ELSE 0..grid.chunks - 1
  BY <1>1, <1>4, <1>5
<1>12. retries' \in 0..MaxRetries /\ at' \in {"segment", "embed", "assemble"}
  BY <1>1 DEF ExtractionInd, PlacesInd
<1>13. QED
  BY <1>1, <1>5, <1>8, <1>10, <1>11, <1>12, LoopsGoOn

\* A failed call leaves every chunk as it was.
LEMMA RetryStep ==
  ASSUME ExtractionInd, EmbedFailsAndIsRetried
  PROVE  ExtractionInd'
<1>1. /\ at = "embed" /\ at' = at /\ ask.route = "split" /\ retries' = retries + 1 /\ retries < MaxRetries
      /\ UNCHANGED <<ask, grid, heard, dull, rows, count, left, outcome, clustering>>
  BY DEF EmbedFailsAndIsRetried
<1>2. PICK c0 \in left : slabs' = [slabs EXCEPT ![c0] = SkippedSlab(slabs[c0])]
  BY DEF EmbedFailsAndIsRetried
<1>3. /\ left # {} /\ left \subseteq 0..grid.chunks - 1
      /\ DOMAIN slabs = 0..grid.chunks - 1
      /\ \A c \in 0..grid.chunks - 1 : Progress(c) /\ slabs[c] \in Slab0 /\ rows[c] \in [Slots -> SUBSET Frames]
  BY <1>1, NextTurn
<1>4. SkippedSlab(slabs[c0]) = slabs[c0]
  BY <1>3, SkippingChangesNothing
<1>5. \A c \in 0..grid.chunks - 1 : slabs'[c] = slabs[c]
  BY <1>2, <1>3, <1>4
<1>6. DOMAIN slabs' = DOMAIN slabs
  BY <1>2, <1>3
<1>7. ASSUME NEW c \in 0..grid.chunks - 1 PROVE Progress(c)'
  <2>1. Untold(c)' = Untold(c) /\ Segmented(c)' = Segmented(c) /\ Embedded(c)' = Embedded(c)
    BY <1>1, <1>5, ChunksAreLeftAlone
  <2>2. Progress(c)
    BY <1>3
  <2>3. QED
    BY <1>1, <2>1, <2>2 DEF Progress
<1>8. retries' \in 0..MaxRetries
  BY <1>1, ExtractionAssumption DEF ExtractionInd, PlacesInd
<1>9. QED
  BY <1>1, <1>3, <1>5, <1>6, <1>7, <1>8, LoopsGoOn

\* What an outer chunk's step makes of the windows' chunks.
LEMMA OuterTurn ==
  ASSUME ExtractionInd, at \in {"segment", "embed"}, ask.route = "argmax"
  PROVE  /\ Share(Min(left)) = BoundedChunks(Min(left))
         /\ Ahead(left) = Share(Min(left)) \cup Ahead(left \ {Min(left)})
         /\ Share(Min(left)) \cap Ahead(left \ {Min(left)}) = {}
<1>1. left \in SUBSET Nat /\ Min(left) \in left
  BY NextTurn
<1>2. QED
  BY <1>1, SharesAreApart DEF Share

LEMMA SegmentOuterStep ==
  ASSUME ExtractionInd, SegmentOuter
  PROVE  ExtractionInd'
<1>1. /\ at = "segment" /\ at' = "embed" /\ ask.route = "argmax"
      /\ UNCHANGED <<ask, grid, dull, rows, count, left, retries, outcome, clustering>>
  BY DEF SegmentOuter
<1> DEFINE here == BoundedChunks(Min(left))
           rest == Ahead(left \ {Min(left)})
<1>2. PICK said \in [here -> ask.slabs] :
        /\ heard' = [c \in DOMAIN heard |-> IF c \in DOMAIN said THEN said[c] ELSE heard[c]]
        /\ slabs' = [c \in DOMAIN slabs |-> IF c \in DOMAIN said THEN GatedSlab(said[c]) ELSE slabs[c]]
  BY <1>1 DEF SegmentOuter
<1>3. /\ ask.slabs \subseteq Slab0
      /\ left # {} /\ left \in SUBSET Nat
      /\ DOMAIN heard = 0..grid.chunks - 1 /\ DOMAIN slabs = 0..grid.chunks - 1
      /\ \A c \in 0..grid.chunks - 1 : Progress(c) /\ slabs[c] \in Slab0
                                         /\ rows[c] \in [Slots -> SUBSET Frames]
  BY <1>1, NextTurn
<1>4. Share(Min(left)) = here /\ Ahead(left) = here \cup rest /\ here \cap rest = {}
  BY <1>1, OuterTurn
<1>5. Share(Min(left))' = Share(Min(left)) /\ Ahead(left \ {Min(left)})' = Ahead(left \ {Min(left)})
  BY <1>1 DEF Share, Ahead, BoundedChunks, BoundedWindows
<1> HIDE DEF here, rest
<1>6. ASSUME NEW c \in 0..grid.chunks - 1
      PROVE  Progress(c)' /\ slabs'[c] \in Slab0
  <2>1. CASE c \in here
    <3>1. said[c] \in Slab0 /\ heard'[c] = said[c] /\ slabs'[c] = GatedSlab(said[c])
      BY <1>2, <1>3, <2>1
    <3>2. slabs'[c] \in Slab0
      BY <3>1, ZeroedSlabs DEF GatedSlab
    <3>3. Untold(c)
      BY <1>1, <1>3, <1>4, <2>1 DEF Progress
    <3>4. Segmented(c)'
      BY <1>1, <3>1, <3>3 DEF Segmented, Untold
    <3>5. c \in Share(Min(left))'
      BY <1>4, <1>5, <2>1
    <3>6. QED
      BY <1>1, <3>2, <3>4, <3>5 DEF Progress
  <2>2. CASE c \notin here
    <3>1. heard'[c] = heard[c] /\ slabs'[c] = slabs[c]
      BY <1>2, <1>3, <2>2
    <3>2. Untold(c)' = Untold(c) /\ Segmented(c)' = Segmented(c) /\ Embedded(c)' = Embedded(c)
      BY <1>1, <3>1, ChunksAreLeftAlone
    <3>3. IF c \in rest THEN Untold(c) ELSE Embedded(c)
      BY <1>1, <1>3, <1>4, <2>2 DEF Progress
    <3>4. c \notin Share(Min(left))' /\ (c \in Ahead(left \ {Min(left)})' <=> c \in rest)
      BY <1>4, <1>5, <2>2 DEF rest
    <3>5. QED
      BY <1>1, <1>3, <3>1, <3>2, <3>3, <3>4 DEF Progress
  <2>3. QED
    BY <2>1, <2>2
<1>7. DOMAIN heard' = DOMAIN heard /\ DOMAIN slabs' = DOMAIN slabs
  BY <1>2
<1>8. retries' \in 0..MaxRetries
  BY <1>1 DEF ExtractionInd, PlacesInd
<1>9. QED
  BY <1>1, <1>3, <1>6, <1>7, <1>8, LoopsGoOn

LEMMA EmbedOuterStep ==
  ASSUME ExtractionInd, EmbedOuter
  PROVE  ExtractionInd'
<1>1. /\ at = "embed" /\ ask.route = "argmax"
      /\ left' = left \ {Min(left)}
      /\ at' = IF left' = {} THEN "assemble" ELSE "segment"
      /\ UNCHANGED <<ask, grid, heard, count, retries, outcome, clustering>>
  BY DEF EmbedOuter
<1> DEFINE here == BoundedChunks(Min(left))
           rest == Ahead(left \ {Min(left)})
<1>2. PICK drop \in [here -> SUBSET Slots] :
        /\ \A c \in here : drop[c] \in SUBSET ActiveSpeakers(heard[c])
        /\ slabs' = [c \in DOMAIN slabs |->
                       IF c \in here THEN ZeroColumns(slabs[c], drop[c]) ELSE slabs[c]]
        /\ rows' = [c \in DOMAIN rows |->
                      IF c \in here THEN KeptRows(GatedPlans(heard[c]), drop[c]) ELSE rows[c]]
        /\ dull' = dull \cup UNION {{<<c, s>> : s \in drop[c]} : c \in here}
  BY DEF EmbedOuter, Unreachable
<1>3. /\ left # {} /\ left \in SUBSET Nat
      /\ DOMAIN heard = 0..grid.chunks - 1 /\ DOMAIN slabs = 0..grid.chunks - 1
      /\ DOMAIN rows = 0..grid.chunks - 1
      /\ \A c \in 0..grid.chunks - 1 : Progress(c) /\ slabs[c] \in Slab0
                                         /\ rows[c] \in [Slots -> SUBSET Frames]
  BY <1>1, NextTurn
<1>4. Share(Min(left)) = here /\ Ahead(left) = here \cup rest /\ here \cap rest = {}
  BY <1>1, OuterTurn
<1>5. Ahead(left)' = rest
  BY <1>1 DEF Share, Ahead, BoundedChunks, BoundedWindows
<1> HIDE DEF here, rest
<1>6. ASSUME NEW c \in 0..grid.chunks - 1
      PROVE  Progress(c)' /\ slabs'[c] \in Slab0 /\ rows'[c] \in [Slots -> SUBSET Frames]
  <2>1. CASE c \in here
    <3>1. Segmented(c)
      BY <1>1, <1>3, <1>4, <2>1 DEF Progress
    <3>2. PICK told \in Slab0 : told = heard[c] /\ slabs[c] = GatedSlab(told)
      BY <1>1, <3>1 DEF Segmented
    <3>3. PICK lost \in SUBSET ActiveSpeakers(told) : lost = drop[c]
      BY <1>2, <2>1, <3>2
    <3>4. /\ slabs'[c] = ZeroColumns(GatedSlab(told), lost)
          /\ rows'[c] = KeptRows(GatedPlans(told), lost)
      BY <1>2, <1>3, <2>1, <3>2, <3>3
    <3>5. \A s \in Slots : (<<c, s>> \in dull') = (s \in lost)
      <4>1. \A s \in Slots : <<c, s>> \notin dull
        BY <3>1 DEF Segmented
      <4>2. QED
        BY <1>2, <2>1, <3>3, <4>1
    <3> DEFINE gone == {s \in Slots : <<c, s>> \in dull'}
    <3>6. \A s \in Slots : (s \in gone) = (s \in lost)
      BY <3>5
    <3>7. /\ ZeroColumns(GatedSlab(told), lost) \in Slab0
          /\ KeptRows(GatedPlans(told), lost) \in [Slots -> SUBSET Frames]
          /\ EmbeddedAs(told, ZeroColumns(GatedSlab(told), lost), KeptRows(GatedPlans(told), lost),
                        gone, MinActive)
      <4> HIDE DEF gone
      <4>1. QED
        BY <3>6, GatedAreEmbedded
    <3>8. Embedded(c)'
      <4>1. heard'[c] = told /\ Gate' = MinActive
        BY <1>1, <3>2 DEF Gate
      <4>2. QED
        BY <3>4, <3>7, <4>1 DEF Embedded
    <3>9. c \notin Ahead(left)'
      BY <1>4, <1>5, <2>1
    <3>10. QED
      BY <1>1, <3>4, <3>7, <3>8, <3>9 DEF Progress
  <2>2. CASE c \notin here
    <3>1. slabs'[c] = slabs[c] /\ rows'[c] = rows[c]
      BY <1>2, <1>3, <2>2
    <3>2. \A s \in Slots : (<<c, s>> \in dull') = (<<c, s>> \in dull)
      BY <1>2, <2>2
    <3>3. Untold(c)' = Untold(c) /\ Segmented(c)' = Segmented(c) /\ Embedded(c)' = Embedded(c)
      BY <1>1, <3>1, <3>2, ChunksAreLeftAlone
    <3>4. IF c \in rest THEN Untold(c) ELSE Embedded(c)
      BY <1>1, <1>3, <1>4, <2>2 DEF Progress, rest
    <3>5. (left' = {}) => c \notin rest
      BY <1>1 DEF rest, Ahead
    <3>6. QED
      BY <1>1, <1>3, <1>5, <3>1, <3>3, <3>4, <3>5 DEF Progress
  <2>3. QED
    BY <2>1, <2>2
<1>7. DOMAIN heard' = DOMAIN heard /\ DOMAIN slabs' = DOMAIN slabs /\ DOMAIN rows' = DOMAIN rows
  BY <1>1, <1>2
<1>8. retries' \in 0..MaxRetries
  BY <1>1 DEF ExtractionInd, PlacesInd
<1>9. at' # "assemble" =>
        left' # {} /\ left' \subseteq IF ask.route = "argmax" THEN Nat ELSE 0..grid.chunks - 1
  BY <1>1, <1>3
<1>10. QED
  BY <1>1, <1>6, <1>7, <1>8, <1>9, LoopsGoOn

LEMMA AssembleStep ==
  ASSUME ExtractionInd, Assemble
  PROVE  ExtractionInd'
<1> DEFINE refusal == AssembledRefusal(ExtractionParts(grid, slabs, rows, SourceCount, TRUE))
<1>1. /\ at = "assemble" /\ count' = SourceCount
      /\ IF refusal = "none" THEN outcome' = "ok" /\ at' = "ready" ELSE outcome' = refusal /\ at' = "done"
      /\ UNCHANGED <<ask, grid, heard, dull, slabs, rows, left, retries, clustering>>
  BY DEF Assemble, Verdict, Fail
<1>2. /\ ask \in Asks /\ Sourced /\ grid = GridOf(ask) /\ Refusal(ask) = "none"
      /\ created = 0 /\ retries \in 0..MaxRetries
  BY <1>1 DEF ExtractionInd, PlacesInd, GridInd, Infers
<1>3. /\ ask.route \in {"fused", "split", "argmax"} /\ ask.total \in Nat /\ ask.step \in Nat \ {0}
      /\ ask.route # "split" => ~Long(ask.total, ask.step) /\ ~Exposed(ask.total, ask.step)
  BY <1>2, CallsAreSound DEF Sourced
<1>4. /\ DOMAIN heard = 0..grid.chunks - 1 /\ DOMAIN slabs = 0..grid.chunks - 1
      /\ \A c \in 0..grid.chunks - 1 : Embedded(c)
  BY <1>1 DEF ExtractionInd, HeardInd, Infers, Progress
<1>5. ASSUME NEW c \in 0..grid.chunks - 1, NEW s \in Speaking(slabs[c]) PROVE rows[c][s] # {}
  <2>1. Gate \in Nat
    BY ExtractionAssumption DEF Gate
  <2>2. heard[c] \in Slab0 /\ EmbeddedAs(heard[c], slabs[c], rows[c], {x \in Slots : <<c, x>> \in dull}, Gate)
    BY <1>4 DEF Embedded
  <2> DEFINE gone == {x \in Slots : <<c, x>> \in dull}
  <2> HIDE DEF gone
  <2>3. EmbeddedAs(heard[c], slabs[c], rows[c], gone, Gate)
    BY <2>2 DEF gone
  <2>4. QED
    BY <2>1, <2>2, <2>3, EmbeddedHasRows
<1> HIDE DEF refusal
<1>6. refusal = AssembledRefusal(ExtractionParts(grid, slabs, rows, SourceCount, TRUE))
  BY DEF refusal
<1>7. \A c \in 0..grid.chunks - 1 : \A s \in Speaking(slabs[c]) : rows[c][s] # {}
  BY <1>5
<1>8. /\ DOMAIN SourceCount = 0..NumOutputFrames(grid.chunks, grid.chunksSW, grid.framesSW) - 1
      /\ \/ refusal = "none"
         \/ refusal = "OutputFrameCountTooLarge" /\ Long(ask.total, ask.step)
         \/ refusal = "UncoveredLastChunk" /\ Exposed(ask.total, ask.step)
  BY <1>2, <1>3, <1>6, <1>7, SourcesAreRarelyRefused
<1>9. TensorsInd'
  BY <1>1, TensorsAreLeftAlone
<1>10. GridInd'
  BY <1>1, <1>2 DEF GridInd, Sourced
<1>11. PlacesInd'
  BY <1>1, <1>2, ExtractionAssumption DEF PlacesInd, Infers, clustering
<1>12. HeardInd'
  <2>1. ASSUME NEW c \in 0..grid.chunks - 1, at' = "ready" PROVE Progress(c)'
    <3>1. Embedded(c)'
      BY <1>1, <1>4, ChunksAreLeftAlone
    <3>2. QED
      BY <2>1, <3>1 DEF Progress
  <2>2. QED
    BY <1>1, <1>4, <2>1 DEF HeardInd, Infers, Sourced
<1>13. OutcomeInd'
  BY <1>1, <1>8 DEF OutcomeInd
<1>14. ProducersAreNotRefused'
  <2>1. SUFFICES ASSUME at' = "done"
                 PROVE  /\ ask.route = "split"
                        /\ \E i \in 1..5 : GeometryChecks(ask.total, ask.step)[i] = <<outcome', TRUE>>
    BY <1>1 DEF ProducersAreNotRefused
  <2>2. refusal # "none" /\ outcome' = refusal
    BY <1>1, <2>1
  <2>3. ask.route = "split"
    BY <1>3, <1>8, <2>2
  <2>4. CASE refusal = "OutputFrameCountTooLarge" /\ Long(ask.total, ask.step)
    <3>1. Long(ask.total, ask.step) = TRUE
      BY <2>4 DEF Long
    <3>2. GeometryChecks(ask.total, ask.step)[1] = <<outcome', TRUE>>
      BY <2>2, <2>4, <3>1, GeometryIsChecked, Zenon
    <3>3. 1 \in 1..5
      OBVIOUS
    <3>4. QED
      BY <2>3, <3>2, <3>3, Zenon
  <2>5. CASE refusal = "UncoveredLastChunk" /\ Exposed(ask.total, ask.step)
    <3>1. Exposed(ask.total, ask.step) = TRUE
      BY <2>5 DEF Exposed, UncoveredLastChunk
    <3>2. GeometryChecks(ask.total, ask.step)[5] = <<outcome', TRUE>>
      BY <2>2, <2>5, <3>1, GeometryIsChecked, Zenon
    <3>3. 5 \in 1..5
      OBVIOUS
    <3>4. QED
      BY <2>3, <3>2, <3>3, Zenon
  <2>6. QED
    BY <1>8, <2>2, <2>4, <2>5
<1>15. QED
  BY <1>9, <1>10, <1>11, <1>12, <1>13, <1>14 DEF ExtractionInd

LEMMA TryFromPartsStep ==
  ASSUME ExtractionInd, TryFromParts
  PROVE  ExtractionInd'
<1>1. /\ at = "called" /\ ask.route = "assembled" /\ at' \in {"ready", "done"}
      /\ slabs' = ask.parts.slabs /\ rows' = ask.parts.rows
      /\ UNCHANGED <<ask, heard, dull, left, retries, clustering>>
  BY DEF TryFromParts, Verdict, Fail
<1>2. ask \in Asks /\ created = 0 /\ retries \in 0..MaxRetries
  BY <1>1 DEF ExtractionInd, PlacesInd
<1>3. ~Sourced' /\ ~Infers'
  BY <1>1 DEF Sourced, Infers
<1>4. TensorsInd'
  BY <1>1, <1>2, <1>3, AsksAssumption DEF TensorsInd
<1>5. PlacesInd'
  BY <1>1, <1>2, <1>3, ExtractionAssumption DEF PlacesInd, clustering
<1>6. GridInd' /\ HeardInd' /\ OutcomeInd' /\ ProducersAreNotRefused'
  BY <1>3 DEF GridInd, HeardInd, OutcomeInd, ProducersAreNotRefused
<1>7. QED
  BY <1>4, <1>5, <1>6 DEF ExtractionInd

\* The clustering reads the tensors and has an end of its own.
LEMMA ClusteringGoesOn ==
  ASSUME ExtractionInd, at \in {"ready", "cluster"}, at' \in {"cluster", "done"},
         UNCHANGED <<ask, grid, slabs, rows, count>>, retries' \in 0..MaxRetries,
         created' \in 0..MaxClusterId + 2, at' = "cluster" => created' \in 0..MaxClusterId + 1,
         at' = "cluster" => outcome' = outcome,
         Sourced => outcome' \in {outcome, "HardClustersIdAboveMax"}
  PROVE  ExtractionInd'
<1>1. TensorsInd'
  BY TensorsAreLeftAlone
<1>2. PlacesInd'
  BY DEF ExtractionInd, PlacesInd, Infers
<1>3. GridInd' /\ HeardInd'
  BY DEF ExtractionInd, GridInd, HeardInd, Infers, Sourced
<1>4. Sourced => outcome = "ok"
  BY DEF ExtractionInd, OutcomeInd
<1>5. OutcomeInd'
  BY DEF ExtractionInd, OutcomeInd, Sourced
<1>6. ProducersAreNotRefused'
  BY <1>4 DEF ProducersAreNotRefused, Sourced
<1>7. QED
  BY <1>1, <1>2, <1>3, <1>5, <1>6 DEF ExtractionInd

LEMMA ClusterStep ==
  ASSUME ExtractionInd,
         DiarizeOnline \/ PassOver \/ AssignNew \/ AssignExisting \/ AssignDropped
  PROVE  ExtractionInd'
<1>1. /\ retries \in 0..MaxRetries /\ 0 \in 0..MaxRetries
      /\ at = "cluster" => created \in 0..MaxClusterId + 1
      /\ at = "ready" => created = 0
  BY ExtractionAssumption DEF ExtractionInd, PlacesInd
<1>2. CASE DiarizeOnline
  <2>1. /\ at = "ready" /\ at' = "cluster" /\ retries' = 0
        /\ UNCHANGED <<ask, grid, slabs, rows, count, outcome, created, online>>
    BY <1>2 DEF DiarizeOnline
  <2>2. QED
    BY <1>1, <2>1, ExtractionAssumption, ClusteringGoesOn
<1>3. CASE PassOver \/ AssignDropped
  <2>1. /\ at = "cluster" /\ at' = "cluster" /\ retries' = retries
        /\ UNCHANGED <<ask, grid, slabs, rows, count, outcome, created>>
    BY <1>3 DEF PassOver, AssignDropped, tensors, clustering
  <2>2. QED
    BY <1>1, <2>1, ExtractionAssumption, ClusteringGoesOn
<1>4. CASE AssignExisting
  <2>1. /\ at = "cluster" /\ at' = "cluster" /\ retries' = retries
        /\ UNCHANGED <<ask, grid, slabs, rows, count, outcome, created>>
    BY <1>4 DEF AssignExisting, tensors
  <2>2. QED
    BY <1>1, <2>1, ExtractionAssumption, ClusteringGoesOn
<1>5. CASE AssignNew
  <2>1. /\ at = "cluster" /\ retries' = retries /\ created' = created + 1
        /\ UNCHANGED <<ask, grid, slabs, rows, count>>
        /\ IF created > MaxClusterId THEN outcome' = "HardClustersIdAboveMax" /\ at' = "done"
           ELSE at' = "cluster" /\ outcome' = outcome
    BY <1>5 DEF AssignNew, Fail, tensors
  <2>2. /\ created' \in 0..MaxClusterId + 2
        /\ created <= MaxClusterId => created' \in 0..MaxClusterId + 1
    BY <1>1, <2>1, ExtractionAssumption
  <2>3. CASE created > MaxClusterId
    BY <1>1, <2>1, <2>2, <2>3, ClusteringGoesOn
  <2>4. CASE ~(created > MaxClusterId)
    <3>1. created <= MaxClusterId
      BY <1>1, <2>1, <2>4, ExtractionAssumption
    <3>2. QED
      BY <1>1, <2>1, <2>2, <2>4, <3>1, ClusteringGoesOn
  <2>5. QED
    BY <2>3, <2>4
<1>6. QED
  BY <1>2, <1>3, <1>4, <1>5

\* The count has as many frames as the clusters are counted on.
LEMMA CountClustersStep ==
  ASSUME ExtractionInd, CountClusters
  PROVE  ExtractionInd'
<1>1. /\ at = "cluster" /\ at' = "done" /\ retries' = retries /\ created' = created
      /\ UNCHANGED <<ask, grid, slabs, rows, count>>
      /\ \/ outcome' = outcome
         \/ NumOutputFrames(grid.chunks, grid.chunksSW, grid.framesSW) # Cardinality(DOMAIN count)
  BY DEF CountClusters, tensors
<1>2. /\ retries \in 0..MaxRetries /\ created \in 0..MaxClusterId + 2
  BY <1>1, ExtractionAssumption DEF ExtractionInd, PlacesInd
<1>3. Sourced => NumOutputFrames(grid.chunks, grid.chunksSW, grid.framesSW) = Cardinality(DOMAIN count)
  <2>1. SUFFICES ASSUME Sourced
                 PROVE  NumOutputFrames(grid.chunks, grid.chunksSW, grid.framesSW) = Cardinality(DOMAIN count)
    OBVIOUS
  <2>2. /\ ask \in Asks /\ grid = GridOf(ask) /\ Refusal(ask) = "none"
        /\ DOMAIN count = 0..NumOutputFrames(grid.chunks, grid.chunksSW, grid.framesSW) - 1
    BY <1>1, <2>1 DEF ExtractionInd, PlacesInd, GridInd, OutcomeInd
  <2>3. ask.total \in Nat /\ ask.step \in Nat \ {0}
    BY <2>1, <2>2, CallsAreSound DEF Sourced
  <2>4. NumChunks(ask.total, ask.step) \in Nat \ {0}
    BY <2>3, ChunksOfARecording
  <2>5. /\ grid.chunks = NumChunks(ask.total, ask.step) /\ grid.chunksSW = ChunkSlidingWindow(ask.step)
        /\ grid.framesSW = FrameSlidingWindow
    BY <2>2 DEF GridOf
  <2>6. PICK n \in Nat \ {0} : n = NumOutputFrames(grid.chunks, grid.chunksSW, grid.framesSW)
    BY <2>3, <2>4, <2>5, FramesOfARecording
  <2>7. Cardinality(0..n - 1) = n
    BY FS_Interval
  <2>8. QED
    BY <2>2, <2>6, <2>7
<1>4. Sourced => outcome' = outcome
  BY <1>1, <1>3
<1>5. QED
  BY <1>1, <1>2, <1>4, ClusteringGoesOn

LEMMA ExtractionIndHolds == ExtractionInd => ExtractionHolds
<1> SUFFICES ASSUME ExtractionInd PROVE ExtractionHolds
  OBVIOUS
<1>1. TypeOK
  <2>1. created \in 0..MaxClusterId + 2
    BY ExtractionAssumption DEF ExtractionInd, PlacesInd
  <2>2. QED
    BY <2>1 DEF ExtractionInd, PlacesInd, TensorsInd, TypeOK
<1>2. WhatWasHeard
  <2>1. SUFFICES ASSUME at = "ready", Sourced, NEW c \in DOMAIN slabs, NEW s \in Slots
                 PROVE  LET said == Column(heard[c], s)
                            alone == {f \in said : heard[c][f] = {s}}
                            live == Cardinality(said) > Gate /\ <<c, s>> \notin dull
                        IN /\ Column(slabs[c], s) = IF live THEN said ELSE {}
                           /\ rows[c][s] = IF ~live THEN {}
                                           ELSE IF Cardinality(alone) > MinClean THEN alone ELSE said
    BY DEF WhatWasHeard
  <2>2. Embedded(c)
    BY <2>1 DEF ExtractionInd, HeardInd, Progress
  <2> DEFINE gone == {x \in Slots : <<c, x>> \in dull}
  <2>3. EmbeddedAs(heard[c], slabs[c], rows[c], gone, Gate)
    BY <2>2 DEF Embedded
  <2>4. (s \in gone) = (<<c, s>> \in dull)
    OBVIOUS
  <2> HIDE DEF gone
  <2>5. QED
    BY <2>3, <2>4 DEF EmbeddedAs
<1>3. QED
  BY <1>1, <1>2 DEF ExtractionHolds, ExtractionInd

LEMMA ExtractionInitInd == Init => ExtractionInd
<1> SUFFICES ASSUME Init PROVE ExtractionInd
  OBVIOUS
<1>1. /\ ask \in Asks /\ at = "called" /\ grid = NoGrid /\ slabs = <<>> /\ rows = <<>> /\ dull = {}
      /\ retries = 0 /\ created = 0
  BY DEF Init
<1>2. PlacesInd
  BY <1>1, ExtractionAssumption DEF PlacesInd, Infers
<1>3. DOMAIN slabs = {} /\ DOMAIN rows = {}
  BY <1>1
<1>4. QED
  BY <1>1, <1>2, <1>3
     DEF ExtractionInd, GridInd, TensorsInd, HeardInd, OutcomeInd, ProducersAreNotRefused, Infers

LEMMA ExtractionsGoOn ==
  ASSUME ExtractionInd, UNCHANGED vars
  PROVE  ExtractionInd'
<1>1. ask' = ask /\ UNCHANGED <<at, grid, heard, dull, slabs, rows, count, left, retries, outcome, hard, created, online>>
  BY DEF vars
<1>2. PlacesInd'
  BY <1>1 DEF ExtractionInd, PlacesInd, Infers, Sourced
<1>3. GridInd' /\ TensorsInd' /\ OutcomeInd' /\ ProducersAreNotRefused'
  BY <1>1 DEF ExtractionInd, GridInd, TensorsInd, OutcomeInd, ProducersAreNotRefused, Sourced
<1>4. ASSUME NEW c, Progress(c) PROVE Progress(c)'
  <2>1. Untold(c)' = Untold(c) /\ Segmented(c)' = Segmented(c) /\ Embedded(c)' = Embedded(c)
    BY <1>1, ChunksAreLeftAlone
  <2>2. \A k : Share(k)' = Share(k)
    BY <1>1, SharesStay
  <2>3. Share(Min(left))' = Share(Min(left)) /\ Ahead(left)' = Ahead(left)
        /\ Ahead(left \ {Min(left)})' = Ahead(left \ {Min(left)})
    BY <1>1 DEF Share, Ahead, BoundedChunks, BoundedWindows
  <2>4. QED
    BY <1>1, <1>4, <2>1, <2>3 DEF Progress
<1>5. HeardInd'
  BY <1>1, <1>4 DEF ExtractionInd, HeardInd, Infers, Sourced
<1>6. QED
  BY <1>2, <1>3, <1>5 DEF ExtractionInd

LEMMA ExtractionStep ==
  ASSUME ExtractionInd, Next
  PROVE  ExtractionInd'
<1>1. CASE Refuse \/ Unavailable
  BY <1>1, RefuseStep
<1>2. CASE Begin
  BY <1>2, BeginStep
<1>3. CASE SegmentChunk
  BY <1>3, SegmentChunkStep
<1>4. CASE EmbedChunk \/ ExtractChunkEmbeddings
  BY <1>4, EmbedStep
<1>5. CASE SplitRefused \/ InferenceFails
  BY <1>5, FailStep
<1>6. CASE EmbedFailsAndIsRetried
  BY <1>6, RetryStep
<1>7. CASE SegmentOuter
  BY <1>7, SegmentOuterStep
<1>8. CASE EmbedOuter
  BY <1>8, EmbedOuterStep
<1>9. CASE Assemble
  BY <1>9, AssembleStep
<1>10. CASE TryFromParts
  BY <1>10, TryFromPartsStep
<1>11. CASE DiarizeOnline \/ PassOver \/ AssignNew \/ AssignExisting \/ AssignDropped
  BY <1>11, ClusterStep
<1>12. CASE CountClusters
  BY <1>12, CountClustersStep
<1>13. CASE Done
  BY <1>13, ExtractionsGoOn DEF Done
<1>14. QED
  BY <1>1, <1>2, <1>3, <1>4, <1>5, <1>6, <1>7, <1>8, <1>9, <1>10, <1>11, <1>12, <1>13 DEF Next

\* Whatever the segmenter hears, whichever route is taken and whatever fails on
\* the way: what is assembled is what was heard, and the checks a source shares
\* with the parts of a caller refuse none of its extractions.
THEOREM ExtractionsAreSound == Spec => []ExtractionHolds
<1>1. Init => ExtractionInd
  BY ExtractionInitInd
<1>2. ExtractionInd /\ [Next]_vars => ExtractionInd'
  BY ExtractionStep, ExtractionsGoOn
<1>3. ExtractionInd => ExtractionHolds
  BY ExtractionIndHolds
<1>4. QED
  BY <1>1, <1>2, <1>3, PTL DEF Spec

-----------------------------------------------------------------------------
(* The grid leaves no sample out.                                          *)

LEMMA Multiples ==
  ASSUME NEW step \in Nat \ {0}, NEW a \in Nat, NEW b \in Nat
  PROVE  /\ a * step \in Nat /\ (a + 1) * step = a * step + step
         /\ (a <= b) <=> (a * step <= b * step)
         /\ (a < b) <=> (a * step + step <= b * step)
<1>1. a * step \in Nat /\ b * step \in Nat /\ (a + 1) * step = a * step + step
  OBVIOUS
<1>2. ASSUME a <= b PROVE a * step <= b * step
  <2>1. PICK d \in Nat : b = a + d
    <3>1. b - a \in Nat /\ b = a + (b - a)
      BY <1>2
    <3>2. QED
      BY <3>1
  <2>2. (a + d) * step = a * step + d * step /\ d * step \in Nat
    OBVIOUS
  <2>3. QED
    BY <1>1, <2>1, <2>2
<1>3. ASSUME a < b PROVE a * step + step <= b * step
  <2>1. PICK d \in Nat : b = a + 1 + d
    <3>1. b - a - 1 \in Nat /\ b = a + 1 + (b - a - 1)
      BY <1>3
    <3>2. QED
      BY <3>1
  <2>2. (a + 1 + d) * step = a * step + step + d * step /\ d * step \in Nat
    OBVIOUS
  <2>3. QED
    BY <1>1, <2>1, <2>2
<1>4. ASSUME b < a PROVE b * step + step <= a * step
  <2>1. PICK d \in Nat : a = b + 1 + d
    <3>1. a - b - 1 \in Nat /\ a = b + 1 + (a - b - 1)
      BY <1>4
    <3>2. QED
      BY <3>1
  <2>2. (b + 1 + d) * step = b * step + step + d * step /\ d * step \in Nat
    OBVIOUS
  <2>3. QED
    BY <1>1, <2>1, <2>2
<1>5. QED
  BY <1>1, <1>2, <1>3, <1>4

\* A chunk after the first is there when the one before it ends too early.
LEMMA ChunksGoOn ==
  ASSUME NEW total \in Nat, NEW step \in Nat \ {0}, NEW c \in Nat \ {0}
  PROVE  (c < NumChunks(total, step)) <=> ((c - 1) * step + ChunkSamples < total)
<1>1. PICK b \in Nat : b = c - 1 /\ c = b + 1
  <2>1. c - 1 \in Nat /\ c = (c - 1) + 1
    OBVIOUS
  <2>2. QED
    BY <2>1
<1>2. PICK run \in Nat : run = b * step
  BY Products
<1>3. ChunkSamples \in Nat \ {0}
  BY WindowsAssumption
<1>4. CASE total <= ChunkSamples
  <2>1. NumChunks(total, step) = 1
    BY <1>4 DEF NumChunks
  <2>2. QED
    BY <1>1, <1>2, <1>3, <1>4, <2>1
<1>5. CASE ~(total <= ChunkSamples)
  <2>1. PICK over \in Nat : over = total - ChunkSamples + step - 1 /\ over >= step
    <3>1. total - ChunkSamples + step - 1 \in Nat /\ total - ChunkSamples + step - 1 >= step
      BY <1>3, <1>5
    <3>2. QED
      BY <3>1
  <2>2. PICK q \in Nat, r \in 0..step - 1 : q = over \div step /\ over = step * q + r
    BY Quotients
  <2>3. NumChunks(total, step) = q + 1
    BY <1>5, <2>1, <2>2 DEF NumChunks
  <2>4. step * q = q * step
    OBVIOUS
  <2>5. PICK whole \in Nat : whole = q * step
    BY Products
  <2>6. (b < q) <=> (run + step <= whole)
    BY <1>2, <2>5, Multiples
  <2>7. over = whole + r
    BY <2>2, <2>4, <2>5
  <2>8. (c < q + 1) <=> (b < q)
    BY <1>1
  <2>9. (run + ChunkSamples < total) <=> (run + step <= over)
    BY <1>3, <2>1
  <2>10. (run + step <= whole) => (run + step <= over)
    BY <2>7
  <2>11. ASSUME run + step <= over PROVE run + step <= whole
    <3>1. (q + 1) * step = whole + step /\ (b + 1) * step = run + step
      BY <1>2, <2>5, Multiples
    <3>2. (b + 1) * step < (q + 1) * step
      BY <2>7, <2>11, <3>1
    <3>3. b + 1 <= q
      <4>1. CASE q + 1 <= b + 1
        <5>1. (q + 1) * step <= (b + 1) * step
          BY <4>1, Multiples
        <5>2. QED
          BY <3>1, <3>2, <5>1
      <4>2. QED
        BY <4>1
    <3>4. QED
      BY <2>6, <3>3
  <2>12. QED
    BY <1>1, <1>2, <2>3, <2>6, <2>8, <2>9, <2>10, <2>11
<1>6. QED
  BY <1>4, <1>5

\* Every sample falls into a chunk.
LEMMA EverySampleIsHeard ==
  ASSUME NEW total \in Nat, NEW step \in 1..ChunkSamples, NEW i \in 0..total - 1
  PROVE  \E c \in 0..NumChunks(total, step) - 1 : i \in Heard(c, total, step)
<1>1. ChunkSamples \in Nat \ {0} /\ step \in Nat \ {0}
  BY WindowsAssumption
<1>2. PICK chunks \in Nat \ {0} : chunks = NumChunks(total, step)
  BY <1>1, ChunksOfARecording
<1>3. CASE i < ChunkSamples
  <2>1. ChunkStart(0, step) = 0
    BY <1>1 DEF ChunkStart
  <2>2. i \in Heard(0, total, step)
    BY <1>1, <1>3, <2>1 DEF Heard
  <2>3. QED
    BY <1>2, <2>2
<1>4. CASE ~(i < ChunkSamples)
  <2>1. PICK past \in Nat : past = i - ChunkSamples
    BY <1>1, <1>4
  <2>2. PICK q \in Nat, r \in 0..step - 1 : past = step * q + r
    BY <1>1, Quotients
  <2>3. PICK run \in Nat : run = q * step /\ run = step * q /\ (q + 1) * step = run + step
    BY <1>1, Products
  <2>4. (q + 1) - 1 = q /\ q + 1 \in Nat \ {0}
    OBVIOUS
  <2>5. run + ChunkSamples < total
    BY <1>1, <2>1, <2>2, <2>3
  <2>6. q + 1 < chunks
    BY <1>1, <1>2, <2>3, <2>4, <2>5, ChunksGoOn
  <2>7. ChunkStart(q + 1, step) = run + step
    BY <2>3 DEF ChunkStart
  <2>8. i - (run + step) \in 0..ChunkSamples - 1
    BY <1>1, <2>1, <2>2, <2>3
  <2>9. i \in Heard(q + 1, total, step)
    BY <2>7, <2>8 DEF Heard
  <2>10. q + 1 \in 0..chunks - 1
    BY <2>6
  <2>11. QED
    BY <1>2, <2>9, <2>10
<1>5. QED
  BY <1>3, <1>4

\* A chunk after the first hears a sample the one before it does not.
LEMMA EveryChunkIsNew ==
  ASSUME NEW total \in Nat, NEW step \in 1..ChunkSamples, NEW c \in 1..NumChunks(total, step) - 1
  PROVE  ~(Heard(c, total, step) \subseteq Heard(c - 1, total, step))
<1>1. ChunkSamples \in Nat \ {0} /\ step \in Nat \ {0}
  BY WindowsAssumption
<1>2. NumChunks(total, step) \in Nat
  BY <1>1, ChunksOfARecording
<1>3. c \in Nat \ {0} /\ c < NumChunks(total, step)
  BY <1>2
<1>4. (c - 1) * step + ChunkSamples < total
  BY <1>1, <1>3, ChunksGoOn
<1>5. PICK b \in Nat : b = c - 1 /\ c = b + 1
  <2>1. c - 1 \in Nat /\ c = (c - 1) + 1
    BY <1>3
  <2>2. QED
    BY <2>1
<1>6. PICK run \in Nat : run = b * step /\ (b + 1) * step = run + step
  BY <1>1, Multiples
<1>7. ChunkStart(c, step) = run + step /\ ChunkStart(c - 1, step) = run
  BY <1>5, <1>6 DEF ChunkStart
<1>8. PICK i \in Nat : i = run + ChunkSamples
  BY <1>1
<1>9. i \in 0..total - 1 /\ i - (run + step) \in 0..ChunkSamples - 1 /\ i - run \notin 0..ChunkSamples - 1
  BY <1>1, <1>4, <1>5, <1>6, <1>8
<1>10. i \in Heard(c, total, step) /\ i \notin Heard(c - 1, total, step)
  BY <1>7, <1>9 DEF Heard
<1>11. QED
  BY <1>10

\* A later sample's frame is no earlier.
LEMMA RoundingKeepsOrder ==
  ASSUME NEW a \in Nat, NEW b \in Nat, a <= b, NEW d \in Nat \ {0}
  PROVE  RoundTiesEven(a, d) <= RoundTiesEven(b, d)
<1>1. PICK p \in Nat, r \in 0..d - 1 : p = a \div d /\ r = a % d /\ a = d * p + r
  BY Quotients
<1>2. PICK q \in Nat, s \in 0..d - 1 : q = b \div d /\ s = b % d /\ b = d * q + s
  BY Quotients
<1>3. /\ RoundTiesEven(a, d) = IF 2 * r > d \/ (2 * r = d /\ p % 2 = 1) THEN p + 1 ELSE p
      /\ RoundTiesEven(b, d) = IF 2 * s > d \/ (2 * s = d /\ q % 2 = 1) THEN q + 1 ELSE q
  BY <1>1, <1>2 DEF RoundTiesEven
<1>4. PICK m \in Nat, n \in Nat : m = p * d /\ m = d * p /\ n = q * d /\ n = d * q
  BY Products
<1>5. p <= q
  <2>1. CASE q < p
    <3>1. n + d <= m
      BY <1>4, <2>1, Multiples
    <3>2. QED
      BY <1>1, <1>2, <1>4, <3>1
  <2>2. QED
    BY <2>1
<1>6. CASE p = q
  <2>1. r <= s
    BY <1>1, <1>2, <1>4, <1>6
  <2>2. QED
    BY <1>3, <1>6, <2>1
<1>7. CASE p < q
  <2>1. p + 1 <= q
    BY <1>7
  <2>2. QED
    BY <1>3, <2>1
<1>8. QED
  BY <1>5, <1>6, <1>7

\* Every frame of a chunk has its output frame when those of the last do.
LEMMA FramesAreOnTheGrid ==
  ASSUME NEW total \in Nat, NEW step \in Nat \ {0}, ~Exposed(total, step),
         NEW c \in 0..NumChunks(total, step) - 1, NEW f \in Frames
  PROVE  ReconstructStart(c, ChunkSlidingWindow(step), FrameSlidingWindow) + f
           \in 0..NumOutputFrames(NumChunks(total, step), ChunkSlidingWindow(step), FrameSlidingWindow) - 1
<1>1. PICK chunks \in Nat \ {0} : chunks = NumChunks(total, step)
  BY ChunksOfARecording
<1>2. PICK out \in Nat : out = NumOutputFrames(chunks, ChunkSlidingWindow(step), FrameSlidingWindow)
  BY FramesOfARecording
<1>3. PICK last \in Nat : last = chunks - 1 /\ c <= last /\ c \in Nat
  BY <1>1
<1>4. c * step \in Nat /\ last * step \in Nat /\ c * step <= last * step
  BY <1>3, Multiples
<1>5. /\ ReconstructStart(c, ChunkSlidingWindow(step), FrameSlidingWindow) = RoundTiesEven(c * step, FrameStep)
      /\ ReconstructStart(last, ChunkSlidingWindow(step), FrameSlidingWindow) = RoundTiesEven(last * step, FrameStep)
      /\ RoundTiesEven(c * step, FrameStep) \in Nat /\ RoundTiesEven(last * step, FrameStep) \in Nat
  BY <1>1, <1>3, FramesOfARecording
<1>6. RoundTiesEven(c * step, FrameStep) <= RoundTiesEven(last * step, FrameStep)
  BY <1>4, RoundingKeepsOrder, WindowsAssumption
<1>7. PICK first \in Nat, end \in Nat :
        /\ first = ReconstructStart(c, ChunkSlidingWindow(step), FrameSlidingWindow)
        /\ end = ReconstructStart(last, ChunkSlidingWindow(step), FrameSlidingWindow)
        /\ first <= end
  BY <1>5, <1>6
<1>8. ~(end >= 0 /\ out < end + ChunkFrames)
  BY <1>1, <1>2, <1>3, <1>7 DEF Exposed, UncoveredLastChunk
<1>9. f \in 0..ChunkFrames - 1 /\ ChunkFrames \in Nat
  BY WindowsAssumption DEF Frames
<1>10. first + f \in 0..out - 1
  BY <1>7, <1>8, <1>9
<1>11. QED
  BY <1>1, <1>2, <1>7, <1>10

\* A window of an outer chunk is bounded when its chunk is there.
LEMMA BoundedWindowsAreChunks ==
  ASSUME NEW total \in Nat \ {0}, NEW step \in 1..ChunkSamples, NEW k \in Nat, NEW w \in 0..OuterWindows - 1
  PROVE  (k < NumOuter(total, step) /\ WindowBounded(w, OuterLength(k, total, step), step))
           <=> (GlobalChunk(k, w) < NumChunks(total, step))
<1>1. /\ ChunkSamples \in Nat \ {0} /\ step \in Nat \ {0} /\ step <= ChunkSamples
      /\ OuterWindows \in Nat \ {0}
  BY WindowsAssumption
<1>2. PICK chunks \in Nat \ {0} : chunks = NumChunks(total, step)
  BY <1>1, ChunksOfARecording
<1>3. PICK outers \in Nat \ {0} : outers = NumOuter(total, step)
  BY <1>1, OuterChunks
<1>4. PICK span \in Nat \ {0} : span = OuterWindows * step /\ span >= step
  <2>1. \A a, b \in Nat \ {0} : a * b \in Nat \ {0} /\ a * b >= b
    OBVIOUS
  <2>2. QED
    BY <1>1, <2>1
<1>5. HopSamples(step) = span /\ OuterSamples(step) = ChunkSamples + span - step
  BY <1>4, HopsAreWindows
<1>6. PICK at0 \in Nat : at0 = k * span
  BY Products
<1>7. PICK off \in Nat : off = w * step /\ (w > 0 => off >= step) /\ off + step <= span
  <2>1. \A a \in Nat, b \in Nat \ {0} : a * b \in Nat /\ (a > 0 => a * b >= b)
    OBVIOUS
  <2>2. w * step + step <= OuterWindows * step
    BY <1>1, Multiples
  <2>3. QED
    BY <1>1, <1>4, <2>1, <2>2
<1>8. PICK c \in Nat : c = GlobalChunk(k, w) /\ c * step = at0 + off
  <2>1. \A a, b, s, o \in Nat : (a * b + o) * s = a * (b * s) + o * s
    OBVIOUS
  <2>2. GlobalChunk(k, w) = k * OuterWindows + w /\ k * OuterWindows \in Nat
    BY <1>1, Products DEF GlobalChunk
  <2>3. (k * OuterWindows + w) * step = k * (OuterWindows * step) + w * step
    BY <1>1, <2>1
  <2>4. QED
    BY <1>4, <1>6, <1>7, <2>2, <2>3
<1>9. c > 0 => (c < chunks <=> at0 + off + ChunkSamples - step < total)
  <2>1. SUFFICES ASSUME c > 0 PROVE c < chunks <=> at0 + off + ChunkSamples - step < total
    OBVIOUS
  <2>2. c \in Nat \ {0} /\ c - 1 \in Nat /\ (c - 1) + 1 = c
    BY <2>1
  <2>3. ((c - 1) + 1) * step = (c - 1) * step + step /\ (c - 1) * step \in Nat
    BY <1>1, <2>2, Multiples
  <2>4. (c - 1) * step = at0 + off - step
    BY <1>1, <1>8, <2>2, <2>3
  <2>5. c < chunks <=> (c - 1) * step + ChunkSamples < total
    BY <1>1, <1>2, <2>2, ChunksGoOn
  <2>6. QED
    BY <1>1, <2>4, <2>5
<1>10. k < outers <=> (k = 0 \/ at0 + ChunkSamples - step < total)
  <2>1. CASE k = 0
    BY <1>3, <2>1
  <2>2. CASE k # 0
    <3>1. PICK j \in Nat : j = k - 1 /\ k = j + 1
      <4>1. k - 1 \in Nat /\ k = (k - 1) + 1
        BY <2>2
      <4>2. QED
        BY <4>1
    <3>2. PICK past \in Nat : past = j * span /\ at0 = past + span
      BY <1>4, <1>6, <3>1, Multiples
    <3>3. ASSUME k < outers PROVE at0 + ChunkSamples - step < total
      <4>1. j \in 0..outers - 2
        BY <3>1, <3>3
      <4>2. j * HopSamples(step) + OuterSamples(step) < total
        BY <1>1, <1>3, <4>1, OuterChunks
      <4>3. past + (ChunkSamples + span - step) < total
        BY <1>5, <3>2, <4>2
      <4>4. QED
        BY <1>1, <1>4, <3>2, <4>3
    <3>4. ASSUME outers <= k PROVE ~(at0 + ChunkSamples - step < total)
      <4>1. PICK l \in Nat : l = outers - 1 /\ l <= j
        BY <1>3, <3>1, <3>4
      <4>2. PICK ahead \in Nat : ahead = l * span /\ ahead <= past
        BY <1>4, <3>2, <4>1, Multiples
      <4>3. l * HopSamples(step) + OuterSamples(step) >= total
        BY <1>1, <1>3, <4>1, OuterChunks
      <4>4. ahead + (ChunkSamples + span - step) >= total
        BY <1>5, <4>2, <4>3
      <4>5. QED
        BY <1>1, <1>4, <3>2, <4>2, <4>4
    <3>5. QED
      BY <1>3, <2>2, <3>3, <3>4
  <2>3. QED
    BY <2>1, <2>2
<1>11. CASE w = 0
  <2>1. WindowBounded(w, OuterLength(k, total, step), step)
    BY <1>11 DEF WindowBounded
  <2>2. off = 0
    BY <1>1, <1>7, <1>11
  <2>3. CASE k = 0
    <3>1. c = 0 /\ k < outers
      BY <1>1, <1>3, <1>8, <1>11, <2>3 DEF GlobalChunk
    <3>2. QED
      BY <1>2, <1>3, <1>8, <2>1, <3>1
  <2>4. CASE k # 0
    <3>1. c > 0
      <4>1. k * OuterWindows \in Nat \ {0}
        <5>1. \A a, b \in Nat \ {0} : a * b \in Nat \ {0}
          OBVIOUS
        <5>2. QED
          BY <1>1, <2>4, <5>1
      <4>2. QED
        BY <1>8, <1>11, <4>1 DEF GlobalChunk
    <3>2. QED
      BY <1>1, <1>2, <1>3, <1>8, <1>9, <1>10, <2>1, <2>2, <2>4, <3>1
  <2>5. QED
    BY <2>3, <2>4
<1>12. CASE w # 0
  <2>1. c > 0 /\ w > 0
    <3>1. k * OuterWindows \in Nat
      BY <1>1, Products
    <3>2. QED
      BY <1>8, <1>12, <3>1 DEF GlobalChunk
  <2>2. off >= step
    BY <1>7, <2>1
  <2> DEFINE rest == IF at0 < total THEN total - at0 ELSE 0
             full == ChunkSamples + span - step
  <2>8. OuterLength(k, total, step) = IF rest < full THEN rest ELSE full
    BY <1>5, <1>6, Zenon DEF OuterLength
  <2>9. rest \in Nat /\ full \in Nat
    BY <1>1, <1>4
  <2>3. PICK length \in Nat : /\ length = OuterLength(k, total, step)
                             /\ length = IF rest < full THEN rest ELSE full
    <3> HIDE DEF rest, full
    <3>1. QED
      BY <2>8, <2>9
  <2>4. WindowBounded(w, length, step) <=> off + (ChunkSamples - step) < length
    BY <1>7, <1>12 DEF WindowBounded, StrideOffset
  <2>5. WindowBounded(w, length, step) <=> at0 + off + ChunkSamples - step < total
    BY <1>1, <1>4, <1>7, <2>3, <2>4
  <2>6. (at0 + off + ChunkSamples - step < total) => k < outers
    BY <1>1, <1>10, <2>2
  <2>7. QED
    BY <1>2, <1>3, <1>8, <1>9, <2>1, <2>3, <2>5, <2>6
<1>13. QED
  BY <1>11, <1>12

LEMMA GridsAreWhole ==
  ASSUME ExtractionInd
  PROVE  GridIsWhole
<1> SUFFICES ASSUME Sourced, grid # NoGrid, FusedRefusal(ask) = "none" PROVE GridIsWhole
  BY DEF GridIsWhole
<1>1. ask \in Asks /\ grid = GridOf(ask) /\ Refusal(ask) = "none" /\ ask.route # "assembled"
  BY DEF ExtractionInd, PlacesInd, GridInd, Sourced
<1>2. PICK total, step : total = ask.total /\ step = ask.step
  OBVIOUS
<1>3. /\ total \in Nat \ {0} /\ step \in 1..ChunkSamples /\ step \in Nat \ {0} /\ ~Exposed(total, step)
      /\ ChunkSamples \in Nat \ {0} /\ OuterWindows \in Nat \ {0}
  <2>1. total \in Nat /\ step \in Nat /\ ChunkSamples \in Nat \ {0}
    BY <1>1, <1>2, CallsAreSound, WindowsAssumption
  <2>2. total # 0 /\ step # 0 /\ ~(step > ChunkSamples) /\ ~Exposed(total, step)
    BY <1>2, FusedCallsAreSound
  <2>3. QED
    BY <2>1, <2>2, WindowsAssumption
<1>4. PICK chunks \in Nat \ {0} : chunks = NumChunks(total, step)
  BY <1>3, ChunksOfARecording
<1>5. /\ grid.chunks = chunks /\ grid.chunksSW = ChunkSlidingWindow(step)
      /\ grid.framesSW = FrameSlidingWindow
  BY <1>1, <1>2, <1>4 DEF GridOf
<1>6. \A i \in 0..total - 1 : \E c \in 0..chunks - 1 : i \in Heard(c, total, step)
  BY <1>3, <1>4, EverySampleIsHeard
<1>7. \A c \in 1..chunks - 1 : ~(Heard(c, total, step) \subseteq Heard(c - 1, total, step))
  BY <1>3, <1>4, EveryChunkIsNew
<1>8. \A c \in 0..chunks - 1, f \in Frames :
        ReconstructStart(c, ChunkSlidingWindow(step), FrameSlidingWindow) + f
          \in 0..NumOutputFrames(chunks, ChunkSlidingWindow(step), FrameSlidingWindow) - 1
  BY <1>3, <1>4, FramesAreOnTheGrid
<1>9. PICK outers \in Nat \ {0} : outers = NumOuter(total, step)
  BY <1>3, OuterChunks
<1> DEFINE pairs == (0..outers - 1) \X (0..OuterWindows - 1)
           windows == {kw \in pairs : kw[2] \in BoundedWindows(kw[1])}
<1>10. ASSUME NEW kw \in pairs
       PROVE  /\ kw[1] \in Nat /\ kw[1] < outers /\ kw[2] \in 0..OuterWindows - 1
              /\ kw[2] \in BoundedWindows(kw[1]) <=> GlobalChunk(kw[1], kw[2]) < chunks
              /\ GlobalChunk(kw[1], kw[2]) \in Nat
  <2>1. kw[1] \in Nat /\ kw[1] < outers /\ kw[2] \in 0..OuterWindows - 1
    BY <1>9
  <2>2. PICK k \in Nat, w \in 0..OuterWindows - 1 : k = kw[1] /\ w = kw[2] /\ k < outers
    BY <2>1
  <2>3. w \in BoundedWindows(k) <=> WindowBounded(w, OuterLength(k, total, step), step)
    BY <1>2 DEF BoundedWindows
  <2>4. (k < outers /\ WindowBounded(w, OuterLength(k, total, step), step)) <=> GlobalChunk(k, w) < chunks
    BY <1>3, <1>4, <1>9, BoundedWindowsAreChunks
  <2>5. GlobalChunk(k, w) \in Nat
    BY <1>3, <2>2, Products DEF GlobalChunk
  <2>6. QED
    BY <2>1, <2>2, <2>3, <2>4, <2>5
<1>11. ASSUME NEW c \in 0..chunks - 1
       PROVE  \E kw \in windows : GlobalChunk(kw[1], kw[2]) = c
  <2>1. PICK k \in Nat, w \in 0..OuterWindows - 1 : c = OuterWindows * k + w
    <3>1. /\ c \div OuterWindows \in Nat /\ c % OuterWindows \in 0..OuterWindows - 1
          /\ c = OuterWindows * (c \div OuterWindows) + (c % OuterWindows)
      <4>1. c \in Nat
        BY <1>4
      <4>2. QED
        BY <1>3, <4>1, Quotients
    <3>2. QED
      BY <3>1, Zenon
  <2>2. OuterWindows * k = k * OuterWindows
    BY <1>3, <2>1
  <2>3. c = GlobalChunk(k, w)
    BY <2>1, <2>2 DEF GlobalChunk
  <2>4. c < chunks
    BY <1>4
  <2>5. k < outers /\ WindowBounded(w, OuterLength(k, total, step), step)
    BY <1>3, <1>4, <1>9, <2>3, <2>4, BoundedWindowsAreChunks
  <2>6. <<k, w>> \in pairs /\ <<k, w>>[1] = k /\ <<k, w>>[2] = w
    BY <1>9, <2>5
  <2>7. w \in BoundedWindows(k)
    BY <1>2, <2>5 DEF BoundedWindows
  <2>8. <<k, w>> \in windows
    BY <2>6, <2>7
  <2>9. QED
    BY <2>3, <2>6, <2>8
<1>12. {GlobalChunk(kw[1], kw[2]) : kw \in windows} = 0..chunks - 1
  <2>1. ASSUME NEW kw \in windows PROVE GlobalChunk(kw[1], kw[2]) \in 0..chunks - 1
    <3>1. kw \in pairs /\ kw[2] \in BoundedWindows(kw[1])
      OBVIOUS
    <3>2. GlobalChunk(kw[1], kw[2]) < chunks /\ GlobalChunk(kw[1], kw[2]) \in Nat
      BY <1>10, <3>1
    <3>3. QED
      BY <1>4, <3>2
  <2>2. QED
    BY <1>11, <2>1
<1>13. Cardinality(windows) = chunks
  <2> DEFINE place == [kw \in windows |-> GlobalChunk(kw[1], kw[2])]
  <2>1. IsFiniteSet(pairs) /\ IsFiniteSet(windows)
    <3>1. IsFiniteSet(0..outers - 1) /\ IsFiniteSet(0..OuterWindows - 1)
      BY <1>3, FS_Interval
    <3>2. IsFiniteSet(pairs)
      BY <3>1, FS_Product
    <3>3. QED
      BY <3>2, FS_Subset
  <2>2. place \in [windows -> 0..chunks - 1]
    BY <1>12
  <2>3. ASSUME NEW kw \in windows, NEW lv \in windows, place[kw] = place[lv] PROVE kw = lv
    <3>1. kw \in pairs /\ lv \in pairs
      OBVIOUS
    <3>2. kw[1] = lv[1] /\ kw[2] = lv[2]
      BY <1>10, <2>3, <3>1, GlobalChunksDiffer
    <3>3. QED
      BY <3>1, <3>2
  <2>4. \A c \in 0..chunks - 1 : \E kw \in windows : place[kw] = c
    BY <1>11
  <2>5. place \in Bijection(windows, 0..chunks - 1)
    <3> HIDE DEF windows, place
    <3>1. place \in Injection(windows, 0..chunks - 1)
      BY <2>2, <2>3 DEF Injection, IsInjective
    <3>2. place \in Surjection(windows, 0..chunks - 1)
      BY <2>2, <2>4 DEF Surjection
    <3>3. QED
      BY <3>1, <3>2 DEF Bijection
  <2>6. Cardinality(0..chunks - 1) = Cardinality(windows)
    <3> HIDE DEF windows, place
    <3>1. ExistsBijection(windows, 0..chunks - 1)
      BY <2>5 DEF ExistsBijection
    <3>2. QED
      BY <2>1, <3>1, FS_Bijection
  <2>7. Cardinality(0..chunks - 1) = chunks
    BY <1>4, FS_Interval
  <2>8. QED
    BY <2>6, <2>7
<1>14. ASSUME NEW kw \in windows
       PROVE  ChunkStart(GlobalChunk(kw[1], kw[2]), step) = kw[1] * HopSamples(step) + kw[2] * step
  <2>1. PICK k \in Nat, w \in Nat : k = kw[1] /\ w = kw[2]
    BY <1>10
  <2>2. HopSamples(step) = OuterWindows * step
    BY <1>3, HopsAreWindows
  <2>3. \A a, b, s, o \in Nat : (a * b + o) * s = a * (b * s) + o * s
    OBVIOUS
  <2>4. (k * OuterWindows + w) * step = k * (OuterWindows * step) + w * step
    BY <1>3, <2>3
  <2>5. QED
    BY <2>1, <2>2, <2>4 DEF ChunkStart, GlobalChunk
<1> HIDE DEF windows, pairs
<1>15. windows = {kw \in (0..NumOuter(ask.total, ask.step) - 1) \X (0..OuterWindows - 1) :
                    kw[2] \in BoundedWindows(kw[1])}
  BY <1>2, <1>9 DEF windows, pairs
<1>16. QED
  BY <1>2, <1>5, <1>6, <1>7, <1>8, <1>12, <1>13, <1>14, <1>15 DEF GridIsWhole

LEMMA WholeExtractionsHold == ExtractionInd => ExtractionsHold
  BY ExtractionIndHolds, GridsAreWhole DEF ExtractionsHold

\* The same of the runs' specification, where a recording is extracted or
\* cohorts are calibrated: and the grid an extraction was cut by leaves no
\* sample out.
THEOREM ExtractionsHoldOfTheRun == MCSpec => []ExtractionsHold
<1>1. MCInit => ExtractionInd
  BY ExtractionInitInd DEF MCInit
<1>2. ExtractionInd /\ [MCNext]_<<vars, calibrationVars, part>> => ExtractionInd'
  BY ExtractionStep, ExtractionsGoOn DEF MCNext
<1>3. ExtractionInd => ExtractionsHold
  BY WholeExtractionsHold
<1>4. QED
  BY <1>1, <1>2, <1>3, PTL DEF MCSpec

-----------------------------------------------------------------------------
(* The clustering: labels are speakers, and no frame counts a phantom.     *)

Labels == {hard[c][s] : c \in DOMAIN hard, s \in Slots} \ {UNMATCHED}

\* The count and the reconstruction put a chunk on the same frames.
AlignedInd ==
  at \in {"ready", "cluster"} =>
    /\ grid.chunks \in Nat /\ grid.chunksSW.step \in Int /\ grid.framesSW.step \in Nat \ {0}
    /\ DOMAIN slabs = 0..grid.chunks - 1
    /\ ~Misaligned(grid.chunks, grid.chunksSW, grid.framesSW)

\* Slots that are still to do have no label yet.
LabelsInd ==
  at = "cluster" =>
    /\ hard \in [0..grid.chunks - 1 -> [Slots -> Int]] /\ online = <<>>
    /\ left \subseteq 0..grid.chunks * NumSlots - 1
    /\ \A i \in left : hard[ChunkOf(i)][SlotOf(i)] = UNMATCHED
    /\ Labels = 0..created - 1

QuietInd == at \notin {"cluster", "done"} => hard = <<>> /\ created = 0 /\ online = <<>>

PhantomInd == ExtractionInd /\ AlignedInd /\ LabelsInd /\ QuietInd /\ NoPhantomSpeaker

LEMMA NobodyIsNoPhantom ==
  ASSUME hard = <<>>, created = 0, online = <<>>
  PROVE  NoPhantomSpeaker
<1>1. DOMAIN hard = {} /\ DOMAIN online = {} /\ 0..created - 1 = {}
  OBVIOUS
<1>2. QED
  BY <1>1 DEF NoPhantomSpeaker

\* What comes before the clustering leaves it alone.
LEMMA ClusteringWaits ==
  ASSUME PhantomInd, ExtractionInd', at \notin {"cluster", "done"}, at' # "cluster",
         UNCHANGED clustering, AlignedInd'
  PROVE  PhantomInd'
<1>1. hard = <<>> /\ created = 0 /\ online = <<>>
  BY DEF PhantomInd, QuietInd
<1>2. (hard = <<>> /\ created = 0 /\ online = <<>>)'
  BY <1>1 DEF clustering
<1>3. NoPhantomSpeaker'
  BY <1>2, NobodyIsNoPhantom, PTL
<1>4. QED
  BY <1>2, <1>3 DEF PhantomInd, QuietInd, LabelsInd

LEMMA WholeGridsAreAligned ==
  ASSUME ExtractionInd, Sourced, at # "called", at # "done"
  PROVE  /\ grid.chunks \in Nat /\ grid.chunksSW.step \in Int /\ grid.framesSW.step \in Nat \ {0}
         /\ ~Misaligned(grid.chunks, grid.chunksSW, grid.framesSW)
<1>1. ask \in Asks /\ ask.route # "assembled" /\ grid = GridOf(ask) /\ Refusal(ask) = "none"
  BY DEF ExtractionInd, PlacesInd, GridInd, Sourced
<1>2. ask.total \in Nat /\ ask.step \in Nat \ {0}
  BY <1>1, CallsAreSound
<1>3. NumChunks(ask.total, ask.step) \in Nat \ {0}
  BY <1>2, ChunksOfARecording
<1>4. /\ grid.chunks = NumChunks(ask.total, ask.step) /\ grid.chunksSW = ChunkSlidingWindow(ask.step)
      /\ grid.framesSW = FrameSlidingWindow
  BY <1>1 DEF GridOf
<1>5. grid.chunksSW.step = ask.step /\ grid.framesSW.step = FrameStep
  BY <1>4 DEF ChunkSlidingWindow, FrameSlidingWindow
<1>6. ~Misaligned(grid.chunks, grid.chunksSW, grid.framesSW)
  BY <1>2, <1>3, <1>4, FramesOfARecording
<1>7. QED
  BY <1>2, <1>3, <1>4, <1>5, <1>6, WindowsAssumption

LEMMA PartsTakenAreAligned ==
  ASSUME NEW p, AssembledRefusal(p) = "none"
  PROVE  p.framesSW.step > 0 /\ ~Displaced(p)
<1> DEFINE long == OutputOf(p) > MaxOutputFrames
           displaced == Displaced(p)
           grey == NotBinary(p)
           rowless == Rowless(p)
           miscounted == Miscounted(p)
           collapsed == Collapsed(p)
           uncovered == Uncovered(p)
           checks == <<<<"OutputFrameCountTooLarge", long>>, <<"MisalignedChunkPlacement", displaced>>,
                       <<"NonBinarySegmentation", grey>>, <<"ActiveSlotWithoutEmbedding", rowless>>,
                       <<"CountNotSegmentationDerived", miscounted>>, <<"CollapsedFrameCenter", collapsed>>,
                       <<"UncoveredLastChunk", uncovered>>>>
<1>1. AssembledRefusal(p) = IF Emptied(p) THEN "ZeroExtractionDimension"
                            ELSE IF Unusable(p) THEN "InvalidSlidingWindow"
                            ELSE IF Mislaid(p) THEN "ExtractionLenMismatch"
                            ELSE FirstRefusal(checks)
  BY Zenon DEF AssembledRefusal
<1> HIDE DEF long, displaced, grey, rowless, miscounted, collapsed, uncovered
<1>2. /\ DOMAIN checks = 1..7 /\ \A i \in 1..7 : checks[i][1] # "none"
      /\ checks[2][2] = displaced
  OBVIOUS
<1> HIDE DEF checks
<1>3. FirstRefusal(checks) = "none" /\ ~Unusable(p)
  BY <1>1
<1>4. \A i \in 1..7 : ~checks[i][2]
  BY <1>2, <1>3, NothingWasWrong
<1>5. ~checks[2][2]
  BY <1>4
<1>6. ~displaced
  BY <1>2, <1>5, Zenon
<1>7. p.framesSW.step > 0
  BY <1>3 DEF Unusable, Usable
<1>8. QED
  BY <1>6, <1>7 DEF displaced

LEMMA WaitingStep ==
  ASSUME PhantomInd, ExtractionInd',
         \/ Refuse \/ Unavailable \/ Begin \/ SegmentChunk \/ EmbedChunk
         \/ ExtractChunkEmbeddings \/ SplitRefused \/ EmbedFailsAndIsRetried \/ InferenceFails
         \/ SegmentOuter \/ EmbedOuter \/ Assemble \/ TryFromParts
  PROVE  PhantomInd'
<1>1. CASE \/ Refuse \/ Unavailable \/ Begin \/ SegmentChunk \/ EmbedChunk
           \/ ExtractChunkEmbeddings \/ SplitRefused \/ EmbedFailsAndIsRetried \/ InferenceFails
           \/ SegmentOuter \/ EmbedOuter
  <2>1. at \in {"called", "segment", "embed"} /\ at' \in {"segment", "embed", "assemble", "done"}
        /\ UNCHANGED clustering
    BY <1>1 DEF Refuse, Unavailable, Begin, SegmentChunk, EmbedChunk, ExtractChunkEmbeddings,
                SplitRefused, EmbedFailsAndIsRetried, InferenceFails, SegmentOuter, EmbedOuter, Fail
  <2>2. AlignedInd'
    BY <2>1 DEF AlignedInd
  <2>3. QED
    BY <2>1, <2>2, ClusteringWaits
<1>2. CASE Assemble
  <2>1. at = "assemble" /\ at' \in {"ready", "done"} /\ UNCHANGED <<ask, grid, slabs, clustering>>
    BY <1>2 DEF Assemble, Verdict, Fail
  <2>2. Sourced /\ DOMAIN slabs = 0..grid.chunks - 1
    BY <2>1 DEF PhantomInd, ExtractionInd, PlacesInd, HeardInd, Infers
  <2>3. /\ grid.chunks \in Nat /\ grid.chunksSW.step \in Int /\ grid.framesSW.step \in Nat \ {0}
        /\ ~Misaligned(grid.chunks, grid.chunksSW, grid.framesSW)
    BY <2>1, <2>2, WholeGridsAreAligned DEF PhantomInd
  <2>4. AlignedInd'
    BY <2>1, <2>2, <2>3 DEF AlignedInd
  <2>5. QED
    BY <2>1, <2>4, ClusteringWaits
<1>3. CASE TryFromParts
  <2>1. PICK p : p = ask.parts
    OBVIOUS
  <2>2. /\ at = "called" /\ ask.route = "assembled" /\ slabs' = p.slabs
        /\ grid' = [chunks |-> p.chunks, chunksSW |-> p.chunksSW, framesSW |-> p.framesSW]
        /\ at' = "done" \/ (at' = "ready" /\ AssembledRefusal(p) = "none")
        /\ UNCHANGED clustering
    BY <1>3, <2>1 DEF TryFromParts, Verdict, Fail
  <2>3. /\ p.chunks \in Nat /\ p.chunksSW \in SlidingWindow /\ p.framesSW \in SlidingWindow
        /\ DOMAIN p.slabs = 0..p.chunks - 1
    BY <2>1, <2>2, AsksAssumption DEF PhantomInd, ExtractionInd, PlacesInd
  <2>4. /\ grid'.chunks = p.chunks /\ grid'.chunksSW = p.chunksSW /\ grid'.framesSW = p.framesSW
    BY <2>2
  <2>5. AlignedInd'
    <3>1. SUFFICES ASSUME at' = "ready" PROVE AlignedInd'
      BY <2>2 DEF AlignedInd
    <3>2. p.framesSW.step > 0 /\ ~Displaced(p)
      BY <2>2, <3>1, PartsTakenAreAligned
    <3>3. p.chunksSW.step \in Int /\ p.framesSW.step \in Nat \ {0}
      BY <2>3, <3>2 DEF SlidingWindow
    <3>4. ~Misaligned(p.chunks, p.chunksSW, p.framesSW)
      BY <3>2 DEF Displaced
    <3>5. QED
      BY <2>2, <2>3, <2>4, <3>3, <3>4 DEF AlignedInd
  <2>6. QED
    BY <2>2, <2>5, ClusteringWaits
<1>4. QED
  BY <1>1, <1>2, <1>3

\* The slot of an index, and the index it is of.
LEMMA IndexFacts ==
  ASSUME NEW chunks \in Nat, NEW i \in 0..chunks * NumSlots - 1
  PROVE  /\ ChunkOf(i) \in 0..chunks - 1 /\ SlotOf(i) \in Slots
         /\ i = NumSlots * ChunkOf(i) + SlotOf(i)
<1>1. NumSlots \in Nat \ {0} /\ chunks * NumSlots \in Nat
  BY ExtractionAssumption, Products
<1>2. i \in Nat /\ i < chunks * NumSlots
  BY <1>1
<1>3. /\ ChunkOf(i) \in Nat /\ SlotOf(i) \in 0..NumSlots - 1
      /\ i = NumSlots * ChunkOf(i) + SlotOf(i)
  BY <1>1, <1>2, Quotients DEF ChunkOf, SlotOf
<1>4. PICK c \in Nat, s \in 0..NumSlots - 1 : c = ChunkOf(i) /\ s = SlotOf(i) /\ i = NumSlots * c + s
  BY <1>3
<1>5. NumSlots * c = c * NumSlots /\ c * NumSlots \in Nat
  BY <1>1, Products
<1>6. c < chunks
  <2>1. CASE chunks <= c
    <3>1. chunks * NumSlots <= c * NumSlots
      BY <1>1, <2>1, Multiples
    <3>2. QED
      BY <1>1, <1>2, <1>4, <1>5, <3>1
  <2>2. QED
    BY <2>1
<1>7. QED
  BY <1>4, <1>6 DEF Slots

LEMMA DiarizeStep ==
  ASSUME PhantomInd, ExtractionInd', DiarizeOnline
  PROVE  PhantomInd'
<1>1. /\ at = "ready" /\ at' = "cluster"
      /\ hard' = [c \in 0..grid.chunks - 1 |-> [s \in Slots |-> UNMATCHED]]
      /\ left' = 0..grid.chunks * NumSlots - 1
      /\ UNCHANGED <<grid, slabs, created, online>>
  BY DEF DiarizeOnline
<1>2. created' = 0 /\ online' = <<>> /\ grid.chunks \in Nat
  BY <1>1 DEF PhantomInd, QuietInd, AlignedInd
<1>3. AlignedInd'
  BY <1>1 DEF PhantomInd, AlignedInd
<1>4. hard' \in [0..grid.chunks - 1 -> [Slots -> Int]]
  BY <1>1 DEF UNMATCHED
<1>5. \A c \in 0..grid.chunks - 1, s \in Slots : hard'[c][s] = UNMATCHED
  BY <1>1
<1>6. \A i \in left' : hard'[ChunkOf(i)][SlotOf(i)] = UNMATCHED
  BY <1>1, <1>2, <1>5, IndexFacts
<1>7. Labels' = 0..created' - 1
  <2>1. Labels' = {}
    BY <1>4, <1>5 DEF Labels
  <2>2. QED
    BY <1>2, <2>1
<1>8. LabelsInd'
  BY <1>1, <1>2, <1>4, <1>6, <1>7 DEF LabelsInd
<1>9. QED
  BY <1>1, <1>3, <1>8 DEF PhantomInd, QuietInd, NoPhantomSpeaker

\* A slot's step is done: it has the label it was given, or none.
LEMMA SlotIsDone ==
  ASSUME PhantomInd, ExtractionInd', at = "cluster", at' = "cluster", UNCHANGED <<grid, slabs, online>>,
         NEW i \in left, left' = left \ {i},
         NEW k \in Int, k = UNMATCHED \/ k \in 0..created' - 1,
         k = UNMATCHED => hard' = hard,
         k # UNMATCHED => Label(i, k),
         created' = created \/ (created' = created + 1 /\ k = created), created \in Nat
  PROVE  PhantomInd'
<1>1. /\ hard \in [0..grid.chunks - 1 -> [Slots -> Int]] /\ online = <<>>
      /\ left \subseteq 0..grid.chunks * NumSlots - 1
      /\ \A j \in left : hard[ChunkOf(j)][SlotOf(j)] = UNMATCHED
      /\ Labels = 0..created - 1 /\ grid.chunks \in Nat
  BY DEF PhantomInd, LabelsInd, AlignedInd
<1>2. PICK c0 \in 0..grid.chunks - 1, s0 \in Slots :
        c0 = ChunkOf(i) /\ s0 = SlotOf(i) /\ i = NumSlots * c0 + s0
  BY <1>1, IndexFacts
<1>3. hard[c0][s0] = UNMATCHED
  BY <1>1, <1>2
<1>4. /\ hard' \in [0..grid.chunks - 1 -> [Slots -> Int]]
      /\ \A c \in 0..grid.chunks - 1, s \in Slots :
           hard'[c][s] = IF c = c0 /\ s = s0 THEN k ELSE hard[c][s]
  <2>1. CASE k = UNMATCHED
    BY <1>1, <1>3, <2>1
  <2>2. CASE k # UNMATCHED
    <3>1. hard' = [hard EXCEPT ![c0][s0] = k]
      BY <1>2, <2>2 DEF Label
    <3>2. hard' = [hard EXCEPT ![c0] = [hard[c0] EXCEPT ![s0] = k]]
      BY <3>1
    <3>3. QED
      BY <1>1, <3>2
  <2>3. QED
    BY <2>1, <2>2
<1>5. \A j \in left' : hard'[ChunkOf(j)][SlotOf(j)] = UNMATCHED
  <2>1. ASSUME NEW j \in left' PROVE hard'[ChunkOf(j)][SlotOf(j)] = UNMATCHED
    <3>1. j \in left /\ j # i
      OBVIOUS
    <3>2. PICK c \in 0..grid.chunks - 1, s \in Slots :
            c = ChunkOf(j) /\ s = SlotOf(j) /\ j = NumSlots * c + s
      BY <1>1, <3>1, IndexFacts
    <3>3. ~(c = c0 /\ s = s0)
      BY <1>2, <3>1, <3>2
    <3>4. hard[c][s] = UNMATCHED
      BY <1>1, <3>1, <3>2
    <3>5. QED
      BY <1>4, <3>2, <3>3, <3>4
  <2>2. QED
    BY <2>1
<1>6. Labels' = Labels \cup ({k} \ {UNMATCHED})
  <2>1. \A x : x \in Labels <=> \E c \in 0..grid.chunks - 1, s \in Slots :
                                  x = hard[c][s] /\ x # UNMATCHED
    <3>1. DOMAIN hard = 0..grid.chunks - 1
      BY <1>1
    <3>2. QED
      BY <3>1 DEF Labels
  <2>2. \A x : x \in Labels' <=> \E c \in 0..grid.chunks - 1, s \in Slots :
                                   x = hard'[c][s] /\ x # UNMATCHED
    <3>1. DOMAIN hard' = 0..grid.chunks - 1
      BY <1>4
    <3>2. QED
      BY <3>1 DEF Labels
  <2>3. ASSUME NEW x \in Labels' PROVE x \in Labels \cup ({k} \ {UNMATCHED})
    <3>1. PICK c \in 0..grid.chunks - 1, s \in Slots : x = hard'[c][s] /\ x # UNMATCHED
      BY <2>2
    <3>2. hard'[c][s] = k \/ hard'[c][s] = hard[c][s]
      BY <1>4
    <3>3. QED
      BY <2>1, <3>1, <3>2
  <2>4. ASSUME NEW x \in Labels PROVE x \in Labels'
    <3>1. PICK c \in 0..grid.chunks - 1, s \in Slots : x = hard[c][s] /\ x # UNMATCHED
      BY <2>1
    <3>2. hard'[c][s] = x
      BY <1>3, <1>4, <3>1
    <3>3. QED
      BY <2>2, <3>1, <3>2
  <2>5. ASSUME k # UNMATCHED PROVE k \in Labels'
    <3>1. hard'[c0][s0] = k
      BY <1>4
    <3>2. QED
      BY <2>2, <2>5, <3>1
  <2>6. QED
    BY <2>3, <2>4, <2>5
<1>7. Labels' = 0..created' - 1
  <2>1. CASE k = UNMATCHED
    <3>1. created' = created
      BY <2>1 DEF UNMATCHED
    <3>2. QED
      BY <1>1, <1>6, <2>1, <3>1
  <2>2. CASE k # UNMATCHED /\ created' = created
    BY <1>1, <1>6, <2>2
  <2>3. CASE k # UNMATCHED /\ created' = created + 1 /\ k = created
    BY <1>1, <1>6, <2>3
  <2>4. QED
    BY <2>1, <2>2, <2>3
<1>8. AlignedInd'
  BY DEF PhantomInd, AlignedInd
<1>9. LabelsInd'
  BY <1>1, <1>4, <1>5, <1>7 DEF LabelsInd
<1>10. QED
  BY <1>8, <1>9 DEF PhantomInd, QuietInd, NoPhantomSpeaker

LEMMA AssignStep ==
  ASSUME PhantomInd, ExtractionInd', PassOver \/ AssignNew \/ AssignExisting \/ AssignDropped
  PROVE  PhantomInd'
<1>1. /\ at = "cluster" /\ left # {} /\ UNCHANGED <<ask, grid, slabs, online>>
      /\ left \subseteq 0..grid.chunks * NumSlots - 1 /\ grid.chunks \in Nat
  BY DEF PassOver, AssignNew, AssignExisting, AssignDropped, tensors, clustering,
         PhantomInd, LabelsInd, AlignedInd
<1>2. created \in Nat
  BY <1>1, ExtractionAssumption DEF PhantomInd, ExtractionInd, PlacesInd
<1>3. PICK i \in left : i = Min(left)
  <2>1. left \in SUBSET Nat
    BY <1>1
  <2>2. Min(left) \in left
    BY <1>1, <2>1, MinOfNaturals
  <2>3. QED
    BY <2>2
<1>4. UNMATCHED = -2 /\ UNMATCHED \in Int
  BY DEF UNMATCHED
<1>5. CASE PassOver \/ AssignDropped
  <2>1. at' = "cluster" /\ left' = left \ {i} /\ hard' = hard /\ created' = created
    BY <1>1, <1>3, <1>5 DEF PassOver, AssignDropped, clustering
  <2>2. QED
    BY <1>1, <1>2, <1>4, <2>1, SlotIsDone
<1>6. CASE AssignExisting
  <2>1. /\ at' = "cluster" /\ left' = left \ {i} /\ created' = created
        /\ \E k \in 0..created - 1 : Label(i, k)
    BY <1>1, <1>3, <1>6 DEF AssignExisting
  <2>2. PICK k \in 0..created - 1 : Label(i, k)
    BY <2>1
  <2>3. k \in Int /\ k # UNMATCHED
    BY <1>2, <1>4
  <2>4. QED
    BY <1>1, <1>2, <2>1, <2>2, <2>3, SlotIsDone
<1>7. CASE AssignNew /\ created > MaxClusterId
  <2>1. at' = "done" /\ outcome' = "HardClustersIdAboveMax"
    BY <1>7 DEF AssignNew, Fail
  <2>2. QED
    BY <2>1 DEF PhantomInd, AlignedInd, LabelsInd, QuietInd, NoPhantomSpeaker
<1>8. CASE AssignNew /\ ~(created > MaxClusterId)
  <2>1. at' = "cluster" /\ left' = left \ {i} /\ created' = created + 1 /\ Label(i, created)
    BY <1>1, <1>3, <1>8 DEF AssignNew
  <2>2. created \in Int /\ created # UNMATCHED /\ created \in 0..created' - 1
    BY <1>2, <1>4, <2>1
  <2>3. QED
    BY <1>1, <1>2, <2>1, <2>2, SlotIsDone
<1>9. QED
  BY <1>5, <1>6, <1>7, <1>8

\* A mean is no more than the most that is added to it.
LEMMA MeansAreBounded ==
  ASSUME NEW sum \in Nat, NEW n \in Nat \ {0}, NEW most \in Nat, sum <= n * most
  PROVE  RoundTiesEven(sum, n) <= most
<1>1. PICK q \in Nat, r \in 0..n - 1 : q = sum \div n /\ r = sum % n /\ sum = n * q + r
  BY Quotients
<1>2. PICK whole \in Nat, bound \in Nat :
        whole = q * n /\ whole = n * q /\ bound = most * n /\ bound = n * most
  BY Products
<1>3. RoundTiesEven(sum, n) = IF 2 * r > n \/ (2 * r = n /\ q % 2 = 1) THEN q + 1 ELSE q
  BY <1>1 DEF RoundTiesEven
<1>4. CASE most < q
  <2>1. bound + n <= whole
    BY <1>2, <1>4, Multiples
  <2>2. QED
    BY <1>1, <1>2, <2>1
<1>5. CASE q < most
  <2>1. q + 1 <= most
    BY <1>5
  <2>2. QED
    BY <1>3, <2>1
<1>6. CASE q = most
  <2>1. r = 0
    BY <1>1, <1>2, <1>6
  <2>2. ~(2 * r > n) /\ 2 * r # n
    BY <2>1
  <2>3. QED
    BY <1>3, <1>6, <2>2
<1>7. QED
  BY <1>4, <1>5, <1>6

\* Cells that hold no more than `most` add up to no more than that of each.
LEMMA TotalsAreBounded ==
  ASSUME NEW cells, IsFiniteSet(cells), NEW most \in Nat, NEW value,
         \A cell \in cells : value[cell[1]][cell[2]] \in 0..most
  PROVE  Total(value, cells) \in Nat /\ Total(value, cells) <= Cardinality(cells) * most
<1> DEFINE counted == UNION {{cell} \X (1..value[cell[1]][cell[2]]) : cell \in cells}
<1>1. counted \subseteq cells \X (1..most)
  <2>1. ASSUME NEW x \in counted PROVE x \in cells \X (1..most)
    <3>1. PICK cell \in cells : x \in {cell} \X (1..value[cell[1]][cell[2]])
      OBVIOUS
    <3>2. PICK v \in 0..most : v = value[cell[1]][cell[2]]
      OBVIOUS
    <3>3. 1..v \subseteq 1..most
      BY <3>2
    <3>4. QED
      BY <3>1, <3>2, <3>3
  <2>2. QED
    BY <2>1
<1>2. IsFiniteSet(1..most) /\ Cardinality(1..most) = most
  BY FS_Interval
<1>3. /\ IsFiniteSet(cells \X (1..most))
      /\ Cardinality(cells \X (1..most)) = Cardinality(cells) * Cardinality(1..most)
  BY <1>2, FS_Product
<1> HIDE DEF counted
<1>4. IsFiniteSet(counted) /\ Cardinality(counted) <= Cardinality(cells \X (1..most))
  BY <1>1, <1>3, FS_Subset
<1>5. Cardinality(counted) \in Nat
  BY <1>4, FS_CardinalityType
<1>6. Total(value, cells) = Cardinality(counted)
  BY Zenon DEF Total, counted
<1>7. QED
  BY <1>2, <1>3, <1>4, <1>5, <1>6

\* The labels over a frame are those of speakers the clusterer made.
LEMMA LabelledFrames ==
  ASSUME PhantomInd, at = "cluster", NEW c \in 0..grid.chunks - 1, NEW f \in Frames
  PROVE  LabelsAt(c, f) \subseteq 0..created - 1
<1>1. DOMAIN slabs = 0..grid.chunks - 1 /\ DOMAIN hard = 0..grid.chunks - 1 /\ Labels = 0..created - 1
  BY DEF PhantomInd, AlignedInd, LabelsInd
<1>2. slabs[c][f] \subseteq Slots
  BY <1>1 DEF PhantomInd, ExtractionInd, TensorsInd, Powerset
<1>3. ASSUME NEW x \in LabelsAt(c, f) PROVE x \in Labels
  <2>1. PICK s \in slabs[c][f] : x = hard[c][s] /\ x # UNMATCHED
    BY DEF LabelsAt
  <2>2. QED
    BY <1>1, <1>2, <2>1 DEF Labels
<1>4. QED
  BY <1>1, <1>3

\* Where a chunk's first frame is put is a whole number.
LEMMA StartsAreWhole ==
  ASSUME PhantomInd, at = "cluster", NEW c \in 0..grid.chunks - 1
  PROVE  /\ AggregateStart(c, grid.chunksSW, grid.framesSW) \in Int
         /\ ReconstructStart(c, grid.chunksSW, grid.framesSW)
              = AggregateStart(c, grid.chunksSW, grid.framesSW)
<1>1. /\ grid.chunks \in Nat /\ grid.chunksSW.step \in Int /\ grid.framesSW.step \in Nat \ {0}
      /\ ~Misaligned(grid.chunks, grid.chunksSW, grid.framesSW)
  BY DEF PhantomInd, AlignedInd
<1>2. PICK x \in Int : x = c * grid.chunksSW.step
  <2>1. \A a, b \in Int : a * b \in Int
    OBVIOUS
  <2>2. QED
    BY <1>1, <2>1
<1>3. PICK d \in Nat \ {0} : d = grid.framesSW.step
  BY <1>1
<1>4. x \div d \in Int
  OBVIOUS
<1>5. RoundTiesEven(x, d) \in Int
  BY <1>4 DEF RoundTiesEven
<1>6. QED
  BY <1>1, <1>2, <1>3, <1>5 DEF AggregateStart, Misaligned

\* A frame's mean is no more than there are labels over it, all chunks together.
LEMMA NoFrameIsOvercounted ==
  ASSUME PhantomInd, at = "cluster", NEW t \in Int
  PROVE  LET over == {of \in (0..grid.chunks - 1) \X Frames :
                        ReconstructStart(of[1], grid.chunksSW, grid.framesSW) + of[2] = t}
             most == Cardinality(UNION {LabelsAt(cf[1], cf[2]) : cf \in over})
             cells == CellsAt(t, grid.chunks, ChunkFrames, grid.chunksSW, grid.framesSW)
         IN /\ 0 <= most
            /\ cells # {} =>
                 RoundTiesEven(Total([c \in 0..grid.chunks - 1 |-> ClustersAt(c)], cells),
                               Cardinality(cells)) <= most
<1> DEFINE over == {of \in (0..grid.chunks - 1) \X Frames :
                      ReconstructStart(of[1], grid.chunksSW, grid.framesSW) + of[2] = t}
           heardThere == UNION {LabelsAt(cf[1], cf[2]) : cf \in over}
           most == Cardinality(heardThere)
           cells == CellsAt(t, grid.chunks, ChunkFrames, grid.chunksSW, grid.framesSW)
           value == [c \in 0..grid.chunks - 1 |-> ClustersAt(c)]
<1>1. grid.chunks \in Nat /\ created \in Nat
  BY ExtractionAssumption DEF PhantomInd, AlignedInd, ExtractionInd, PlacesInd
<1>2. cells \subseteq over
  <2>1. ASSUME NEW cell \in cells PROVE cell \in over
    <3>1. PICK c \in 0..grid.chunks - 1 :
            /\ t - AggregateStart(c, grid.chunksSW, grid.framesSW) \in 0..ChunkFrames - 1
            /\ cell = <<c, t - AggregateStart(c, grid.chunksSW, grid.framesSW)>>
      BY DEF CellsAt
    <3>2. PICK first \in Int : /\ first = AggregateStart(c, grid.chunksSW, grid.framesSW)
                               /\ first = ReconstructStart(c, grid.chunksSW, grid.framesSW)
      BY StartsAreWhole
    <3>3. cell = <<c, t - first>> /\ t - first \in Frames /\ first + (t - first) = t
      BY <3>1, <3>2 DEF Frames
    <3>4. QED
      BY <3>1, <3>2, <3>3
  <2>2. QED
    BY <2>1
<1>3. IsFiniteSet(cells)
  <2>1. IsFiniteSet(0..grid.chunks - 1) /\ IsFiniteSet(Frames)
    <3>1. \A n \in Nat : IsFiniteSet(0..n - 1)
      BY FS_Interval
    <3>2. QED
      BY <1>1, <3>1, FramesAreFinite
  <2>2. IsFiniteSet((0..grid.chunks - 1) \X Frames)
    BY <2>1, FS_Product
  <2>3. over \subseteq (0..grid.chunks - 1) \X Frames
    OBVIOUS
  <2>4. cells \subseteq (0..grid.chunks - 1) \X Frames
    BY <1>2, <2>3, Zenon
  <2>5. QED
    BY <2>2, <2>4, FS_Subset, Zenon
<1>4. heardThere \subseteq 0..created - 1
  BY LabelledFrames
<1>5. IsFiniteSet(heardThere) /\ most \in Nat
  <2> HIDE DEF heardThere
  <2>1. IsFiniteSet(0..created - 1)
    BY <1>1, FS_Interval
  <2>2. IsFiniteSet(heardThere)
    BY <1>4, <2>1, FS_Subset
  <2>3. QED
    BY <2>2, FS_CardinalityType
<1>6. \A cell \in cells : value[cell[1]][cell[2]] \in 0..most
  <2>1. ASSUME NEW cell \in cells PROVE value[cell[1]][cell[2]] \in 0..most
    <3>1. cell \in over
      BY <1>2, Zenon
    <3>2. cell[1] \in 0..grid.chunks - 1 /\ cell[2] \in Frames
      BY <3>1
    <3>3. value[cell[1]][cell[2]] = Cardinality(LabelsAt(cell[1], cell[2]))
      BY <3>2 DEF ClustersAt
    <3>4. LabelsAt(cell[1], cell[2]) \subseteq heardThere
      BY <3>1
    <3> HIDE DEF heardThere, value
    <3>5. /\ IsFiniteSet(LabelsAt(cell[1], cell[2]))
          /\ Cardinality(LabelsAt(cell[1], cell[2])) <= most
      BY <1>5, <3>4, FS_Subset
    <3>6. Cardinality(LabelsAt(cell[1], cell[2])) \in Nat
      BY <3>5, FS_CardinalityType
    <3>7. QED
      BY <1>5, <3>3, <3>5, <3>6
  <2>2. QED
    BY <2>1
<1> HIDE DEF cells, value, heardThere
<1>7. Total(value, cells) \in Nat /\ Total(value, cells) <= Cardinality(cells) * most
  BY <1>3, <1>5, <1>6, TotalsAreBounded
<1>8. ASSUME cells # {} PROVE RoundTiesEven(Total(value, cells), Cardinality(cells)) <= most
  <2>1. Cardinality(cells) \in Nat \ {0}
    BY <1>3, <1>8, FS_CardinalityType, FS_EmptySet
  <2>2. QED
    BY <1>5, <1>7, <2>1, MeansAreBounded
<1>9. QED
  BY <1>5, <1>8 DEF cells, value, heardThere

LEMMA SpeakersAreCounted ==
  ASSUME PhantomInd, ExtractionInd', CountClusters
  PROVE  PhantomInd'
<1>1. /\ at = "cluster" /\ at' = "done" /\ UNCHANGED <<grid, slabs, hard, created>>
      /\ \/ outcome' = "CountLenMismatch"
         \/ online' = Aggregate([c \in 0..grid.chunks - 1 |-> ClustersAt(c)],
                                grid.chunks, ChunkFrames, grid.chunksSW, grid.framesSW)
  BY DEF CountClusters, tensors
<1>2. \A c, f : LabelsAt(c, f)' = LabelsAt(c, f)
  BY <1>1 DEF LabelsAt
<1>3. Labels = 0..created - 1
  BY <1>1 DEF PhantomInd, LabelsInd
<1>4. NoPhantomSpeaker'
  <2>1. CASE outcome' = "CountLenMismatch"
    BY <2>1 DEF NoPhantomSpeaker
  <2>2. CASE online' = Aggregate([c \in 0..grid.chunks - 1 |-> ClustersAt(c)],
                                 grid.chunks, ChunkFrames, grid.chunksSW, grid.framesSW)
    <3>1. ASSUME NEW t \in DOMAIN online'
          PROVE  online'[t] <= Cardinality(UNION
                   {LabelsAt(cf[1], cf[2]) :
                      cf \in {of \in (0..grid.chunks - 1) \X Frames :
                               ReconstructStart(of[1], grid.chunksSW, grid.framesSW) + of[2] = t}})
      <4>1. t \in Int
        BY <2>2 DEF Aggregate
      <4> DEFINE cells == CellsAt(t, grid.chunks, ChunkFrames, grid.chunksSW, grid.framesSW)
      <4>2. online'[t] = IF cells = {} THEN 0
                         ELSE RoundTiesEven(Total([c \in 0..grid.chunks - 1 |-> ClustersAt(c)], cells),
                                            Cardinality(cells))
        BY <2>2 DEF Aggregate
      <4>3. QED
        BY <1>1, <4>1, <4>2, NoFrameIsOvercounted
    <3>2. QED
      BY <1>1, <1>2, <1>3, <3>1 DEF NoPhantomSpeaker, Labels
  <2>3. QED
    BY <1>1, <2>1, <2>2
<1>5. QED
  BY <1>1, <1>4 DEF PhantomInd, AlignedInd, LabelsInd, QuietInd

LEMMA SpeakersGoOn ==
  ASSUME PhantomInd, ExtractionInd', UNCHANGED vars
  PROVE  PhantomInd'
<1>1. UNCHANGED <<at, grid, slabs, left, outcome, hard, created, online>>
  BY DEF vars
<1>2. AlignedInd' /\ LabelsInd' /\ QuietInd'
  BY <1>1 DEF PhantomInd, AlignedInd, LabelsInd, QuietInd, Labels
<1>3. NoPhantomSpeaker'
  <2>1. \A c, f : LabelsAt(c, f)' = LabelsAt(c, f)
    BY <1>1 DEF LabelsAt
  <2>2. QED
    BY <1>1, <2>1 DEF PhantomInd, NoPhantomSpeaker
<1>4. QED
  BY <1>2, <1>3 DEF PhantomInd

LEMMA PhantomInit == Init => PhantomInd
<1> SUFFICES ASSUME Init PROVE PhantomInd
  OBVIOUS
<1>1. at = "called" /\ hard = <<>> /\ created = 0 /\ online = <<>>
  BY DEF Init
<1>2. NoPhantomSpeaker
  BY <1>1, NobodyIsNoPhantom
<1>3. QED
  BY <1>1, <1>2, ExtractionInitInd DEF PhantomInd, AlignedInd, LabelsInd, QuietInd

LEMMA PhantomStep ==
  ASSUME PhantomInd, [Next]_vars
  PROVE  PhantomInd'
<1>1. ExtractionInd'
  BY ExtractionStep, ExtractionsGoOn DEF PhantomInd
<1>2. CASE UNCHANGED vars
  BY <1>1, <1>2, SpeakersGoOn
<1>3. CASE DiarizeOnline
  BY <1>1, <1>3, DiarizeStep
<1>4. CASE PassOver \/ AssignNew \/ AssignExisting \/ AssignDropped
  BY <1>1, <1>4, AssignStep
<1>5. CASE CountClusters
  BY <1>1, <1>5, SpeakersAreCounted
<1>6. CASE Done
  BY <1>1, <1>6, SpeakersGoOn DEF Done
<1>7. CASE \/ Refuse \/ Unavailable \/ Begin \/ SegmentChunk \/ EmbedChunk
           \/ ExtractChunkEmbeddings \/ SplitRefused \/ EmbedFailsAndIsRetried \/ InferenceFails
           \/ SegmentOuter \/ EmbedOuter \/ Assemble \/ TryFromParts
  BY <1>1, <1>7, WaitingStep
<1>8. QED
  BY <1>2, <1>3, <1>4, <1>5, <1>6, <1>7 DEF Next

\* No frame of a diarization counts a speaker none of whose slots spoke there,
\* and the labels are those of the speakers that were made: diarize_online, for
\* every recording, every segmenter and every order the clusterer decides in.
THEOREM NobodyIsAPhantom == Spec => []NoPhantomSpeaker
<1>1. PhantomInd => NoPhantomSpeaker
  BY DEF PhantomInd
<1>2. QED
  BY <1>1, PhantomInit, PhantomStep, PTL DEF Spec

\* The same of an extraction that runs beside a calibration.
THEOREM NobodyIsAPhantomInTheRun == MCSpec => []NoPhantomSpeaker
<1>1. MCInit => PhantomInd
  BY PhantomInit DEF MCInit
<1>2. PhantomInd /\ [MCNext]_<<vars, calibrationVars, part>> => PhantomInd'
  BY PhantomStep DEF MCNext
<1>3. PhantomInd => NoPhantomSpeaker
  BY DEF PhantomInd
<1>4. QED
  BY <1>1, <1>2, <1>3, PTL DEF MCSpec

-----------------------------------------------------------------------------
(* Calibrations. *)

Filed == [speaker : 0..Nobody, profile : Scorings]
Builders == [open : BOOLEAN, speakers : SUBSET Nat, entries : Seq(Filed)]
Frozen == [kind : {"library", "heldOut"}, speakers : SUBSET Nat, entries : Seq(Filed)]
\* Whose profile is in a library is known to it.
Known(cohort) == \A i \in DOMAIN cohort.entries : cohort.entries[i].speaker \in cohort.speakers
Cohort(frozen) ==
  /\ frozen.entries \in Seq(Filed)
  /\ frozen.kind \in {"library", "heldOut"}
  /\ frozen.kind = "library" => Known(frozen)
  /\ frozen.kind = "heldOut" => \A i \in DOMAIN frozen.entries : frozen.entries[i].speaker = Nobody

CalibrationInd ==
  /\ tokens \in 0..MaxTokens
  /\ builders \in Seq(Builders)
  /\ \A b \in DOMAIN builders : Known(builders[b])
  /\ calibrations \in Seq(Frozen)
  /\ \A id \in DOMAIN calibrations : Cohort(calibrations[id])

\* What comes of a side: an error that is not a foreign speaker's, or a side
\* scored against all the entries given, each of its own space.
LEMMA SideFacts ==
  ASSUME NEW profile, NEW entries, NEW id
  PROVE  /\ Refused(<<"ForeignSpeaker">>) \notin SideOutcomes(profile, entries, id)
         /\ \A side \in SideOutcomes(profile, entries, id) : side.ok =>
              /\ side.considered = entries /\ side.calibration = id /\ side.profile = profile
              /\ \A i \in DOMAIN entries : entries[i].profile = profile
<1> DEFINE mismatched == {i \in DOMAIN entries : entries[i].profile # profile}
           considered == Len(entries)
           selected == IF considered < TopN THEN considered ELSE TopN
           space == Refused(<<"ScoringMismatch", profile, entries[Min(mismatched)].profile>>)
           empty == Refused(<<"EmptyCohort">>)
           small == Refused(<<"CohortTooSmall", selected, considered>>)
           flat == Refused(<<"DegenerateCohort", selected, considered>>)
           side == [ok |-> TRUE, profile |-> profile, considered |-> entries, calibration |-> id]
           foreign == Refused(<<"ForeignSpeaker">>)
<1>1. SideOutcomes(profile, entries, id) =
        CASE mismatched # {} -> {space}
          [] considered = 0 -> {empty}
          [] considered > 0 /\ selected < MinCohortScores -> {small}
          [] OTHER -> {flat, side}
  BY Zenon DEF SideOutcomes
<1>2. /\ space.ok = FALSE /\ empty.ok = FALSE /\ small.ok = FALSE /\ flat.ok = FALSE
      /\ space.why[1] # "ForeignSpeaker" /\ empty.why[1] # "ForeignSpeaker"
      /\ small.why[1] # "ForeignSpeaker" /\ flat.why[1] # "ForeignSpeaker"
      /\ foreign.why[1] = "ForeignSpeaker" /\ foreign.ok = FALSE
  BY DEF Refused
<1>3. /\ side.ok = TRUE /\ side.considered = entries
      /\ side.calibration = id /\ side.profile = profile
  OBVIOUS
<1> HIDE DEF space, empty, small, flat, side, foreign, mismatched, considered, selected
<1>4. SideOutcomes(profile, entries, id) \subseteq {space, empty, small, flat, side}
      /\ (side \in SideOutcomes(profile, entries, id) => mismatched = {})
  <2>1. side \notin {space, empty, small}
    BY <1>2, <1>3
  <2>2. QED
    BY <1>1, <2>1
<1>5. foreign \notin {space, empty, small, flat, side}
  BY <1>2, <1>3
<1>6. mismatched = {} => \A i \in DOMAIN entries : entries[i].profile = profile
  BY DEF mismatched
<1>7. ASSUME NEW x \in SideOutcomes(profile, entries, id), x.ok
      PROVE  x = side
  BY <1>2, <1>4, <1>7
<1>8. foreign \notin SideOutcomes(profile, entries, id)
  BY <1>4, <1>5
<1>9. QED
  BY <1>3, <1>4, <1>6, <1>7, <1>8 DEF foreign

\* The entries a side leaves out are its own speaker's, and only those.
LEMMA OthersFacts ==
  ASSUME NEW T, NEW entries \in Seq(T), NEW token
  PROVE  /\ Others(entries, token) \in Seq(T)
         /\ \A i \in DOMAIN Others(entries, token) : Others(entries, token)[i].speaker # token
         /\ Len(Others(entries, token)) =
              Cardinality({i \in DOMAIN entries : entries[i].speaker # token})
<1> DEFINE idx == {i \in DOMAIN entries : entries[i].speaker # token}
<1>1. Others(entries, token) = At(entries, idx) /\ idx \in SUBSET (DOMAIN entries)
  BY DEF Others
<1>2. \A i \in idx : entries[i].speaker # token
  OBVIOUS
<1> HIDE DEF idx
<1>3. /\ At(entries, idx) \in Seq(T) /\ Len(At(entries, idx)) = Cardinality(idx)
      /\ \A k \in 1..Len(At(entries, idx)) : \E i \in idx : At(entries, idx)[k] = entries[i]
  BY <1>1, SelectionType
<1>4. QED
  BY <1>1, <1>2, <1>3 DEF idx
\* A cohort's entries, read where they stand.
LEMMA CohortEntries ==
  ASSUME NEW frozen, Cohort(frozen)
  PROVE  /\ DOMAIN frozen.entries = 1..Len(frozen.entries)
         /\ \A i \in DOMAIN frozen.entries : frozen.entries[i] \in Filed
         /\ ToSet(frozen.entries) = {frozen.entries[i] : i \in DOMAIN frozen.entries}
  BY DEF Cohort, ToSet

LEMMA CohortsKeepSidesApart ==
  ASSUME tokens \in 0..MaxTokens, NEW id \in DOMAIN calibrations, Cohort(calibrations[id])
  PROVE  /\ \A e \in ToSet(calibrations[id].entries) : e.speaker # Nobody =>
              Refused(<<"ForeignSpeaker">>) \notin EnrolledSide(id, e.speaker, e.profile)
         /\ \A t \in Taken(id) :
              /\ t.side.calibration = id
              /\ \A e \in ToSet(t.side.considered) : e.profile = t.side.profile
              /\ t.of.speaker \notin {e.speaker : e \in ToSet(t.side.considered)}
              /\ Len(t.side.considered) =
                   Cardinality({i \in DOMAIN calibrations[id].entries :
                                  calibrations[id].entries[i].speaker # t.of.speaker})
<1> DEFINE cohort == calibrations[id]
           entries == cohort.entries
<1>1. /\ entries \in Seq(Filed) /\ DOMAIN entries = 1..Len(entries)
      /\ \A i \in DOMAIN entries : entries[i] \in Filed
      /\ ToSet(entries) = {entries[i] : i \in DOMAIN entries}
  BY CohortEntries DEF Cohort
<1>2. Nobody \in Nat /\ Nobody = MaxTokens /\ Unnamed = MaxTokens + 1
  BY CalibrationAssumption DEF Nobody, Unnamed
<1>3. ASSUME NEW e \in ToSet(entries), e.speaker # Nobody
      PROVE  Refused(<<"ForeignSpeaker">>) \notin EnrolledSide(id, e.speaker, e.profile)
  <2>1. e.speaker \in cohort.speakers
    BY <1>1, <1>3 DEF Cohort, Known
  <2>2. EnrolledSide(id, e.speaker, e.profile) = SideOutcomes(e.profile, Others(entries, e.speaker), id)
    BY <2>1 DEF EnrolledSide
  <2>3. QED
    BY <2>2, SideFacts
<1>4. ASSUME NEW t \in Taken(id)
      PROVE  \E considered \in Seq(Filed) :
               /\ t.side.calibration = id /\ t.side.considered = considered
               /\ \A i \in DOMAIN considered : considered[i].profile = t.side.profile
               /\ \A i \in DOMAIN considered : considered[i].speaker # t.of.speaker
               /\ Len(considered) = Cardinality({i \in DOMAIN entries : entries[i].speaker # t.of.speaker})
  <2>0. PICK s \in Subjects(id) : \E x \in Sides(id, s) : x.ok /\ t = [side |-> x, of |-> s]
    BY DEF Taken
  <2>1. PICK x \in Sides(id, s) : x.ok /\ t = [side |-> x, of |-> s]
    BY <2>0
  <2>2. t.side = x /\ t.of = s
    BY <2>1
  <2>3. CASE cohort.kind = "heldOut"
    <3>1. s.speaker = Unnamed /\ x \in SideOutcomes(s.profile, entries, id)
      BY <2>3 DEF Subjects, Sides, HeldOutSide
    <3>2. /\ x.considered = entries /\ x.calibration = id /\ x.profile = s.profile
          /\ \A i \in DOMAIN entries : entries[i].profile = s.profile
      BY <2>1, <3>1, SideFacts
    <3>3. \A i \in DOMAIN entries : entries[i].speaker # s.speaker
      BY <1>2, <2>3, <3>1 DEF Cohort
    <3>4. {i \in DOMAIN entries : entries[i].speaker # s.speaker} = 1..Len(entries)
      BY <1>1, <3>3
    <3>5. Cardinality(1..Len(entries)) = Len(entries)
      <4>1. \A n \in Nat : Cardinality(1..n) = n
        BY FS_Interval
      <4>2. Len(entries) \in Nat
        BY <1>1
      <4>3. QED
        BY <4>1, <4>2
    <3>6. QED
      BY <1>1, <2>2, <3>2, <3>3, <3>4, <3>5
  <2>4. CASE cohort.kind # "heldOut"
    <3>1. x \in EnrolledSide(id, s.speaker, s.profile)
      BY <2>4 DEF Sides
    <3>2. x \in SideOutcomes(s.profile, Others(entries, s.speaker), id)
      <4>1. x # Refused(<<"ForeignSpeaker">>)
        BY <2>1 DEF Refused
      <4>2. QED
        BY <3>1, <4>1 DEF EnrolledSide
    <3>3. PICK others : others = Others(entries, s.speaker)
      OBVIOUS
    <3>4. /\ x.considered = others /\ x.calibration = id /\ x.profile = s.profile
          /\ \A i \in DOMAIN others : others[i].profile = s.profile
      BY <2>1, <3>2, <3>3, SideFacts
    <3>5. /\ others \in Seq(Filed) /\ \A i \in DOMAIN others : others[i].speaker # s.speaker
          /\ Len(others) = Cardinality({i \in DOMAIN entries : entries[i].speaker # s.speaker})
      BY <1>1, <3>3, OthersFacts
    <3>6. QED
      BY <2>2, <3>4, <3>5
  <2>5. QED
    BY <2>3, <2>4
<1>5. ASSUME NEW t \in Taken(id)
      PROVE  /\ t.side.calibration = id
             /\ \A e \in ToSet(t.side.considered) : e.profile = t.side.profile
             /\ t.of.speaker \notin {e.speaker : e \in ToSet(t.side.considered)}
             /\ Len(t.side.considered) =
                  Cardinality({i \in DOMAIN entries : entries[i].speaker # t.of.speaker})
  <2>1. PICK considered \in Seq(Filed) :
          /\ t.side.calibration = id /\ t.side.considered = considered
          /\ \A i \in DOMAIN considered : considered[i].profile = t.side.profile
          /\ \A i \in DOMAIN considered : considered[i].speaker # t.of.speaker
          /\ Len(considered) = Cardinality({i \in DOMAIN entries : entries[i].speaker # t.of.speaker})
    BY <1>4
  <2>2. ToSet(considered) = {considered[i] : i \in DOMAIN considered}
    BY DEF ToSet
  <2>3. QED
    BY <2>1, <2>2
<1>6. QED
  BY <1>3, <1>5

LEMMA CalibrationIndHolds == CalibrationInd => SidesKeepApart
<1> SUFFICES ASSUME CalibrationInd PROVE SidesKeepApart
  OBVIOUS
<1>1. ASSUME NEW id \in DOMAIN calibrations
      PROVE  tokens \in 0..MaxTokens /\ Cohort(calibrations[id])
  BY DEF CalibrationInd
<1>2. ASSUME NEW id \in DOMAIN calibrations, NEW a \in DOMAIN calibrations, NEW b \in DOMAIN calibrations,
             NEW x \in Taken(a), NEW y \in Taken(b),
             NEW o \in TrialOutcomes(id, x.side, y.side), o.ok
      PROVE  a = id /\ b = id /\ x.side.profile = y.side.profile
  <2>1. x.side.calibration = a /\ y.side.calibration = b
    BY <1>1, CohortsKeepSidesApart
  <2>2. \A why : Refused(why).ok = FALSE
    BY DEF Refused
  <2>3. {x.side.calibration, y.side.calibration} = {id}
    BY <1>2, <2>2 DEF TrialOutcomes
  <2>4. x.side.profile = y.side.profile
    BY <1>2, <2>2, <2>3 DEF TrialOutcomes
  <2>5. QED
    BY <2>1, <2>3, <2>4
<1>3. ASSUME NEW id \in DOMAIN calibrations
      PROVE  /\ \A e \in ToSet(calibrations[id].entries) : e.speaker # Nobody =>
                  Refused(<<"ForeignSpeaker">>) \notin EnrolledSide(id, e.speaker, e.profile)
             /\ \A t \in Taken(id) :
                  /\ \A e \in ToSet(t.side.considered) : e.profile = t.side.profile
                  /\ t.of.speaker \notin {e.speaker : e \in ToSet(t.side.considered)}
                  /\ Len(t.side.considered) =
                       Cardinality({i \in DOMAIN calibrations[id].entries :
                                      calibrations[id].entries[i].speaker # t.of.speaker})
  BY <1>1, CohortsKeepSidesApart
<1>4. \A id, a, b \in DOMAIN calibrations : \A x \in Taken(a), y \in Taken(b) :
        (\E o \in TrialOutcomes(id, x.side, y.side) : o.ok) =>
          a = id /\ b = id /\ x.side.profile = y.side.profile
  BY <1>2
<1>5. QED
  BY <1>3, <1>4, Zenon DEF SidesKeepApart
-----------------------------------------------------------------------------
LEMMA CalibrationInitInd == CalibrationInit => CalibrationInd
<1> SUFFICES ASSUME CalibrationInit PROVE CalibrationInd
  OBVIOUS
<1>1. MaxTokens \in Nat
  BY CalibrationAssumption
<1>2. NewBuilder \in Builders
  BY DEF NewBuilder, Builder, Builders
<1>3. Known(NewBuilder)
  BY DEF NewBuilder, Builder, Known
<1>4. DOMAIN calibrations = {} /\ calibrations \in Seq(Frozen)
  BY DEF CalibrationInit
<1>5. DOMAIN builders = {1} /\ builders[1] = NewBuilder
  BY DEF CalibrationInit
<1>6. builders \in Seq(Builders)
  BY <1>2 DEF CalibrationInit
<1>7. QED
  BY <1>1, <1>3, <1>4, <1>5, <1>6 DEF CalibrationInit, CalibrationInd

\* A builder that is changed keeps knowing whose profiles it holds.
LEMMA BuildersGoOn ==
  ASSUME NEW b \in DOMAIN builders, NEW changed, CalibrationInd,
         changed \in Builders, Known(changed),
         builders' = [builders EXCEPT ![b] = changed]
  PROVE  /\ builders' \in Seq(Builders)
         /\ \A d \in DOMAIN builders' : Known(builders'[d])
<1>1. builders \in Seq(Builders) /\ changed \in Builders
  BY DEF CalibrationInd
<1>2. builders' \in Seq(Builders) /\ DOMAIN builders' = DOMAIN builders
      /\ \A d \in DOMAIN builders : builders'[d] = IF d = b THEN changed ELSE builders[d]
  BY <1>1
<1>3. QED
  BY <1>2 DEF CalibrationInd

LEMMA CalibrationsGoOn ==
  ASSUME NEW frozen \in Frozen, CalibrationInd, Cohort(frozen),
         calibrations' = Append(calibrations, frozen)
  PROVE  /\ calibrations' \in Seq(Frozen)
         /\ \A id \in DOMAIN calibrations' : Cohort(calibrations'[id])
<1>1. calibrations \in Seq(Frozen)
  BY DEF CalibrationInd
<1>2. /\ calibrations' \in Seq(Frozen)
      /\ \A id \in DOMAIN calibrations' :
           \/ id \in DOMAIN calibrations /\ calibrations'[id] = calibrations[id]
           \/ calibrations'[id] = frozen
  BY <1>1
<1>3. QED
  BY <1>2 DEF CalibrationInd

\* A profile that was prepared is of the scoring it was prepared for.
LEMMA ProfilesAreScorings ==
  ASSUME NEW s \in Scorings, NEW p \in Profiles(s)
  PROVE  p = s
<1>1. PICK row \in Rows : Prepare(s, row).ok /\ p = Prepare(s, row).profile
  BY DEF Profiles
<1>2. QED
  BY <1>1 DEF Prepare

LEMMA CalibrationStep == CalibrationInd /\ [CalibrationNext]_calibrationVars => CalibrationInd'
<1> SUFFICES ASSUME CalibrationInd, [CalibrationNext]_calibrationVars PROVE CalibrationInd'
  OBVIOUS
<1>1. /\ MaxTokens \in Nat /\ Nobody = MaxTokens /\ tokens \in 0..MaxTokens
      /\ builders \in Seq(Builders)
      /\ \A b \in DOMAIN builders : builders[b] \in Builders /\ Known(builders[b])
  BY CalibrationAssumption DEF CalibrationInd, Nobody
<1>2. ASSUME NEW b \in DOMAIN builders, MintSpeaker(b) PROVE CalibrationInd'
  <2> DEFINE changed == Builder(TRUE, builders[b].speakers \cup {tokens}, builders[b].entries)
  <2>1. builders' = [builders EXCEPT ![b] = changed]
    BY <1>2 DEF MintSpeaker
  <2>2. changed \in Builders /\ Known(changed)
    BY <1>1 DEF Builder, Builders, Known
  <2>3. tokens' \in 0..MaxTokens
    BY <1>1, <1>2 DEF MintSpeaker
  <2>4. QED
    BY <1>2, <2>1, <2>2, <2>3, BuildersGoOn DEF MintSpeaker, CalibrationInd
<1>3. ASSUME NEW b \in DOMAIN builders, NEW token \in 0..tokens - 1, NEW s \in Scorings,
             NEW p \in Profiles(s), PushEntry(b, token, p)
      PROVE  CalibrationInd'
  <2> DEFINE changed == Builder(TRUE, builders[b].speakers \cup {token},
                                Append(builders[b].entries, Entry(token, p)))
  <2>1. builders' = [builders EXCEPT ![b] = changed]
    BY <1>3 DEF PushEntry
  <2>2. Entry(token, p) \in Filed
    BY <1>1, ProfilesAreScorings DEF Entry, Filed
  <2>3. PICK one \in Builders : one = builders[b] /\ Known(one)
    BY <1>1
  <2>4. PICK speakers \in SUBSET Nat, entries \in Seq(Filed), open \in BOOLEAN :
          one = [open |-> open, speakers |-> speakers, entries |-> entries]
    BY DEF Builders
  <2>5. changed = [open |-> TRUE, speakers |-> speakers \cup {token},
                   entries |-> Append(entries, Entry(token, p))]
    BY <2>3, <2>4 DEF Builder
  <2>6. PICK more \in Seq(Filed) :
          /\ more = Append(entries, Entry(token, p))
          /\ \A i \in DOMAIN more : \/ more[i].speaker = token
                                    \/ i \in DOMAIN entries /\ more[i] = entries[i]
    <3>1. PICK filed \in Filed : filed = Entry(token, p) /\ filed.speaker = token
      BY <2>2 DEF Entry
    <3>2. /\ Append(entries, filed) \in Seq(Filed)
          /\ DOMAIN Append(entries, filed) = 1..Len(entries) + 1 /\ DOMAIN entries = 1..Len(entries)
          /\ \A i \in 1..Len(entries) : Append(entries, filed)[i] = entries[i]
          /\ Append(entries, filed)[Len(entries) + 1] = filed /\ Len(entries) \in Nat
      OBVIOUS
    <3>3. \A i \in 1..Len(entries) + 1 : i \in 1..Len(entries) \/ i = Len(entries) + 1
      BY <3>2
    <3>4. QED
      BY <3>1, <3>2, <3>3
  <2>7. changed \in Builders /\ Known(changed)
    <3> HIDE DEF changed
    <3>1. speakers \cup {token} \in SUBSET Nat
      BY <1>1
    <3>2. changed.entries = more /\ changed.speakers = speakers \cup {token}
      BY <2>5, <2>6
    <3>3. \A i \in DOMAIN entries : entries[i].speaker \in speakers
      BY <2>3, <2>4 DEF Known
    <3>4. Known(changed)
      BY <2>6, <3>2, <3>3 DEF Known
    <3>5. changed \in Builders
      BY <2>5, <2>6, <3>1 DEF Builders
    <3>6. QED
      BY <3>4, <3>5
  <2>8. QED
    BY <1>3, <2>1, <2>7, BuildersGoOn DEF PushEntry, CalibrationInd
<1>4. ASSUME CloneBuilder PROVE CalibrationInd'
  <2>1. builders[1] \in Builders /\ Known(builders[1])
    BY <1>1, <1>4 DEF CloneBuilder
  <2>2. builders' \in Seq(Builders) /\ \A d \in DOMAIN builders' :
          \/ builders'[d] = builders[1]
          \/ d \in DOMAIN builders /\ builders'[d] = builders[d]
    <3>1. PICK one \in Builders : one = builders[1] /\ builders' = Append(builders, one)
      BY <1>4, <2>1 DEF CloneBuilder
    <3>2. builders \in Seq(Builders)
      BY <1>1
    <3>3. QED
      BY <3>1, <3>2
  <2>3. QED
    BY <1>1, <1>4, <2>1, <2>2 DEF CloneBuilder, CalibrationInd
<1>5. ASSUME NEW b \in DOMAIN builders, FreezeLibrary(b) PROVE CalibrationInd'
  <2> DEFINE changed == Builder(FALSE, {}, <<>>)
             frozen == [kind |-> "library", speakers |-> builders[b].speakers,
                        entries |-> builders[b].entries]
  <2>1. builders' = [builders EXCEPT ![b] = changed] /\ calibrations' = Append(calibrations, frozen)
    BY <1>5 DEF FreezeLibrary
  <2>2. changed \in Builders /\ Known(changed)
    BY DEF Builder, Builders, Known
  <2>3. frozen \in Frozen /\ Cohort(frozen)
    BY <1>1 DEF Frozen, Builders, Cohort, Known
  <2>4. /\ builders' \in Seq(Builders) /\ \A d \in DOMAIN builders' : Known(builders'[d])
    BY <2>1, <2>2, BuildersGoOn
  <2>5. calibrations' \in Seq(Frozen) /\ \A id \in DOMAIN calibrations' : Cohort(calibrations'[id])
    BY <2>1, <2>3, CalibrationsGoOn
  <2>6. QED
    BY <1>1, <1>5, <2>4, <2>5 DEF FreezeLibrary, CalibrationInd
<1>6. ASSUME NEW profiles \in HeldOuts, FreezeHeldOut(profiles) PROVE CalibrationInd'
  <2> DEFINE entries == [i \in DOMAIN profiles |-> Entry(Nobody, profiles[i])]
             frozen == [kind |-> "heldOut", speakers |-> {}, entries |-> entries]
  <2>1. calibrations' = Append(calibrations, frozen)
    BY <1>6 DEF FreezeHeldOut
  <2>2. profiles \in Seq(Scorings)
    BY CalibrationAssumption
  <2>3. entries \in Seq(Filed) /\ \A i \in DOMAIN entries : entries[i].speaker = Nobody
    <3>1. \A s \in Scorings : Entry(Nobody, s) \in Filed /\ Entry(Nobody, s).speaker = Nobody
      BY <1>1 DEF Entry, Filed
    <3>2. QED
      BY <2>2, <3>1
  <2>4. frozen \in Frozen /\ Cohort(frozen)
    <3> HIDE DEF entries
    <3>1. QED
      BY <2>3 DEF Frozen, Cohort
  <2>5. calibrations' \in Seq(Frozen) /\ \A id \in DOMAIN calibrations' : Cohort(calibrations'[id])
    BY <2>1, <2>4, CalibrationsGoOn
  <2>6. QED
    BY <1>1, <1>6, <2>5 DEF FreezeHeldOut, CalibrationInd
<1>7. CASE UNCHANGED calibrationVars
  BY <1>7 DEF calibrationVars, CalibrationInd
<1>8. QED
  BY <1>2, <1>3, <1>4, <1>5, <1>6, <1>7 DEF CalibrationNext

\* A side is scored against everyone's profiles but its own speaker's, in one
\* space, and sides meet over one cohort only (Calibration::stats_excluding,
\* trial), for every number of builders, profiles and cohorts.
THEOREM SidesStayApart == CalibrationInit /\ [][CalibrationNext]_calibrationVars => []SidesKeepApart
  BY CalibrationInitInd, CalibrationStep, CalibrationIndHolds, PTL

\* The same of calibrations beside which an extraction runs.
THEOREM SidesStayApartInTheRun == MCSpec => []SidesKeepApart
<1>1. MCInit => CalibrationInd
  BY CalibrationInitInd DEF MCInit
<1>2. CalibrationInd /\ [MCNext]_<<vars, calibrationVars, part>> => CalibrationInd'
  BY CalibrationStep DEF MCNext, calibrationVars
<1>3. CalibrationInd => SidesKeepApart
  BY CalibrationIndHolds
<1>4. QED
  BY <1>1, <1>2, <1>3, PTL DEF MCSpec
=============================================================================
