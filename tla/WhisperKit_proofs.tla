-------------------------- MODULE WhisperKit_proofs --------------------------
(***************************************************************************)
(* Proofs about what MCWhisperKit composes: a call of transcribe, and what *)
(* a kit shares and runs.                                                  *)
(*                                                                         *)
(* The call, for every length of audio, every window, every options, every *)
(* outcome of an attempt and every failure: what it tells of its attempts  *)
(* is what they did, the probes it lists are those of the text it kept,    *)
(* the ids it gives lie in the span told beside them, and what it was      *)
(* asked to hear it has decoded.  The invariant has five layers, each      *)
(* inductive relative to the first.                                        *)
(*                                                                         *)
(* The rest, for every number of loads, callers, audios and threads: the   *)
(* manager that loads its models, the detector under several calls, and a  *)
(* batch of its tasks.                                                     *)
(***************************************************************************)
EXTENDS MCWhisperKit, Selections_proofs

InTask == at \in {"clip", "attempt", "window"}
InWindow == at \in {"attempt", "window"}

-----------------------------------------------------------------------------
(* The layers. *)

Segment == [id : Nat, blank : BOOLEAN]
ClipRange == [start : Nat, end : Nat]
Stretch == [offset : Nat, length : 0..Content]
Observation == [start : Nat, size : 1..Window, language : Languages]
ResultSet == [ok : {TRUE}, ids : Seq(Nat), facts : FactsOf(Languages)]
SeenSet ==
  [drew : BOOLEAN, stopped : BOOLEAN, swallowed : BOOLEAN,
   language : Optional(Languages)]

\* Where a call is, and what stands there.
Control ==
  /\ chunk >= 1
  /\ at # "end" => returned = {}
  /\ at \notin {"cut", "end"} => ~ClipsRefused(options.clips)
  /\ \A r \in returned : r.ok => ~ClipsRefused(options.clips)
  /\ InTask => chunk <= Len(Chunks) /\ task.clip >= 1
  /\ InWindow => task.clip \in 1..Len(task.clips) /\ task.size >= 1
  /\ ~IsChunked =>
       /\ chunk = 1 /\ results = <<>> /\ dropped = {}
       /\ at \notin {"cut", "end"} => Chunks = <<[offset |-> 0, length |-> Content]>>

Typed ==
  /\ TypeOK
  /\ task.allocated <= MaxUsize
  /\ seen \in SeenSet
  /\ kept \in [probe : Optional(Languages), all : Seq(Observation)]
  /\ results \in Seq(ResultSet)
  /\ \A r \in returned : r = [ok |-> FALSE] \/ r \in ResultSet
  /\ returned = {} \/ \E r \in returned : returned = {r}

\* What the attempts did, and what is told of it.
TellsOf(facts, known) ==
  /\ facts.drewFromRng = {known.drew}
  /\ facts.earlyStopped = {known.stopped}
  /\ facts.hadSwallowedError = {known.swallowed}
  /\ facts.observedLanguage = known.language
Tells(facts) == TellsOf(facts, seen)

FactsAgree ==
  /\ Tells(sink)
  /\ \A r \in returned : r.ok => Tells(r.facts)
  /\ seen.language = {} => task.observed = {}
  /\ ~IsChunked =>
       /\ InTask => task.observed = seen.language
       /\ at \in {"cut", "task"} => seen.language = {}

ProbesAgree ==
  /\ InTask => task.observations = kept.all
  /\ InWindow => task.probe = kept.probe
  /\ InWindow /\ ~options.detects => task.probe = {}

\* Ids that rise below a bound.
Rising(ids) == \A i, j \in 1..Len(ids) : i < j => ids[i] < ids[j]
Below(ids, bound) == \A i \in 1..Len(ids) : ids[i] < bound
SegmentIds(segments) == [i \in 1..Len(segments) |-> segments[i].id]

IdsAgree ==
  /\ Below(SegmentIds(task.segments), task.allocated)
  /\ task.base <= task.allocated
  /\ options.dropBlank => /\ task.base = task.allocated
                          /\ Rising(SegmentIds(task.segments))
                          /\ \A k \in 1..Len(results) :
                               /\ Rising(results[k].ids)
                               /\ Below(results[k].ids, results[k].facts.decodedSpan.bound)
  /\ \A r \in returned : r.ok =>
       /\ options.dropBlank \/ ~IsChunked => Below(r.ids, r.facts.decodedSpan.bound)
       /\ options.dropBlank => Rising(r.ids)
       /\ dropped # {} => ~r.facts.decodedSpan.exact

\* What of a clip a run must decode, and how far in one it is.
ClipHeard(clip, samples) ==
  /\ \A x \in 0..(Content - 1) :
       clip.start <= x /\ x + WindowPadding < clip.end /\ x + WindowPadding < Content
         => x \in samples
  /\ clip.start < clip.end /\ clip.start < Content => clip.start \in samples
ClipWalked(clip, first, seek, samples) ==
  /\ first => seek = clip.start
  /\ ~first /\ clip.start < clip.end /\ clip.start < Content => clip.start \in samples
  /\ \A x \in 0..(Content - 1) : clip.start <= x /\ x < seek /\ x < clip.end => x \in samples
WindowHeard(clip, seek, size, samples) ==
  /\ size = SegmentSize(seek, clip.end, Content)
  /\ Samples(seek, size) \subseteq samples

HeardWhole ==
  ~IsChunked =>
    /\ InTask =>
         /\ task.clips = Ranges
         /\ \A j \in 1..Len(Ranges) : j < task.clip => ClipHeard(Ranges[j], heard)
         /\ task.clip \in 1..Len(Ranges) =>
              /\ ClipWalked(Ranges[task.clip], task.first, task.seek, heard)
              /\ InWindow => ~task.first /\ WindowHeard(Ranges[task.clip], task.seek, task.size, heard)
    /\ \A r \in returned : r.ok => \A j \in 1..Len(Ranges) : ClipHeard(Ranges[j], heard)

\* What of a clip the chunks must hold.
IsCovered(x, chunks) ==
  \E c \in 1..Len(chunks) : x \in Samples(chunks[c].offset, chunks[c].length)
ClipCovered(clip, chunks) ==
  \A x \in 0..(Content - 1) :
    clip.start <= x /\ x + ChunkPadding < clip.end /\ x + ChunkPadding < Content
      => IsCovered(x, chunks)
ClipCut(clip, start, chunks) ==
  \A x \in 0..(Content - 1) : clip.start <= x /\ x < start => IsCovered(x, chunks)

\* The chunks hold the clips, and are heard or lost one after the other.
AllCovered ==
  /\ at = "cut" =>
       /\ \A j \in 1..Len(Ranges) : j < cut.clip => ClipCovered(Ranges[j], Chunks)
       /\ cut.clip \in 1..Len(Ranges) => ClipCut(Ranges[cut.clip], cut.start, Chunks)
  /\ at \notin {"cut", "end"} => \A j \in 1..Len(Ranges) : ClipCovered(Ranges[j], Chunks)
  /\ \A r \in returned : r.ok => \A j \in 1..Len(Ranges) : ClipCovered(Ranges[j], Chunks)
AllHeard ==
  /\ \A c \in 1..Len(Chunks) :
       /\ Chunks[c].length \in 1..Window
       /\ c < chunk => Samples(Chunks[c].offset, Chunks[c].length) \subseteq heard \cup lost
  /\ at = "cut" => chunk = 1
  /\ InTask =>
       /\ task.clips = <<[start |-> 0, end |-> Chunk.length]>>
       /\ \/ at = "clip" /\ task.clip = 1 /\ task.first /\ task.seek = 0
          \/ Samples(Chunk.offset, Chunk.length) \subseteq heard
  /\ \A r \in returned : r.ok => chunk > Len(Chunks)

HeardCut == IsChunked /\ ~ClipsRefused(options.clips) => AllCovered /\ AllHeard

IndInv ==
  Typed /\ Control /\ FactsAgree /\ ProbesAgree /\ IdsAgree /\ HeardWhole /\ HeardCut

-----------------------------------------------------------------------------
(* The operators a call is built from. *)

LEMMA MinOfTwo ==
  \A a, b \in Nat : Min({a, b}) \in Nat /\ Min({a, b}) = IF a <= b THEN a ELSE b
<1> TAKE a, b \in Nat
<1> DEFINE both == {a, b}
<1>1. both \in SUBSET Nat /\ both # {} /\ \A x : x \in both <=> x = a \/ x = b
  OBVIOUS
<1> HIDE DEF both
<1>2. Min(both) \in both /\ \A y \in both : Min(both) <= y
  BY <1>1, MinOfNaturals
<1>3. Min(both) \in Nat /\ Min(both) = IF a <= b THEN a ELSE b
  BY <1>1, <1>2
<1>4. QED
  BY <1>3 DEF both

LEMMA MonusFacts == \A a, b \in Nat : Monus(a, b) \in Nat /\ (a > b => Monus(a, b) = a - b)
                                      /\ (a <= b => Monus(a, b) = 0)
BY DEF Monus

\* A window's size: what is left of the window, the audio and the clip.
LEMMA SegmentSizeFacts ==
  \A seek, end, content \in Nat :
    /\ SegmentSize(seek, end, content) \in 0..Window
    /\ SegmentSize(seek, end, content) = 0 => content <= seek \/ end <= seek
    /\ SegmentSize(seek, end, content) # 0 =>
         /\ seek + SegmentSize(seek, end, content) <= content
         /\ \/ SegmentSize(seek, end, content) = Window
            \/ seek + SegmentSize(seek, end, content) >= content
            \/ seek + SegmentSize(seek, end, content) >= end
<1> TAKE seek, end, content \in Nat
<1> DEFINE three == {Window, Monus(content, seek), Monus(end, seek)}
           size == SegmentSize(seek, end, content)
<1>0. Window \in Nat /\ Window > 1
  BY ChunkerAssumption
<1>1. Monus(content, seek) \in Nat /\ Monus(end, seek) \in Nat
  BY MonusFacts
<1>2. three \in SUBSET Nat /\ three # {} /\ size = Min(three)
  BY <1>0, <1>1 DEF SegmentSize
<1>3. \A x : x \in three <=> x = Window \/ x = Monus(content, seek) \/ x = Monus(end, seek)
  OBVIOUS
<1> HIDE DEF three, size
<1>4. Min(three) \in three /\ \A y \in three : Min(three) <= y
  BY <1>2, MinOfNaturals
<1>5. /\ size \in Nat /\ size <= Window /\ size <= Monus(content, seek) /\ size <= Monus(end, seek)
      /\ size = Window \/ size = Monus(content, seek) \/ size = Monus(end, seek)
  BY <1>1, <1>0, <1>2, <1>3, <1>4
<1>6. /\ size \in 0..Window
      /\ size = 0 => content <= seek \/ end <= seek
      /\ size # 0 => /\ seek + size <= content
                     /\ size = Window \/ seek + size >= content \/ seek + size >= end
  BY <1>0, <1>5 DEF Monus
<1>7. QED
  BY <1>6 DEF size

\* The clips asked for, in pairs, with nothing refused.
LEMMA SeekClipsFacts ==
  ASSUME NEW points \in Seq(Int), NEW content \in Nat, ~ClipsRefused(points)
  PROVE  SeekClips(points, content) \in Seq(ClipRange) /\ Len(SeekClips(points, content)) >= 1
<1> DEFINE begun == IF points = <<>> THEN <<0>> ELSE points
           even == IF Len(begun) % 2 = 1 THEN Append(begun, content) ELSE begun
           clips == [i \in 1..(Len(even) \div 2) |-> [start |-> even[2*i - 1], end |-> even[2*i]]]
<1>1. points \in Seq(Nat)
  BY DEF ClipsRefused
<1>2. begun \in Seq(Nat) /\ Len(begun) >= 1
  BY <1>1
<1> HIDE DEF begun
<1>3. even \in Seq(Nat) /\ Len(even) >= 2
  <2>1. Append(begun, content) \in Seq(Nat) /\ Len(Append(begun, content)) = Len(begun) + 1
    BY <1>2
  <2>2. Len(begun) \in Nat /\ (Len(begun) % 2 = 1 \/ Len(begun) >= 2)
    BY <1>2
  <2>3. QED
    BY <1>2, <2>1, <2>2 DEF even
<1> HIDE DEF even
<1>4. PICK n \in Nat : n = Len(even) \div 2 /\ n >= 1 /\ 2*n <= Len(even)
  BY <1>3
<1>5. \A i \in 1..n : 2*i - 1 \in 1..Len(even) /\ 2*i \in 1..Len(even)
  BY <1>3, <1>4
<1>6. \A i \in 1..n : even[2*i - 1] \in Nat /\ even[2*i] \in Nat
  <2>1. \A j \in 1..Len(even) : even[j] \in Nat
    BY <1>3
  <2>2. QED
    BY <1>5, <2>1, Zenon
<1>7. clips = [i \in 1..n |-> [start |-> even[2*i - 1], end |-> even[2*i]]]
  BY <1>4
<1>8. clips \in Seq(ClipRange) /\ Len(clips) = n
  BY <1>6, <1>7 DEF ClipRange
<1>9. SeekClips(points, content) = clips
  BY DEF SeekClips, begun, even
<1>10. QED
  BY <1>4, <1>8, <1>9

\* A chunk's run has one clip, the chunk.
LEMMA ChunkClip ==
  \A content \in Nat : SeekClips(<<>>, content) = <<[start |-> 0, end |-> content]>>
<1> TAKE content \in Nat
<1> DEFINE even == Append(<<0>>, content)
<1>1. Len(even) = 2 /\ even[1] = 0 /\ even[2] = content
  <2>1. <<0>> \in Seq(Nat) /\ Len(<<0>>) = 1 /\ <<0>>[1] = 0
    OBVIOUS
  <2>2. QED
    BY <2>1
<1>2. SeekClips(<<>>, content)
        = [i \in 1..(Len(even) \div 2) |-> [start |-> even[2*i - 1], end |-> even[2*i]]]
  <2>1. Len(<<0>>) % 2 = 1
    OBVIOUS
  <2>2. QED
    BY <2>1 DEF SeekClips
<1> HIDE DEF even
<1>3. Len(even) \div 2 = 1
  BY <1>1
<1>4. SeekClips(<<>>, content) = [i \in 1..1 |-> [start |-> 0, end |-> content]]
  BY <1>1, <1>2, <1>3
<1>5. QED
  BY <1>4

-----------------------------------------------------------------------------
(* What is told. *)

LEMMA OptionalFacts ==
  \A S : /\ {} \in Optional(S) /\ \A x \in S : {x} \in Optional(S)
         /\ \A a \in Optional(S) : a \subseteq S /\ \A x \in a : a = {x}
BY Zenon DEF Optional

\* Two flags that are known merge into their disjunction.
LEMMA KnownFlags ==
  \A p, q \in BOOLEAN : KleeneOr({p}, {q}) = {p \/ q}
<1> TAKE p, q \in BOOLEAN
<1>1. TRUE \in {p} \cup {q} <=> p \/ q
  OBVIOUS
<1>2. ~p /\ ~q => {p} = {FALSE} /\ {q} = {FALSE} /\ {p \/ q} = {FALSE}
  OBVIOUS
<1>3. p \/ q => {p \/ q} = {TRUE}
  OBVIOUS
<1>4. QED
  BY <1>1, <1>2, <1>3 DEF KleeneOr

LEMMA FlagsMerge ==
  \A a, b \in Optional(BOOLEAN) : KleeneOr(a, b) \in Optional(BOOLEAN)
BY OptionalFacts, Zenon DEF KleeneOr

LEMMA LanguagesMerge ==
  \A a, b \in Optional(Languages) : FirstObserved(a, b) \in Optional(Languages)
BY Zenon DEF FirstObserved

LEMMA SpansMerge ==
  \A a, b \in Spans :
    /\ MergeSpans(a, b) \in Spans
    /\ a.bound + b.bound <= MaxUsize => MergeSpans(a, b).bound = a.bound + b.bound
<1> TAKE a, b \in Spans
<1>1. /\ a.exact \in BOOLEAN /\ b.exact \in BOOLEAN /\ a.bound \in Nat /\ b.bound \in Nat
      /\ MaxUsize \in Nat
  BY MaxUsizeAssumption DEF Spans, Usize
<1>2. /\ Saturate(a.bound + b.bound) \in Usize
      /\ a.bound + b.bound <= MaxUsize => Saturate(a.bound + b.bound) = a.bound + b.bound
  BY <1>1 DEF Saturate, Usize
<1>3. MergeSpans(a, b).bound = Saturate(a.bound + b.bound)
  BY DEF MergeSpans
<1>4. MergeSpans(a, b) \in Spans
  BY <1>2, Zenon DEF MergeSpans, Spans
<1>5. QED
  BY <1>2, <1>3, <1>4

LEMMA SpansOfCounts ==
  /\ \A n \in Nat : n <= MaxUsize => Exact(n) \in Spans /\ AtLeast(n) \in Spans
  /\ Exact(0) \in Spans /\ AtLeast(0) \in Spans
BY MaxUsizeAssumption DEF Exact, AtLeast, Spans, Usize

LEMMA SchedulesMerge ==
  /\ UnknownSchedule \in Schedules
  /\ \A a, b \in Schedules : MergeSchedules(a, b) \in Schedules
<1>1. UnknownSchedule \in Schedules
  BY DEF UnknownSchedule, Schedules
<1>2. ASSUME NEW a \in Schedules, NEW b \in Schedules
      PROVE  MergeSchedules(a, b) \in Schedules
  <2>1. a.workers \o b.workers \in Seq(Nat)
    BY DEF Schedules
  <2>2. [known |-> TRUE, workers |-> a.workers \o b.workers] \in Schedules
    BY <2>1 DEF Schedules
  <2>3. QED
    BY <1>1, <2>2, Zenon DEF MergeSchedules
<1>3. QED
  BY <1>1, <1>2

LEMMA FactFields ==
  \A f \in FactsOf(Languages) :
    /\ f.drewFromRng \in Optional(BOOLEAN) /\ f.earlyStopped \in Optional(BOOLEAN)
    /\ f.hadSwallowedError \in Optional(BOOLEAN)
    /\ f.observedLanguage \in Optional(Languages)
    /\ f.workerSchedule \in Schedules /\ f.decodedSpan \in Spans
BY DEF FactsOf

LEMMA FactsMerge ==
  ASSUME NEW a \in FactsOf(Languages), NEW b \in FactsOf(Languages)
  PROVE  MergeFacts(a, b) \in FactsOf(Languages)
<1>1. /\ KleeneOr(a.drewFromRng, b.drewFromRng) \in Optional(BOOLEAN)
      /\ KleeneOr(a.earlyStopped, b.earlyStopped) \in Optional(BOOLEAN)
      /\ KleeneOr(a.hadSwallowedError, b.hadSwallowedError) \in Optional(BOOLEAN)
  BY FactFields, FlagsMerge
<1>2. /\ FirstObserved(a.observedLanguage, b.observedLanguage) \in Optional(Languages)
      /\ MergeSchedules(a.workerSchedule, b.workerSchedule) \in Schedules
      /\ MergeSpans(a.decodedSpan, b.decodedSpan) \in Spans
  BY FactFields, LanguagesMerge, SchedulesMerge, SpansMerge
<1>3. QED
  BY <1>1, <1>2 DEF MergeFacts, FactsOf

LEMMA UnknownIsFacts ==
  /\ Unknown \in FactsOf(Languages) /\ ObservedClean \in FactsOf(Languages)
  /\ Swallowed \in FactsOf(Languages)
<1>1. Unknown \in FactsOf(Languages)
  BY OptionalFacts, SchedulesMerge, SpansOfCounts, Zenon DEF Unknown, FactsOf
<1>2. {FALSE} \in Optional(BOOLEAN) /\ {TRUE} \in Optional(BOOLEAN)
  BY OptionalFacts
<1>3. ObservedClean \in FactsOf(Languages)
  BY <1>1, <1>2 DEF ObservedClean, FactsOf
<1>4. QED
  BY <1>1, <1>2, <1>3 DEF Swallowed, FactsOf

\* What an attempt finds, and what is told of it.
LEMMA OutcomeFields ==
  \A o \in Outcomes :
    /\ o.probe \in {"failed", "masked"} \cup Languages
    /\ o.predicted \in Optional(Languages)
    /\ o.drew \in BOOLEAN /\ o.stopped \in BOOLEAN /\ o.swallowed \in BOOLEAN
    /\ o.result \in {"error", "fallback", "kept"}
BY TranscribeAssumption DEF OutcomeSet

LEMMA OptionFields ==
  ASSUME options \in Options
  PROVE  /\ options.vad \in BOOLEAN /\ options.clips \in Seq(Int)
         /\ options.dropBlank \in BOOLEAN /\ options.detects \in BOOLEAN
         /\ options.fallbacks \in Nat /\ options.maxWindowSeek \subseteq Nat
         /\ \A cap \in options.maxWindowSeek : options.maxWindowSeek = {cap}
BY TranscribeAssumption DEF OptionsSet

LEMMA AttemptFindings ==
  ASSUME NEW outcome \in Outcomes, task.observed \in Optional(Languages),
         task.probe \in Optional(Languages), seen \in SeenSet
  PROVE  /\ Probed(outcome) \in Optional(Languages)
         /\ ObservedByProbe(outcome) \in Optional(Languages)
         /\ AttemptFacts(outcome) \in FactsOf(Languages)
         /\ SeenAfter(outcome) \in SeenSet
<1>1. Probed(outcome) \in Optional(Languages)
  <2>1. outcome.probe \notin {"failed", "masked"} => outcome.probe \in Languages
    BY OutcomeFields
  <2>2. Default \in Languages
    BY TranscribeAssumption
  <2>3. QED
    BY <2>1, <2>2, OptionalFacts DEF Probed
<1>2. ObservedByProbe(outcome) \in Optional(Languages)
  BY OptionalFacts DEF ObservedByProbe, IsGenuine
<1>3. FirstObserved(ObservedByProbe(outcome), outcome.predicted) \in Optional(Languages)
  BY <1>2, OutcomeFields, LanguagesMerge
<1>4. \A p \in BOOLEAN : {p} \in Optional(BOOLEAN)
  BY OptionalFacts
<1>5. outcome.drew \in BOOLEAN /\ outcome.stopped \in BOOLEAN /\ outcome.swallowed \in BOOLEAN
  BY OutcomeFields
<1>6. (ProbeFailed(outcome) \/ outcome.swallowed) \in BOOLEAN
  BY <1>5
<1>7. AttemptFacts(outcome) \in FactsOf(Languages)
  BY <1>3, <1>4, <1>5, <1>6, UnknownIsFacts DEF AttemptFacts, FactsOf
<1>8. SeenAfter(outcome) \in SeenSet
  <2>1. (IF IsGenuine(outcome) THEN {outcome.probe} ELSE outcome.predicted) \in Optional(Languages)
    BY OutcomeFields, OptionalFacts DEF IsGenuine
  <2>2. seen.language \in Optional(Languages)
    BY DEF SeenSet
  <2>3. FirstObserved(seen.language,
          IF IsGenuine(outcome) THEN {outcome.probe} ELSE outcome.predicted) \in Optional(Languages)
    BY <2>1, <2>2, LanguagesMerge
  <2>4. /\ (seen.drew \/ outcome.drew) \in BOOLEAN /\ (seen.stopped \/ outcome.stopped) \in BOOLEAN
        /\ (seen.swallowed \/ ProbeFailed(outcome) \/ outcome.swallowed) \in BOOLEAN
    OBVIOUS
  <2>5. QED
    BY <2>3, <2>4, Zenon DEF SeenAfter, SeenSet
<1>9. QED
  BY <1>1, <1>2, <1>7, <1>8

-----------------------------------------------------------------------------
(* The slices a window leaves. *)

LEMMA NthRises ==
  ASSUME NEW n \in Nat, NEW idx \in SUBSET (1..n)
  PROVE  /\ Cardinality(idx) \in 0..n
         /\ \A k \in 1..Cardinality(idx) : Nth(idx, k) \in idx
         /\ \A k, l \in 1..Cardinality(idx) : k < l => Nth(idx, k) < Nth(idx, l)
<1>0. \A m \in idx : m \in Int /\ m > 0 /\ m <= n
  OBVIOUS
<1>1. Cardinality(idx) \in Nat
  BY IndicesFinite
<1>2. Cardinality(idx) <= n
  <2>1. IsFiniteSet(1..n) /\ Cardinality(1..n) = IF 1 > n THEN 0 ELSE n - 1 + 1
    BY FS_Interval
  <2>2. Cardinality(idx) <= Cardinality(1..n)
    BY <2>1, FS_Subset
  <2>3. QED
    BY <1>1, <2>1, <2>2
<1>3. \A k \in 1..Cardinality(idx) : Nth(idx, k) \in idx /\ Rank(idx, Nth(idx, k)) = k
  BY NthSelected
<1>4. ASSUME NEW k \in 1..Cardinality(idx), NEW l \in 1..Cardinality(idx), k < l
      PROVE  Nth(idx, k) < Nth(idx, l)
  <2> DEFINE i == Nth(idx, k)
             j == Nth(idx, l)
  <2>1. i \in Int /\ j \in Int /\ Rank(idx, i) = k /\ Rank(idx, j) = l
    BY <1>0, <1>3
  <2> HIDE DEF i, j
  <2>2. SUFFICES ASSUME j <= i PROVE FALSE
    BY <2>1 DEF i, j
  <2>3. {m \in idx : m <= j} \subseteq {m \in idx : m <= i}
    <3>1. \A m \in idx : m <= j => m <= i
      BY <1>0, <2>1, <2>2
    <3>2. QED
      BY <3>1
  <2>4. IsFiniteSet({m \in idx : m <= i})
    BY <2>1, IndicesFinite
  <2>5. Rank(idx, j) <= Rank(idx, i)
    BY <2>3, <2>4, FS_Subset DEF Rank
  <2>6. QED
    BY <1>1, <1>4, <2>1, <2>5
<1>5. QED
  BY <1>1, <1>2, <1>3, <1>4

LEMMA SlicesFacts ==
  ASSUME task.base \in Nat, NEW count \in Nat, NEW survivors \in SUBSET (1..count), NEW blank
  PROVE  /\ Slices(survivors, blank) \in Seq(Segment)
         /\ Len(Slices(survivors, blank)) = Cardinality(survivors)
         /\ \A i \in 1..Cardinality(survivors) :
              /\ Nth(survivors, i) \in survivors
              /\ Slices(survivors, blank)[i].id = task.base + Nth(survivors, i) - 1
<1>1. Cardinality(survivors) \in Nat /\ \A i \in 1..Cardinality(survivors) : Nth(survivors, i) \in survivors
  BY NthRises
<1>2. \A i \in 1..Cardinality(survivors) :
        /\ task.base + Nth(survivors, i) - 1 \in Nat
        /\ (Nth(survivors, i) \in blank) \in BOOLEAN
  <2>1. \A m \in survivors : m \in Int /\ m > 0
    OBVIOUS
  <2>2. \A m \in survivors : task.base + m - 1 \in Nat
    BY <2>1
  <2>3. \A b : (b \in blank) \in BOOLEAN
    OBVIOUS
  <2>4. QED
    BY <1>1, <2>2, <2>3, Zenon
<1>3. \A i \in 1..Cardinality(survivors) :
        [id |-> task.base + Nth(survivors, i) - 1, blank |-> Nth(survivors, i) \in blank] \in Segment
  BY <1>2, Zenon DEF Segment
<1>4. QED
  BY <1>1, <1>3 DEF Slices
-----------------------------------------------------------------------------
(* The typing layer. *)

Tasks ==
  [clips : Seq(ClipRange), clip : Nat, seek : Nat, first : BOOLEAN,
   size : 0..Window, attempt : 0..options.fallbacks, segments : Seq(Segment),
   base : Nat, allocated : Nat, detected : Optional(Languages),
   observed : Optional(Languages), probe : Optional(Languages),
   observations : Seq(Observation)]
Cuts == [clip : Nat, start : Nat, chunks : Seq(Stretch)]
Keeps == [probe : Optional(Languages), all : Seq(Observation)]

\* What the return value may be.
Returns ==
  /\ \A r \in returned : r = [ok |-> FALSE] \/ r \in ResultSet
  /\ returned = {} \/ \E r \in returned : returned = {r}

Shape ==
  /\ options \in Options
  /\ at \in {"cut", "task", "clip", "attempt", "window", "end"}
  /\ cut \in Cuts /\ misheard \in BOOLEAN /\ chunk \in Nat
  /\ task \in Tasks /\ task.allocated <= MaxUsize
  /\ sink \in FactsOf(Languages) /\ schedule \in Schedules
  /\ dropped \subseteq 1..Len(cut.chunks)
  /\ heard \subseteq 0..(Content - 1) /\ lost \subseteq 0..(Content - 1)
  /\ seen \in SeenSet /\ kept \in Keeps /\ results \in Seq(ResultSet)
  /\ Returns

LEMMA ShapeIsTyped == Shape <=> Typed
<1>1. cut \in Cuts => DOMAIN Chunks = 1..Len(cut.chunks)
  BY DEF Cuts, Chunks
<1>2. (cut \in Cuts) = (cut \in [clip : Nat, start : Nat, chunks : Seq([offset : Nat, length : 0..Content])])
  BY DEF Cuts, Stretch
<1>3. QED
  BY <1>1, <1>2 DEF Shape, Typed, TypeOK, Tasks, Keeps, Returns, Segment, ClipRange, Observation

LEMMA IdleIsATask == options \in Options => Idle \in Tasks /\ Idle.allocated <= MaxUsize
<1> SUFFICES ASSUME options \in Options PROVE Idle \in Tasks /\ Idle.allocated <= MaxUsize
  OBVIOUS
<1>1. /\ <<>> \in Seq(ClipRange) /\ <<>> \in Seq(Segment) /\ <<>> \in Seq(Observation)
      /\ 0 \in 0..Window /\ 0 \in 0..options.fallbacks /\ {} \in Optional(Languages)
      /\ 0 <= MaxUsize
  BY OptionFields, OptionalFacts, ChunkerAssumption, MaxUsizeAssumption
<1>2. QED
  BY <1>1 DEF Idle, Tasks

LEMMA InitShape == Init => Shape
<1> SUFFICES ASSUME Init PROVE Shape
  OBVIOUS
<1>1. task \in Tasks /\ task.allocated <= MaxUsize
  BY IdleIsATask DEF Init
<1>2. cut \in Cuts
  <2>1. <<>> \in Seq(Stretch)
    OBVIOUS
  <2>2. QED
    BY <2>1 DEF Init, Cuts
<1>3. sink \in FactsOf(Languages) /\ schedule \in Schedules
  BY UnknownIsFacts DEF Init, Schedules
<1>4. seen \in SeenSet /\ kept \in Keeps
  <2>1. {} \in Optional(Languages) /\ <<>> \in Seq(Observation)
    BY OptionalFacts
  <2>2. QED
    BY <2>1 DEF Init, SeenSet, Keeps
<1>5. results \in Seq(ResultSet) /\ Returns
  BY DEF Init, Returns
<1>6. QED
  BY <1>1, <1>2, <1>3, <1>4, <1>5 DEF Init, Shape

LEMMA InitControl == Init => Control
BY DEF Init, Control, InTask, InWindow

\* A run that fails: the call ends, or the chunk is dropped and told.
LEMMA FailShape ==
  ASSUME Shape, Control, InTask, NEW facts \in FactsOf(Languages), NEW known \in SeenSet,
         TaskFails(facts, known)
  PROVE  Shape' /\ Control'
<1>0. /\ chunk \in 1..Len(Chunks) /\ returned = {} /\ Chunks = cut.chunks
      /\ ~ClipsRefused(options.clips) /\ options' = options
  BY DEF Shape, Control, InTask, Chunks, TaskFails, callVars, cutVars, CallFails
<1>1. CASE IsChunked
  <2>1. /\ dropped' = dropped \cup {chunk} /\ lost' = lost \cup Samples(Chunk.offset, Chunk.length)
        /\ sink' = MergeFacts(facts, Swallowed)
        /\ seen' = [known EXCEPT !.swallowed = TRUE]
        /\ schedule' = MergeSchedules(schedule, UnknownSchedule)
        /\ chunk' = chunk + 1 /\ at' = "task" /\ task' = Idle
        /\ UNCHANGED <<cutVars, results, returned, kept, heard>>
    BY <1>1 DEF TaskFails
  <2>2. sink' \in FactsOf(Languages) /\ schedule' \in Schedules
    BY <2>1, FactsMerge, UnknownIsFacts, SchedulesMerge DEF Shape
  <2>3. seen' \in SeenSet
    BY <2>1 DEF SeenSet
  <2>4. lost' \subseteq 0..(Content - 1)
    BY <2>1 DEF Shape, Samples
  <2>5. task' \in Tasks' /\ task'.allocated <= MaxUsize
    BY <1>0, <2>1, IdleIsATask DEF Shape, Tasks
  <2>6. dropped' \subseteq 1..Len(cut'.chunks)
    BY <1>0, <2>1 DEF Shape, cutVars
  <2>7. Shape'
    BY <1>0, <2>1, <2>2, <2>3, <2>4, <2>5, <2>6 DEF Shape, cutVars, Returns, Cuts, Keeps
  <2>8. Control'
    BY <1>0, <1>1, <2>1 DEF Control, cutVars, InTask, InWindow, Shape, IsChunked
  <2>9. QED
    BY <2>7, <2>8
<1>2. CASE ~IsChunked
  <2>1. /\ sink' = facts /\ seen' = known
        /\ at' = "end" /\ returned' = {[ok |-> FALSE]}
        /\ UNCHANGED <<cutVars, chunk, schedule, dropped, results, lost>>
        /\ UNCHANGED <<task, kept, heard>>
    BY <1>2 DEF TaskFails, CallFails
  <2>2. Returns'
    BY <2>1 DEF Returns
  <2>3. Shape'
    BY <1>0, <2>1, <2>2 DEF Shape, cutVars, Cuts, Keeps, Tasks
  <2>4. Control'
    BY <1>0, <1>2, <2>1 DEF Control, cutVars, InTask, InWindow, Shape, IsChunked
  <2>5. QED
    BY <2>3, <2>4
<1>3. QED
  BY <1>1, <1>2

\* A step of the run under way leaves the call as it is.
LEMMA RunStepShape ==
  ASSUME Shape, UNCHANGED callVars, at' \in {"clip", "attempt", "window"},
         task' \in Tasks, task'.allocated <= MaxUsize, sink' \in FactsOf(Languages),
         seen' \in SeenSet, kept' \in Keeps, heard' \subseteq 0..(Content - 1)
  PROVE  Shape'
<1>1. /\ UNCHANGED <<options, cut, misheard, chunk, schedule, dropped, results, returned, lost>>
      /\ Tasks' = Tasks /\ Cuts' = Cuts /\ Keeps' = Keeps
  BY DEF callVars, cutVars, Tasks, Cuts, Keeps
<1>2. Returns'
  BY <1>1 DEF Shape, Returns
<1>3. QED
  BY <1>1, <1>2 DEF Shape

LEMMA RunStepControl ==
  ASSUME Control, UNCHANGED callVars, at \in {"task", "clip", "attempt", "window"},
         at' \in {"clip", "attempt", "window"}, chunk <= Len(Chunks), task'.clip >= 1,
         at' \in {"attempt", "window"} => task'.clip \in 1..Len(task'.clips) /\ task'.size >= 1
  PROVE  Control'
<1>1. UNCHANGED <<options, cut, misheard, chunk, schedule, dropped, results, returned, lost>>
  BY DEF callVars, cutVars
<1>2. QED
  BY <1>1 DEF Control, InTask, InWindow, IsChunked, Chunks

\* The clips of the run that begins.
LEMMA TaskClipsFacts ==
  ASSUME Shape, chunk \in 1..Len(Chunks), ~ClipsRefused(options.clips)
  PROVE  /\ Chunk \in Stretch
         /\ TaskClips \in Seq(ClipRange) /\ Len(TaskClips) >= 1
<1>1. Chunk \in Stretch /\ Chunk.length \in Nat
  <2>1. Chunks \in Seq(Stretch)
    BY DEF Shape, Cuts, Chunks
  <2>2. Chunk \in Stretch
    BY <2>1 DEF Chunk
  <2>3. QED
    BY <2>2, TranscribeAssumption DEF Stretch
<1>2. options.clips \in Seq(Int)
  BY OptionFields DEF Shape
<1>3. <<>> \in Seq(Int) /\ ~ClipsRefused(<<>>)
  BY DEF ClipsRefused
<1>4. QED
  BY <1>1, <1>2, <1>3, SeekClipsFacts DEF TaskClips

LEMMA BeginTaskShape ==
  ASSUME Shape, Control, BeginTask
  PROVE  Shape' /\ Control'
<1>1. /\ at = "task" /\ chunk \in 1..Len(Chunks) /\ ~ClipsRefused(options.clips)
      /\ task' = [Idle EXCEPT !.clips = TaskClips, !.seek = TaskClips[1].start]
      /\ at' = "clip" /\ kept' = [probe |-> {}, all |-> <<>>]
      /\ UNCHANGED callVars /\ UNCHANGED <<sink, heard, seen>>
  BY DEF BeginTask, Control, Shape
<1>2. TaskClips \in Seq(ClipRange) /\ TaskClips[1].start \in Nat
  <2>1. TaskClips \in Seq(ClipRange) /\ 1 \in 1..Len(TaskClips)
    BY <1>1, TaskClipsFacts
  <2>2. TaskClips[1] \in ClipRange
    BY <2>1
  <2>3. QED
    BY <2>1, <2>2 DEF ClipRange
<1>3. Idle \in Tasks /\ Idle.allocated <= MaxUsize
  BY IdleIsATask DEF Shape
<1>4. task' \in Tasks /\ task'.allocated <= MaxUsize
  BY <1>1, <1>2, <1>3 DEF Tasks
<1>5. kept' \in Keeps
  BY <1>1, OptionalFacts DEF Keeps
<1>6. Shape'
  BY <1>1, <1>4, <1>5, RunStepShape DEF Shape
<1>7. Control'
  <2>1. task'.clip = 1
    BY <1>1 DEF Idle
  <2>2. QED
    BY <1>1, <2>1, RunStepControl
<1>8. QED
  BY <1>6, <1>7

\* The window a clip opens.
LEMMA WindowFacts ==
  ASSUME Shape, Control, IsInTask
  PROVE  /\ Clip \in ClipRange /\ Chunk \in Stretch
         /\ task.clip \in 1..Len(task.clips)
         /\ WindowSize \in 0..Window
         /\ WindowSize = 0 => Chunk.length <= task.seek \/ Clip.end <= task.seek
         /\ WindowSize # 0 =>
              /\ task.seek + WindowSize <= Chunk.length
              /\ \/ WindowSize = Window \/ task.seek + WindowSize >= Chunk.length
                 \/ task.seek + WindowSize >= Clip.end
<1>1. /\ chunk \in 1..Len(Chunks) /\ ~ClipsRefused(options.clips) /\ task.seek \in Nat
      /\ task.clips \in Seq(ClipRange) /\ task.clip \in 1..Len(task.clips)
  BY DEF Shape, Control, IsInTask, InTask, Tasks
<1>2. Chunk \in Stretch
  BY <1>1, TaskClipsFacts
<1>3. QED
  <2>1. Chunk.length \in Nat
    BY <1>2, TranscribeAssumption DEF Stretch
  <2>2. Clip \in ClipRange
    BY <1>1 DEF Clip
  <2>3. Clip.end \in Nat
    BY <2>2 DEF ClipRange
  <2>4. QED
    BY <1>1, <1>2, <2>1, <2>2, <2>3, SegmentSizeFacts DEF WindowSize

LEMMA OpenWindowShape ==
  ASSUME Shape, Control, OpenWindow
  PROVE  Shape' /\ Control'
<1>1. /\ at = "clip" /\ IsInTask /\ WindowSize # 0
      /\ task' = [task EXCEPT !.first = FALSE, !.size = WindowSize, !.attempt = 0, !.probe = {}]
      /\ heard' = heard \cup Samples(Chunk.offset + task.seek, WindowSize)
      /\ kept' = [kept EXCEPT !.probe = {}]
      /\ at' = "attempt"
      /\ UNCHANGED callVars /\ UNCHANGED <<sink, seen>>
  BY DEF OpenWindow, ClipIsSpent, IsInTask
<1>2. WindowSize \in 0..Window /\ task.clip \in 1..Len(task.clips)
  BY <1>1, WindowFacts
<1>3. options.fallbacks \in Nat /\ {} \in Optional(Languages)
  BY OptionFields, OptionalFacts DEF Shape
<1>4. task' \in Tasks /\ task'.allocated <= MaxUsize /\ task'.clip = task.clip
      /\ task'.clips = task.clips /\ task'.size = WindowSize
  <2>1. task \in Tasks /\ task.allocated <= MaxUsize
    BY DEF Shape
  <2>2. PICK size \in 0..Window : size = WindowSize
    BY <1>2
  <2>3. task' = [task EXCEPT !.first = FALSE, !.size = size, !.attempt = 0, !.probe = {}]
    BY <1>1, <2>2
  <2>4. task' \in Tasks
    <3>1. FALSE \in BOOLEAN /\ 0 \in 0..options.fallbacks
      BY <1>3
    <3>2. QED
      BY <1>3, <2>1, <2>2, <2>3, <3>1, Zenon DEF Tasks
  <2>5. /\ task'.allocated = task.allocated /\ task'.clip = task.clip
        /\ task'.clips = task.clips /\ task'.size = size
    BY <2>1, <2>3 DEF Tasks
  <2>6. QED
    BY <2>1, <2>2, <2>4, <2>5
<1>5. kept' \in Keeps
  BY <1>1, <1>3 DEF Shape, Keeps
<1>6. heard' \subseteq 0..(Content - 1)
  BY <1>1 DEF Shape, Samples
<1>7. Shape'
  BY <1>1, <1>4, <1>5, <1>6, RunStepShape DEF Shape
<1>8. task'.clip \in 1..Len(task'.clips) /\ task'.size >= 1
  BY <1>1, <1>2, <1>4
<1>9. Control'
  BY <1>1, <1>4, <1>8, RunStepControl DEF Control, InTask
<1>10. QED
  BY <1>7, <1>9

LEMMA NextClipShape ==
  ASSUME Shape, Control, NextClip
  PROVE  Shape' /\ Control'
<1>1. /\ at = "clip" /\ at' = "clip" /\ task.clip \in Nat /\ task.clip <= Len(task.clips)
      /\ task' = [task EXCEPT !.clip = @ + 1, !.first = TRUE,
                    !.seek = IF task.clip < Len(task.clips)
                               THEN task.clips[task.clip + 1].start ELSE 0]
      /\ UNCHANGED callVars /\ UNCHANGED <<sink, heard, seen, kept>>
  BY DEF NextClip, IsInTask, Shape, Tasks
<1>2. task.clip < Len(task.clips) => task.clips[task.clip + 1].start \in Nat
  <2>1. task.clips \in Seq(ClipRange)
    BY DEF Shape, Tasks
  <2>2. task.clip < Len(task.clips) => task.clips[task.clip + 1] \in ClipRange
    BY <1>1, <2>1
  <2>3. QED
    BY <2>2 DEF ClipRange
<1>3. task' \in Tasks /\ task'.allocated <= MaxUsize /\ task'.clip >= 1
  <2>1. task \in Tasks /\ task.allocated <= MaxUsize
    BY DEF Shape
  <2>2. PICK seek \in Nat :
          seek = IF task.clip < Len(task.clips) THEN task.clips[task.clip + 1].start ELSE 0
    BY <1>2
  <2>3. task' = [task EXCEPT !.clip = @ + 1, !.first = TRUE, !.seek = seek]
    BY <1>1, <2>2
  <2>4. task' \in Tasks
    <3>1. TRUE \in BOOLEAN /\ task.clip + 1 \in Nat
      BY <1>1
    <3>2. QED
      BY <2>1, <2>2, <2>3, <3>1, Zenon DEF Tasks
  <2>5. task'.allocated = task.allocated /\ task'.clip = task.clip + 1
    BY <2>1, <2>3 DEF Tasks
  <2>6. QED
    BY <1>1, <2>1, <2>4, <2>5
<1>4. Shape'
  BY <1>1, <1>3, RunStepShape DEF Shape
<1>5. Control'
  BY <1>1, <1>3, RunStepControl DEF Control, InTask
<1>6. QED
  BY <1>4, <1>5

LEMMA MaxOfTwo ==
  \A a, b \in Nat : Max({a, b}) \in Nat /\ Max({a, b}) = IF a >= b THEN a ELSE b
<1> TAKE a, b \in Nat
<1> DEFINE both == {a, b}
<1>1. /\ both \in SUBSET Int /\ both # {} /\ \A x : x \in both <=> x = a \/ x = b
      /\ a + b \in Int /\ \A x \in both : x <= a + b
  OBVIOUS
<1> HIDE DEF both
<1>2. Max(both) \in both /\ \A y \in both : Max(both) >= y
  BY <1>1, MaxOfBounded
<1>3. Max(both) \in Nat /\ Max(both) = IF a >= b THEN a ELSE b
  BY <1>1, <1>2
<1>4. QED
  BY <1>3 DEF both

\* A capped seek is no later than the one asked for, and no standstill.
LEMMA CappedFacts ==
  ASSUME options \in Options, task.seek \in Nat, NEW seek \in Nat
  PROVE  /\ Capped(seek) \in Nat /\ Capped(seek) <= seek
         /\ seek > task.seek => Capped(seek) > task.seek
<1> DEFINE limits == {seek} \cup {task.seek + Max({cap, 1}) : cap \in options.maxWindowSeek}
<1>1. options.maxWindowSeek \subseteq Nat
  BY OptionFields
<1>2. \A cap \in options.maxWindowSeek : Max({cap, 1}) \in Nat /\ Max({cap, 1}) >= 1
  BY <1>1, MaxOfTwo
<1>3. /\ limits \in SUBSET Nat /\ limits # {} /\ seek \in limits
      /\ \A x \in limits : x = seek \/ x > task.seek
  <2>1. \A x \in limits : x = seek \/ \E cap \in options.maxWindowSeek : x = task.seek + Max({cap, 1})
    BY Zenon
  <2>2. seek \in limits
    BY Zenon
  <2> HIDE DEF limits
  <2>3. \A n \in Nat : n >= 1 => task.seek + n \in Nat /\ task.seek + n > task.seek
    OBVIOUS
  <2>4. \A x \in limits : x \in Nat /\ (x = seek \/ x > task.seek)
    BY <1>2, <2>1, <2>3, Zenon
  <2>5. QED
    BY <2>2, <2>4
<1>4. Capped(seek) = seek \/ Capped(seek) = Min(limits)
  BY DEF Capped
<1> HIDE DEF limits
<1>5. Min(limits) \in limits /\ \A y \in limits : Min(limits) <= y
  BY <1>3, MinOfNaturals
<1>6. PICK least \in limits : least = Min(limits) /\ least <= seek
  BY <1>3, <1>5
<1>7. least \in Nat /\ (least = seek \/ least > task.seek)
  BY <1>3
<1>8. QED
  BY <1>4, <1>6, <1>7

LEMMA OptionalChoice ==
  \A S : \A a \in Optional(S) : a # {} => (CHOOSE l \in a : TRUE) \in S
BY OptionalFacts

\* What is noted of a window that is left.
LEMMA ObservationFacts ==
  ASSUME NEW probe \in Optional(Languages), NEW all \in Seq(Observation), NEW seek \in Nat,
         NEW size \in 1..Window
  PROVE  (IF probe = {} THEN all
          ELSE Append(all, [start |-> seek, size |-> size, language |-> CHOOSE l \in probe : TRUE]))
           \in Seq(Observation)
<1>1. probe # {} =>
        [start |-> seek, size |-> size, language |-> CHOOSE l \in probe : TRUE] \in Observation
  <2>1. probe # {} => (CHOOSE l \in probe : TRUE) \in Languages
    BY OptionalChoice
  <2>2. QED
    BY <2>1, Zenon DEF Observation
<1>2. QED
  BY <1>1

LEMMA LeaveShape ==
  ASSUME Shape, Control, at = "window", NEW found \in Tasks, found.allocated <= MaxUsize,
         found.clip = task.clip, LeaveWindow(found)
  PROVE  Shape' /\ Control'
<1>1. /\ task' = [found EXCEPT !.observations = IF task.probe = {} THEN @ ELSE Append(@,
                    [start |-> task.seek, size |-> task.size,
                     language |-> CHOOSE l \in task.probe : TRUE])]
      /\ kept' = [kept EXCEPT !.all = IF kept.probe = {} THEN @ ELSE Append(@,
                    [start |-> task.seek, size |-> task.size,
                     language |-> CHOOSE l \in kept.probe : TRUE])]
      /\ at' = "clip"
      /\ UNCHANGED callVars /\ UNCHANGED <<sink, heard, seen>>
  BY DEF LeaveWindow
<1>2. /\ task.probe \in Optional(Languages) /\ task.seek \in Nat /\ task.size \in 1..Window
      /\ kept.probe \in Optional(Languages) /\ kept.all \in Seq(Observation)
      /\ task.clip >= 1 /\ chunk <= Len(Chunks)
  BY DEF Shape, Control, Tasks, Keeps, InTask, InWindow
<1>3. found.observations \in Seq(Observation)
  BY DEF Tasks
<1>4. PICK noted \in Seq(Observation) :
        noted = IF task.probe = {} THEN found.observations
                ELSE Append(found.observations, [start |-> task.seek, size |-> task.size,
                              language |-> CHOOSE l \in task.probe : TRUE])
  BY <1>2, <1>3, ObservationFacts
<1>5. PICK all \in Seq(Observation) :
        all = IF kept.probe = {} THEN kept.all
              ELSE Append(kept.all, [start |-> task.seek, size |-> task.size,
                            language |-> CHOOSE l \in kept.probe : TRUE])
  BY <1>2, ObservationFacts
<1>6. task' = [found EXCEPT !.observations = noted] /\ kept' = [kept EXCEPT !.all = all]
  BY <1>1, <1>4, <1>5
<1>7. task' \in Tasks
  BY <1>6, Zenon DEF Tasks
<1>8. task'.allocated <= MaxUsize /\ task'.clip >= 1
  BY <1>2, <1>6 DEF Tasks
<1>9. kept' \in Keeps
  BY <1>6 DEF Shape, Keeps
<1>10. Shape'
  BY <1>1, <1>7, <1>8, <1>9, RunStepShape DEF Shape
<1>11. Control'
  BY <1>1, <1>2, <1>8, RunStepControl
<1>12. QED
  BY <1>10, <1>11

\* A window that decoded is left further on, with its slices.
FinishedTask(count, advance, wordEnd, survivors, blank) ==
  [task EXCEPT
     !.seek = Capped(task.seek + Max({advance, wordEnd})),
     !.segments = @ \o Slices(survivors, blank),
     !.base = Saturate(@ + IF options.dropBlank THEN count ELSE Cardinality(survivors)),
     !.allocated = Saturate(@ + count)]

\* What a window leaves has ids to be given.
HasIds(count, survivors) == task.allocated + count <= MaxUsize \/ survivors = {}

LEMMA FinishChoices ==
  ASSUME Shape, Control, FinishWindow
  PROVE  \E count \in Nat, advance \in 0..Window, wordEnd \in 0..Window :
           \E survivors \in SUBSET (1..count) : \E blank :
             /\ advance = task.size \/ advance \in Times
             /\ HasIds(count, survivors)
             /\ LeaveWindow(FinishedTask(count, advance, wordEnd, survivors, blank))
<1>1. /\ task.size \in 1..Window /\ Times \subseteq 0..Window /\ MaxSlices \in Nat
      /\ Window \in Nat
  BY TranscribeAssumption, ChunkerAssumption DEF Shape, Control, InWindow, Tasks, FinishWindow
<1>2. PICK count \in 1..MaxSlices, advance \in {task.size} \cup Times,
            wordEnd \in {0} \cup Times :
        \E survivors \in SUBSET (1..count) :
        \E blank \in IF options.dropBlank THEN SUBSET survivors ELSE {{}} :
          /\ HasIds(count, survivors)
          /\ LeaveWindow(FinishedTask(count, advance, wordEnd, survivors, blank))
  BY Zenon DEF FinishWindow, FinishedTask, HasIds
<1>3. /\ count \in Nat /\ advance \in 0..Window /\ wordEnd \in 0..Window
      /\ advance = task.size \/ advance \in Times
  <2>1. \A t : t \in Times => t \in 0..Window
    BY <1>1
  <2>2. 0 \in 0..Window /\ task.size \in 0..Window /\ count \in Nat
    BY <1>1
  <2>3. QED
    BY <1>1, <2>1, <2>2, Zenon
<1>4. QED
  BY <1>2, <1>3, Zenon

Finishes(found, count, advance, wordEnd, survivors, blank) ==
  /\ found \in Tasks /\ found.allocated <= MaxUsize
  /\ HasIds(count, survivors) /\ found.allocated = Saturate(task.allocated + count)
  /\ found.base
       = Saturate(task.base + IF options.dropBlank THEN count ELSE Cardinality(survivors))
  /\ found.segments = task.segments \o Slices(survivors, blank)
  /\ found.seek = Capped(task.seek + Max({advance, wordEnd}))
  /\ found.clips = task.clips /\ found.clip = task.clip /\ found.first = task.first
  /\ found.observations = task.observations /\ found.observed = task.observed

LEMMA FinishedFacts ==
  ASSUME Shape, NEW count \in Nat, NEW advance \in 0..Window, NEW wordEnd \in 0..Window,
         NEW survivors, survivors \in SUBSET (1..count), NEW blank,
         HasIds(count, survivors),
         NEW found, found = FinishedTask(count, advance, wordEnd, survivors, blank)
  PROVE  Finishes(found, count, advance, wordEnd, survivors, blank)
<1>1. /\ task \in Tasks /\ task.seek \in Nat /\ task.base \in Nat /\ task.allocated \in Nat
      /\ task.segments \in Seq(Segment) /\ options \in Options
  BY DEF Shape, Tasks
<1>2. Max({advance, wordEnd}) \in Nat
  <2>1. advance \in Nat /\ wordEnd \in Nat
    OBVIOUS
  <2>2. QED
    BY <2>1, MaxOfTwo
<1>3. PICK seek \in Nat : seek = Capped(task.seek + Max({advance, wordEnd}))
  <2>1. task.seek + Max({advance, wordEnd}) \in Nat
    BY <1>1, <1>2
  <2>2. QED
    BY <1>1, <2>1, CappedFacts
<1>4. PICK segments \in Seq(Segment) : segments = task.segments \o Slices(survivors, blank)
  <2>1. Slices(survivors, blank) \in Seq(Segment)
    BY <1>1, SlicesFacts
  <2>2. QED
    BY <1>1, <2>1, ConcatenationFacts
<1>5. PICK base \in Nat :
        base = Saturate(task.base
                 + IF options.dropBlank THEN count ELSE Cardinality(survivors))
  <2>1. Cardinality(survivors) \in Nat
    BY NthRises
  <2>2. PICK more \in Nat :
          more = IF options.dropBlank THEN count ELSE Cardinality(survivors)
    BY <2>1
  <2>3. QED
    BY <1>1, <2>2, MaxUsizeAssumption DEF Saturate
<1>6. PICK allocated \in Nat :
        allocated = Saturate(task.allocated + count) /\ allocated <= MaxUsize
  BY <1>1, MaxUsizeAssumption DEF Saturate
<1>7. found
        = [task EXCEPT !.seek = seek, !.segments = segments, !.base = base, !.allocated = allocated]
  BY <1>3, <1>4, <1>5, <1>6, Zenon DEF FinishedTask
<1>8. found \in Tasks
  BY <1>1, <1>7, Zenon DEF Tasks
<1>9. /\ found.allocated = allocated /\ found.base = base /\ found.segments = segments
       /\ found.seek = seek /\ found.clips = task.clips /\ found.clip = task.clip
       /\ found.first = task.first /\ found.observations = task.observations
       /\ found.observed = task.observed
  BY <1>1, <1>7 DEF Tasks
<1>10. QED
  BY <1>3, <1>4, <1>5, <1>6, <1>8, <1>9 DEF Finishes

LEMMA FinishParts ==
  ASSUME Shape, Control, FinishWindow
  PROVE  \E found, count, advance, wordEnd, survivors, blank :
           /\ count \in Nat /\ advance \in 0..Window /\ wordEnd \in 0..Window
           /\ survivors \in SUBSET (1..count)
           /\ advance = task.size \/ advance \in Times
           /\ Finishes(found, count, advance, wordEnd, survivors, blank)
           /\ LeaveWindow(found)
<1>1. PICK count \in Nat, advance \in 0..Window, wordEnd \in 0..Window :
        \E survivors \in SUBSET (1..count) : \E blank :
          /\ advance = task.size \/ advance \in Times
          /\ HasIds(count, survivors)
          /\ LeaveWindow(FinishedTask(count, advance, wordEnd, survivors, blank))
  BY FinishChoices, Zenon
<1>2. PICK survivors, blank :
        /\ survivors \in SUBSET (1..count)
        /\ advance = task.size \/ advance \in Times
        /\ HasIds(count, survivors)
        /\ LeaveWindow(FinishedTask(count, advance, wordEnd, survivors, blank))
  BY <1>1, Zenon
<1>3. PICK found : found = FinishedTask(count, advance, wordEnd, survivors, blank)
  OBVIOUS
<1>4. survivors \in SUBSET (1..count) /\ HasIds(count, survivors)
  BY <1>2, Zenon
<1>5. Finishes(found, count, advance, wordEnd, survivors, blank)
  BY <1>3, <1>4, FinishedFacts, Zenon
<1>6. QED
  BY <1>2, <1>3, <1>5, Zenon

LEMMA FinishWindowShape ==
  ASSUME Shape, Control, FinishWindow
  PROVE  Shape' /\ Control'
<1>1. PICK found, count, advance, wordEnd, survivors, blank :
        /\ Finishes(found, count, advance, wordEnd, survivors, blank)
        /\ LeaveWindow(found)
  BY FinishParts, Zenon
<1>2. found \in Tasks /\ found.allocated <= MaxUsize /\ found.clip = task.clip
  BY <1>1, Zenon DEF Finishes
<1>3. at = "window"
  BY DEF FinishWindow
<1>4. QED
  BY <1>1, <1>2, <1>3, LeaveShape

\* A silent window is left past its samples.
Skipped == [task EXCEPT !.seek = Capped(@ + task.size)]

LEMMA SkippedFacts ==
  ASSUME Shape
  PROVE  /\ Skipped \in Tasks /\ Skipped.seek = Capped(task.seek + task.size)
         /\ Skipped.allocated = task.allocated /\ Skipped.base = task.base
         /\ Skipped.segments = task.segments /\ Skipped.clips = task.clips
         /\ Skipped.clip = task.clip /\ Skipped.first = task.first
         /\ Skipped.observations = task.observations /\ Skipped.observed = task.observed
<1>1. task \in Tasks /\ task.seek \in Nat /\ task.size \in Nat /\ options \in Options
  BY DEF Shape, Tasks
<1>2. PICK seek \in Nat : seek = Capped(task.seek + task.size)
  BY <1>1, CappedFacts
<1>3. Skipped = [task EXCEPT !.seek = seek]
  BY <1>2, Zenon DEF Skipped
<1>4. Skipped \in Tasks
  BY <1>1, <1>3, Zenon DEF Tasks
<1>5. QED
  BY <1>1, <1>2, <1>3, <1>4 DEF Tasks

LEMMA SkipWindowShape ==
  ASSUME Shape, Control, SkipWindow
  PROVE  Shape' /\ Control'
<1>1. at = "window" /\ InTask
  BY DEF SkipWindow, InTask
<1>2. TaskFails(sink, seen) \/ LeaveWindow(Skipped)
  BY DEF SkipWindow, Skipped
<1>3. CASE TaskFails(sink, seen)
  BY <1>1, <1>3, FailShape DEF Shape
<1>4. CASE LeaveWindow(Skipped)
  <2>1. Skipped \in Tasks /\ Skipped.allocated <= MaxUsize /\ Skipped.clip = task.clip
    BY SkippedFacts DEF Shape
  <2>2. QED
    BY <1>1, <1>4, <2>1, LeaveShape
<1>5. QED
  BY <1>2, <1>3, <1>4

LEMMA FailureShape ==
  ASSUME Shape, Control, BackendFails \/ WindowFails
  PROVE  Shape' /\ Control'
<1>1. InTask /\ TaskFails(sink, seen)
  BY DEF BackendFails, WindowFails, InTask
<1>2. QED
  BY <1>1, FailShape DEF Shape

\* An attempt that returns: told, and gone on from.
LEMMA AttemptParts ==
  ASSUME Shape, Control, NEW outcome \in Outcomes, Attempt(outcome),
         outcome.result # "error"
  PROVE  /\ sink' = SinkAfter(outcome) /\ seen' = SeenAfter(outcome)
         /\ at' \in {"attempt", "window"}
         /\ kept' = [kept EXCEPT !.probe = IF options.detects THEN Probed(outcome) ELSE {}]
         /\ UNCHANGED callVars /\ heard' = heard
         /\ task' \in Tasks
         /\ task'.allocated = task.allocated /\ task'.base = task.base
         /\ task'.segments = task.segments /\ task'.clips = task.clips
         /\ task'.clip = task.clip /\ task'.first = task.first /\ task'.seek = task.seek
         /\ task'.size = task.size /\ task'.observations = task.observations
         /\ task'.probe = WindowProbe(outcome)
         /\ task'.observed = FirstObserved(ObservedByProbe(outcome), outcome.predicted)
<1>1. /\ task \in Tasks /\ task.observed \in Optional(Languages)
      /\ task.probe \in Optional(Languages) /\ task.attempt \in 0..options.fallbacks
      /\ task.detected \in Optional(Languages) /\ options \in Options
  BY DEF Shape, Tasks
<1>2. Probed(outcome) \in Optional(Languages) /\ ObservedByProbe(outcome) \in Optional(Languages)
  BY <1>1, AttemptFindings DEF Shape
<1>3. PICK shown \in {Default} \cup outcome.predicted :
        task' = [task EXCEPT
          !.probe = WindowProbe(outcome),
          !.detected = LET probed == IF options.detects THEN Probed(outcome) ELSE @
                       IN  IF probed = {} THEN {shown} ELSE probed,
          !.observed = FirstObserved(ObservedByProbe(outcome), outcome.predicted),
          !.attempt = IF FallsBack(outcome) THEN @ + 1 ELSE @]
  BY Zenon DEF Attempt
<1>4. PICK detected \in Optional(Languages) :
        detected = LET probed == IF options.detects THEN Probed(outcome) ELSE task.detected
                   IN  IF probed = {} THEN {shown} ELSE probed
  <2>1. shown \in Languages
    BY OutcomeFields, OptionalFacts, TranscribeAssumption
  <2>2. {shown} \in Optional(Languages)
    BY <2>1, OptionalFacts
  <2>3. QED
    BY <1>1, <1>2, <2>2, Zenon
<1>5. PICK observed \in Optional(Languages) :
        observed = FirstObserved(ObservedByProbe(outcome), outcome.predicted)
  BY <1>2, OutcomeFields, LanguagesMerge
<1>6. PICK attempt \in 0..options.fallbacks :
        attempt = IF FallsBack(outcome) THEN task.attempt + 1 ELSE task.attempt
  <2>1. FallsBack(outcome) => task.attempt < options.fallbacks
    BY DEF FallsBack
  <2>2. QED
    BY <1>1, <2>1, OptionFields
<1>7. PICK probe \in Optional(Languages) : probe = WindowProbe(outcome)
  BY <1>1, <1>2 DEF WindowProbe
<1>8. task' = [task EXCEPT !.probe = probe, !.detected = detected, !.observed = observed,
                           !.attempt = attempt]
  BY <1>3, <1>4, <1>5, <1>6, <1>7, Zenon
<1>9. task' \in Tasks
  BY <1>1, <1>8, Zenon DEF Tasks
<1>10. /\ task'.allocated = task.allocated /\ task'.base = task.base
       /\ task'.segments = task.segments /\ task'.clips = task.clips
       /\ task'.clip = task.clip /\ task'.first = task.first /\ task'.seek = task.seek
       /\ task'.size = task.size /\ task'.observations = task.observations
       /\ task'.probe = probe /\ task'.observed = observed
  BY <1>1, <1>8 DEF Tasks
<1>11. /\ sink' = SinkAfter(outcome) /\ seen' = SeenAfter(outcome)
       /\ at' \in {"attempt", "window"}
       /\ kept' = [kept EXCEPT !.probe = IF options.detects THEN Probed(outcome) ELSE {}]
       /\ UNCHANGED callVars /\ heard' = heard
  BY DEF Attempt
<1>12. QED
  BY <1>5, <1>7, <1>9, <1>10, <1>11

LEMMA AttemptShape ==
  ASSUME Shape, Control, NEW outcome \in Outcomes, Attempt(outcome)
  PROVE  Shape' /\ Control'
<1>1. /\ task.observed \in Optional(Languages) /\ task.probe \in Optional(Languages)
      /\ seen \in SeenSet /\ sink \in FactsOf(Languages) /\ at = "attempt"
      /\ chunk <= Len(Chunks) /\ task.clip \in 1..Len(task.clips) /\ task.size >= 1
  BY DEF Shape, Control, Tasks, Attempt, InTask, InWindow
<1>2. SinkAfter(outcome) \in FactsOf(Languages) /\ SeenAfter(outcome) \in SeenSet
  BY <1>1, AttemptFindings, FactsMerge DEF SinkAfter
<1>3. CASE outcome.result = "error"
  <2>1. TaskFails(SinkAfter(outcome), SeenAfter(outcome)) /\ InTask
    BY <1>1, <1>3 DEF Attempt, InTask
  <2>2. QED
    BY <1>2, <2>1, FailShape
<1>4. CASE outcome.result # "error"
  <2>1. /\ sink' = SinkAfter(outcome) /\ seen' = SeenAfter(outcome)
        /\ at' \in {"attempt", "window"} /\ UNCHANGED callVars /\ heard' = heard
        /\ kept' = [kept EXCEPT !.probe = IF options.detects THEN Probed(outcome) ELSE {}]
        /\ task' \in Tasks /\ task'.allocated = task.allocated
        /\ task'.clip = task.clip /\ task'.clips = task.clips /\ task'.size = task.size
    BY <1>4, AttemptParts
  <2>2. kept' \in Keeps
    <3>1. Probed(outcome) \in Optional(Languages) /\ {} \in Optional(Languages)
      BY <1>1, AttemptFindings, OptionalFacts
    <3>2. QED
      BY <2>1, <3>1 DEF Shape, Keeps
  <2>3. Shape'
    BY <1>2, <2>1, <2>2, RunStepShape DEF Shape
  <2>4. Control'
    BY <1>1, <2>1, RunStepControl
  <2>5. QED
    BY <2>3, <2>4
<1>5. QED
  BY <1>3, <1>4

-----------------------------------------------------------------------------
(* The merge of a call's results. *)

\* The values that come of a first one, each step giving the next.
IsWalked(n, V, start, step) ==
  \E f \in [0..n -> V] : f[0] = start /\ \A k \in 1..n : f[k] = step[k][f[k - 1]]

LEMMA StepsDetermine ==
  ASSUME NEW n \in Nat, NEW V, NEW start \in V, NEW step \in [1..n -> [V -> V]]
  PROVE  IsWalked(n, V, start, step)
<1> DEFINE Walks(m, f) == f[0] = start /\ \A k \in 1..m : f[k] = step[k][f[k - 1]]
           Good == {m \in Nat : m <= n => \E f \in [0..m -> V] : Walks(m, f)}
<1>1. 0 \in Good
  <2> DEFINE f == [k \in 0..0 |-> start]
  <2>1. f \in [0..0 -> V] /\ Walks(0, f)
    OBVIOUS
  <2>2. QED
    BY <2>1
<1>2. ASSUME NEW i \in 0..(n - 1), i \in Good
      PROVE  i + 1 \in Good
  <2>1. i <= n /\ i + 1 \in Nat /\ i + 1 \in 1..n
    OBVIOUS
  <2>2. PICK f \in [0..i -> V] : Walks(i, f)
    BY <1>2, <2>1
  <2> DEFINE g == [k \in 0..(i + 1) |-> IF k = i + 1 THEN step[i + 1][f[i]] ELSE f[k]]
  <2>3. f[i] \in V
    OBVIOUS
  <2>4. step[i + 1][f[i]] \in V
    <3>1. step[i + 1] \in [V -> V]
      BY <2>1
    <3>2. QED
      BY <2>3, <3>1
  <2>5. g \in [0..(i + 1) -> V]
    BY <2>4
  <2>6. /\ \A k \in 0..i : g[k] = f[k]
        /\ g[i + 1] = step[i + 1][f[i]]
    OBVIOUS
  <2> HIDE DEF g
  <2>7. g[0] = start
    BY <2>2, <2>6
  <2>8. ASSUME NEW k \in 1..(i + 1)
        PROVE  g[k] = step[k][g[k - 1]]
    <3>1. k - 1 \in 0..i
      OBVIOUS
    <3>2. CASE k = i + 1
      <4>1. g[k] = step[k][f[i]] /\ g[k - 1] = f[i]
        BY <2>6, <3>1, <3>2
      <4>2. QED
        BY <4>1
    <3>3. CASE k # i + 1
      <4>1. k \in 0..i /\ k \in 1..i
        BY <3>3
      <4>2. g[k] = f[k] /\ g[k - 1] = f[k - 1] /\ f[k] = step[k][f[k - 1]]
        BY <2>2, <2>6, <3>1, <4>1
      <4>3. QED
        BY <4>2
    <3>4. QED
      BY <3>2, <3>3
  <2>9. Walks(i + 1, g)
    BY <2>7, <2>8
  <2>10. QED
    BY <2>1, <2>5, <2>9
<1>3. Good \in SUBSET Nat
  OBVIOUS
<1>4. \A i \in 0..(n - 1) : i \in Good => i + 1 \in Good
  BY <1>2
<1> HIDE DEF Good
<1>5. \A i \in 0..n : i \in Good
  BY <1>1, <1>3, <1>4, UpToInduction
<1>6. n \in Good
  BY <1>5
<1>7. QED
  BY <1>6 DEF Good, IsWalked

MergeSet == [ids : Seq(Nat), span : Spans, fits : BOOLEAN]

LEMMA MergeSetFields ==
  \A m \in MergeSet : m.ids \in Seq(Nat) /\ m.span \in Spans /\ m.fits \in BOOLEAN
BY DEF MergeSet

LEMMA ResultFields ==
  \A r \in ResultSet : /\ r.ok = TRUE /\ r.ids \in Seq(Nat) /\ r.facts \in FactsOf(Languages)
                       /\ r.facts.decodedSpan \in Spans
BY FactFields DEF ResultSet

LEMMA SpanFields ==
  \A a \in Spans : a.exact \in BOOLEAN /\ a.bound \in Nat /\ a.bound <= MaxUsize
BY MaxUsizeAssumption DEF Spans, Usize

LEMMA RenumberedFacts ==
  ASSUME NEW merged \in MergeSet, NEW index \in Nat, NEW ids \in Seq(Nat)
  PROVE  /\ Renumbered(merged, index, ids) \in Seq(Nat)
         /\ Len(Renumbered(merged, index, ids)) = Len(ids)
         /\ options.dropBlank =>
              \A i \in 1..Len(ids) : Renumbered(merged, index, ids)[i] = merged.span.bound + ids[i]
<1>1. merged.span.bound \in Nat
  BY MergeSetFields, SpanFields
<1>2. PICK base \in Nat : base = merged.span.bound
  BY <1>1
<1>3. DOMAIN ids = 1..Len(ids) /\ \A i \in 1..Len(ids) : ids[i] \in Nat
  OBVIOUS
<1>4. CASE options.dropBlank
  <2>1. Renumbered(merged, index, ids) = [i \in 1..Len(ids) |-> base + ids[i]]
    BY <1>2, <1>3, <1>4 DEF Renumbered
  <2>2. QED
    BY <1>2, <1>3, <2>1
<1>5. CASE ~options.dropBlank
  <2>1. Renumbered(merged, index, ids) = [i \in 1..Len(ids) |-> index + i - 1]
    BY <1>3, <1>5 DEF Renumbered
  <2>2. QED
    BY <1>3, <1>5, <2>1
<1>6. QED
  BY <1>4, <1>5

LEMMA MergeOneTyped ==
  ASSUME NEW merged \in MergeSet, NEW index \in Nat, NEW result \in ResultSet
  PROVE  MergeOne(merged, index, result) \in MergeSet
<1>1. /\ merged.ids \in Seq(Nat) /\ result.ids \in Seq(Nat)
      /\ merged.span \in Spans /\ result.facts.decodedSpan \in Spans
  BY MergeSetFields, ResultFields
<1>2. Renumbered(merged, index, result.ids) \in Seq(Nat)
  BY <1>1, RenumberedFacts
<1>3. merged.ids \o Renumbered(merged, index, result.ids) \in Seq(Nat)
  BY <1>1, <1>2, ConcatenationFacts
<1>4. MergeSpans(merged.span, result.facts.decodedSpan) \in Spans
  BY <1>1, SpansMerge
<1>5. (merged.fits /\ merged.span.bound + result.facts.decodedSpan.bound <= MaxUsize) \in BOOLEAN
  OBVIOUS
<1>6. QED
  BY <1>3, <1>4, <1>5, Zenon DEF MergeOne, MergeSet

\* merge_results takes its children one after the other.
LEMMA MergeTakesEach ==
  ASSUME results \in Seq(ResultSet)
  PROVE  /\ MergedUpTo[0] = MergeStart
         /\ \A k \in 1..Len(results) :
              MergedUpTo[k] = MergeOne(MergedUpTo[k - 1], k - 1, results[k])
<1> DEFINE n == Len(results)
           step == [k \in 1..n |-> [m \in MergeSet |-> MergeOne(m, k - 1, results[k])]]
           Folds(f) == f = [k \in 0..n |-> IF k = 0 THEN MergeStart
                                           ELSE MergeOne(f[k - 1], k - 1, results[k])]
<1>1. n \in Nat /\ \A k \in 1..n : results[k] \in ResultSet /\ k - 1 \in Nat
  OBVIOUS
<1>2. MergeStart \in MergeSet
  <2>1. <<>> \in Seq(Nat) /\ Exact(0) \in Spans
    BY SpansOfCounts
  <2>2. QED
    BY <2>1, Zenon DEF MergeStart, MergeSet
<1>3. step \in [1..n -> [MergeSet -> MergeSet]]
  BY <1>1, MergeOneTyped
<1> HIDE DEF n
<1>4. PICK f \in [0..n -> MergeSet] :
        f[0] = MergeStart /\ \A k \in 1..n : f[k] = step[k][f[k - 1]]
  <2> HIDE DEF step
  <2>1. n \in Nat /\ MergeStart \in MergeSet /\ step \in [1..n -> [MergeSet -> MergeSet]]
    BY <1>1, <1>2, <1>3
  <2>2. IsWalked(n, MergeSet, MergeStart, step)
    BY <2>1, StepsDetermine, Zenon
  <2>3. QED
    BY <2>2 DEF IsWalked
<1>5. ASSUME NEW k \in 1..n
      PROVE  f[k] = MergeOne(f[k - 1], k - 1, results[k])
  <2>1. k - 1 \in 0..n
    BY <1>1
  <2>2. f[k - 1] \in MergeSet
    BY <2>1
  <2>3. QED
    BY <1>4, <2>2
<1>6. Folds(f)
  <2> DEFINE g == [k \in 0..n |-> IF k = 0 THEN MergeStart
                                  ELSE MergeOne(f[k - 1], k - 1, results[k])]
  <2>1. \A k \in 0..n : k # 0 => k \in 1..n
    BY <1>1
  <2>2. \A k \in 0..n : f[k] = g[k]
    BY <1>4, <1>5, <2>1
  <2>3. f = [k \in 0..n |-> f[k]] /\ g = [k \in 0..n |-> g[k]]
    OBVIOUS
  <2> HIDE DEF g
  <2>4. f = g
    BY <2>2, <2>3
  <2>5. QED
    BY <2>4 DEF g
<1>7. MergedUpTo = CHOOSE g : Folds(g)
  BY DEF MergedUpTo, n
<1>8. Folds(MergedUpTo)
  <2> HIDE DEF Folds
  <2>1. QED
    BY <1>6, <1>7
<1>9. ASSUME NEW k \in 0..n
      PROVE  MergedUpTo[k] = IF k = 0 THEN MergeStart
                             ELSE MergeOne(MergedUpTo[k - 1], k - 1, results[k])
  BY <1>8
<1>10. 0 \in 0..n /\ \A k \in 1..n : k \in 0..n /\ k # 0
  BY <1>1
<1>11. QED
  BY <1>9, <1>10 DEF n

LEMMA MergedTyped ==
  ASSUME results \in Seq(ResultSet)
  PROVE  \A k \in 0..Len(results) : MergedUpTo[k] \in MergeSet
<1> DEFINE n == Len(results)
           Good == {k \in Nat : k <= n => MergedUpTo[k] \in MergeSet}
<1>1. n \in Nat /\ \A k \in 1..n : results[k] \in ResultSet /\ k - 1 \in Nat
  OBVIOUS
<1>2. /\ MergedUpTo[0] = MergeStart
      /\ \A k \in 1..n : MergedUpTo[k] = MergeOne(MergedUpTo[k - 1], k - 1, results[k])
  BY MergeTakesEach
<1> HIDE DEF n
<1>3. 0 \in Good
  <2>1. <<>> \in Seq(Nat) /\ Exact(0) \in Spans
    BY SpansOfCounts
  <2>2. MergeStart \in MergeSet
    BY <2>1, Zenon DEF MergeStart, MergeSet
  <2>3. QED
    BY <1>2, <2>2
<1>4. ASSUME NEW i \in 0..(n - 1), i \in Good
      PROVE  i + 1 \in Good
  <2>1. i <= n /\ i + 1 \in 1..n /\ i + 1 - 1 = i /\ i \in Nat
    BY <1>1
  <2>2. MergedUpTo[i] \in MergeSet
    BY <1>4, <2>1
  <2>3. MergedUpTo[i + 1] = MergeOne(MergedUpTo[i], i, results[i + 1])
    BY <1>2, <2>1
  <2>4. MergedUpTo[i + 1] \in MergeSet
    BY <1>1, <2>1, <2>2, <2>3, MergeOneTyped
  <2>5. QED
    BY <2>1, <2>4
<1>5. Good \in SUBSET Nat /\ \A i \in 0..(n - 1) : i \in Good => i + 1 \in Good
  BY <1>4
<1>6. \A k \in 0..n : k \in Good
  <2> HIDE DEF Good
  <2>1. QED
    BY <1>1, <1>3, <1>5, UpToInduction
<1>7. \A k \in 0..n : k \in Nat /\ k <= n
  BY <1>1
<1>8. QED
  BY <1>6, <1>7 DEF n

-----------------------------------------------------------------------------
(* Where a call cuts. *)

LEMMA RangesFacts ==
  ASSUME Shape, ~ClipsRefused(options.clips)
  PROVE  Ranges \in Seq(ClipRange) /\ Len(Ranges) \in Nat /\ Len(Ranges) >= 1
<1>1. options.clips \in Seq(Int) /\ Content \in Nat
  BY OptionFields, TranscribeAssumption DEF Shape
<1>2. QED
  BY <1>1, SeekClipsFacts DEF Ranges

\* A split lies in the window, and where it begins only at the last sample.
LEMMA SplitFacts ==
  ASSUME NEW start \in Nat, NEW content \in Nat, start < content,
         NEW x \in Splits(start, content)
  PROVE  /\ x \in Nat /\ start <= x /\ x <= content /\ x <= start + Window
         /\ x = start => content = start + 1
<1>0. Window \in Nat /\ Window > 1
  BY ChunkerAssumption
<1>1. PICK end \in Nat : /\ end = Min({content, start + Window})
                         /\ end = IF content <= start + Window THEN content ELSE start + Window
  <2>1. start + Window \in Nat
    BY <1>0
  <2>2. QED
    BY <2>1, MinOfTwo
<1>2. x \in (start + (end - start) \div 2)..end
  BY <1>1 DEF Splits
<1>3. PICK half \in Nat : half = (end - start) \div 2 /\ (half = 0 => end - start <= 1)
  <2>1. end - start \in Nat
    BY <1>0, <1>1
  <2>2. QED
    BY <2>1
<1>4. x \in Int /\ start + half <= x /\ x <= end
  BY <1>2, <1>3
<1>5. QED
  BY <1>0, <1>1, <1>3, <1>4

\* What a step of the chunker cuts.
Grows(end, length) ==
  /\ end \in Nat /\ length \in 1..Window /\ length \in 0..Content
  /\ end > cut.start /\ cut.start + length <= Content
  /\ cut.start + length = end \/ (cut.start + length = Content /\ end >= Content)
  /\ cut' = [cut EXCEPT !.start = end,
               !.chunks = Append(@, [offset |-> cut.start, length |-> length])]

LEMMA CutParts ==
  ASSUME Shape, CutChunk
  PROVE  /\ \E end, length : Grows(end, length)
         /\ cut.clip \in 1..Len(Ranges) /\ cut.start < Content
<1>0. Window \in Nat /\ Content \in Nat /\ ChunkPadding \in Nat /\ cut.start \in Nat
  BY ChunkerAssumption, TranscribeAssumption DEF Shape, Cuts
<1>1. /\ ~ClipsRefused(options.clips) /\ cut.clip \in DOMAIN Ranges
      /\ cut.start < Ranges[cut.clip].end - ChunkPadding /\ cut.start < Content
  BY DEF CutChunk, IsCutting, IsInClip, CutsAgain
<1>2. Ranges \in Seq(ClipRange) /\ cut.clip \in 1..Len(Ranges) /\ Ranges[cut.clip].end \in Nat
  <2>1. Ranges \in Seq(ClipRange)
    BY <1>1, RangesFacts
  <2>2. Ranges[cut.clip] \in ClipRange
    BY <1>1, <2>1
  <2>3. QED
    BY <1>1, <2>1, <2>2 DEF ClipRange
<1>3. PICK end :
        /\ end \in IF NeedsSplit(cut.start, Ranges[cut.clip].end)
                     THEN Splits(cut.start, Content) ELSE {Ranges[cut.clip].end}
        /\ end > cut.start
        /\ cut' = [cut EXCEPT !.start = end, !.chunks = Append(@,
                     [offset |-> cut.start, length |-> Min({end, Content}) - cut.start])]
  BY DEF CutChunk
<1>4. end \in Nat /\ end <= cut.start + Window
  <2>1. CASE NeedsSplit(cut.start, Ranges[cut.clip].end)
    <3>1. end \in Splits(cut.start, Content)
      BY <1>3, <2>1
    <3>2. QED
      BY <1>0, <1>1, <3>1, SplitFacts
  <2>2. CASE ~NeedsSplit(cut.start, Ranges[cut.clip].end)
    BY <1>0, <1>2, <1>3, <2>2 DEF NeedsSplit
  <2>3. QED
    BY <2>1, <2>2
<1>5. PICK least \in Nat : least = Min({end, Content}) /\ least = IF end <= Content THEN end ELSE Content
  BY <1>0, <1>4, MinOfTwo
<1>6. PICK length \in Nat : length = Min({end, Content}) - cut.start /\ length = least - cut.start
                            /\ length >= 1
  BY <1>0, <1>1, <1>3, <1>4, <1>5
<1>7. /\ length \in 1..Window /\ length \in 0..Content /\ cut.start + length <= Content
      /\ cut.start + length = end \/ (cut.start + length = Content /\ end >= Content)
  <2>1. end \in Nat /\ end <= cut.start + Window /\ end > cut.start
    BY <1>3, <1>4
  <2>2. /\ least \in Nat /\ least <= end /\ least <= Content
        /\ least = end \/ (least = Content /\ end >= Content)
    <3>1. least \in Nat /\ least = IF end <= Content THEN end ELSE Content
      BY <1>5
    <3>2. QED
      BY <1>0, <2>1, <3>1
  <2>3. QED
    BY <1>0, <1>6, <2>1, <2>2
<1>8. cut' = [cut EXCEPT !.start = end,
                !.chunks = Append(@, [offset |-> cut.start, length |-> length])]
  BY <1>3, <1>6
<1>9. Grows(end, length)
  BY <1>3, <1>4, <1>7, <1>8 DEF Grows
<1>10. QED
  BY <1>1, <1>2, <1>9

\* A step of the cutting leaves all but the cut as it is.
LEMMA CutStepShape ==
  ASSUME Shape, Control, at = "cut", at' \in {"cut", "task"}, ~ClipsRefused(options.clips),
         UNCHANGED <<options, chunk, schedule, dropped, results, returned, lost, task,
                     sink, heard, seen, kept>>,
         misheard' \in BOOLEAN, cut' \in Cuts, Len(cut'.chunks) >= Len(cut.chunks),
         ~IsChunked /\ at' = "task" => cut'.chunks = <<[offset |-> 0, length |-> Content]>>
  PROVE  Shape' /\ Control'
<1>1. Tasks' = Tasks /\ Cuts' = Cuts /\ Keeps' = Keeps /\ (Returns <=> Returns')
  BY DEF Tasks, Cuts, Keeps, Returns
<1>2. dropped' \subseteq 1..Len(cut'.chunks)
  <2>1. Len(cut.chunks) \in Nat /\ Len(cut'.chunks) \in Nat
    BY DEF Shape, Cuts
  <2>2. \A c \in 1..Len(cut.chunks) : c \in 1..Len(cut'.chunks)
    BY <2>1
  <2>3. QED
    BY <2>2 DEF Shape
<1>3. Shape'
  BY <1>1, <1>2 DEF Shape
<1>4. Control'
  BY DEF Control, InTask, InWindow, IsChunked, Chunks
<1>5. QED
  BY <1>3, <1>4

LEMMA CutChunkShape ==
  ASSUME Shape, Control, CutChunk
  PROVE  Shape' /\ Control'
<1>1. PICK end, length : Grows(end, length)
  BY CutParts, Zenon
<1>2. PICK stretch \in Stretch : stretch = [offset |-> cut.start, length |-> length]
  BY <1>1 DEF Grows, Stretch, Shape, Cuts
<1>3. PICK chunks \in Seq(Stretch) :
        /\ chunks = Append(cut.chunks, [offset |-> cut.start, length |-> length])
        /\ Len(chunks) = Len(cut.chunks) + 1
  <2>1. cut.chunks \in Seq(Stretch)
    BY DEF Shape, Cuts
  <2>2. Append(cut.chunks, stretch) \in Seq(Stretch) /\ Len(Append(cut.chunks, stretch)) = Len(cut.chunks) + 1
    BY <2>1
  <2>3. QED
    BY <1>2, <2>2
<1>4. cut' = [cut EXCEPT !.start = end, !.chunks = chunks] /\ end \in Nat
  BY <1>1, <1>3 DEF Grows
<1>5. cut' \in Cuts /\ cut'.chunks = chunks
  BY <1>4 DEF Shape, Cuts
<1>6. Len(cut'.chunks) >= Len(cut.chunks)
  BY <1>3, <1>5 DEF Shape, Cuts
<1>7. /\ at = "cut" /\ at' = "cut" /\ ~ClipsRefused(options.clips) /\ misheard' \in BOOLEAN
      /\ UNCHANGED <<options, chunk, schedule, dropped, results, returned, lost, task,
                     sink, heard, seen, kept>>
  BY DEF CutChunk, CutUnchanged, IsCutting, Shape
<1>8. QED
  BY <1>5, <1>6, <1>7, CutStepShape

LEMMA NextRangeShape ==
  ASSUME Shape, Control, NextRange
  PROVE  Shape' /\ Control'
<1>1. /\ at = "cut" /\ at' = "cut" /\ ~ClipsRefused(options.clips) /\ misheard' \in BOOLEAN
      /\ UNCHANGED <<options, chunk, schedule, dropped, results, returned, lost, task,
                     sink, heard, seen, kept>>
      /\ cut' = [cut EXCEPT !.clip = @ + 1,
                   !.start = IF cut.clip < Len(Ranges) THEN Ranges[cut.clip + 1].start ELSE 0]
  BY DEF NextRange, CutUnchanged, IsCutting, Shape
<1>2. Ranges \in Seq(ClipRange) /\ cut \in Cuts /\ cut.clip \in Nat
  BY <1>1, RangesFacts DEF Shape, Cuts
<1>3. PICK start \in Nat :
        start = IF cut.clip < Len(Ranges) THEN Ranges[cut.clip + 1].start ELSE 0
  <2>1. cut.clip < Len(Ranges) => Ranges[cut.clip + 1] \in ClipRange
    BY <1>2
  <2>2. QED
    BY <2>1 DEF ClipRange
<1>4. cut' = [cut EXCEPT !.clip = @ + 1, !.start = start]
  BY <1>1, <1>3
<1>5. cut' \in Cuts /\ cut'.chunks = cut.chunks
  <2>1. PICK next \in Nat : next = cut.clip + 1
    BY <1>2
  <2>2. cut' = [cut EXCEPT !.clip = next, !.start = start]
    BY <1>4, <2>1
  <2>3. QED
    BY <1>2, <2>2 DEF Cuts
<1>6. Len(cut'.chunks) >= Len(cut.chunks)
  BY <1>2, <1>5 DEF Cuts
<1>7. QED
  BY <1>1, <1>5, <1>6, CutStepShape

LEMMA TakeWholeShape ==
  ASSUME Shape, Control, TakeWhole
  PROVE  Shape' /\ Control'
<1>1. /\ at = "cut" /\ at' = "task" /\ ~ClipsRefused(options.clips) /\ misheard' \in BOOLEAN
      /\ UNCHANGED <<options, chunk, schedule, dropped, results, returned, lost, task,
                     sink, heard, seen, kept>>
      /\ ~IsChunked
      /\ cut' = [cut EXCEPT !.chunks = <<[offset |-> 0, length |-> Content]>>]
  BY DEF TakeWhole, BeginTasks, Shape
<1>2. PICK stretch \in Stretch : stretch = [offset |-> 0, length |-> Content]
  <2>1. Content \in Nat
    BY TranscribeAssumption
  <2>2. 0 \in Nat /\ Content \in 0..Content
    BY <2>1
  <2>3. QED
    BY <2>2, Zenon DEF Stretch
<1>3. cut' \in Cuts /\ cut'.chunks = <<[offset |-> 0, length |-> Content]>>
  <2>1. PICK chunks \in Seq(Stretch) : chunks = <<[offset |-> 0, length |-> Content]>>
    <3>1. <<stretch>> \in Seq(Stretch)
      OBVIOUS
    <3>2. QED
      BY <1>2, <3>1
  <2>2. cut' = [cut EXCEPT !.chunks = chunks]
    BY <1>1, <2>1
  <2>3. cut' \in Cuts /\ cut'.chunks = chunks
    BY <2>2 DEF Shape, Cuts
  <2>4. QED
    BY <2>1, <2>3
<1>4. dropped = {}
  BY <1>1 DEF Control
<1>5. Shape'
  <2>1. Tasks' = Tasks /\ Cuts' = Cuts /\ Keeps' = Keeps /\ (Returns <=> Returns')
    BY <1>1 DEF Tasks, Cuts, Keeps, Returns
  <2>2. QED
    BY <1>1, <1>3, <1>4, <2>1 DEF Shape
<1>6. Control'
  BY <1>1, <1>3 DEF Control, InTask, InWindow, IsChunked, Chunks
<1>7. QED
  BY <1>5, <1>6

\* A call that fails before a run is under way.
LEMMA CallFailsShape ==
  ASSUME Shape, Control, CallFails, UNCHANGED <<task, sink, heard, seen, kept>>
  PROVE  Shape' /\ Control'
<1>1. /\ at' = "end" /\ returned' = {[ok |-> FALSE]}
      /\ UNCHANGED <<options, cut, misheard, chunk, schedule, dropped, results, lost>>
      /\ Tasks' = Tasks /\ Cuts' = Cuts /\ Keeps' = Keeps
  BY DEF CallFails, cutVars, Tasks, Cuts, Keeps
<1>2. Returns'
  BY <1>1 DEF Returns
<1>3. Shape'
  BY <1>1, <1>2 DEF Shape
<1>4. Control'
  BY <1>1 DEF Control, InTask, InWindow, IsChunked
<1>5. QED
  BY <1>3, <1>4

LEMMA RefuseShape ==
  ASSUME Shape, Control, Refuse
  PROVE  Shape' /\ Control'
BY CallFailsShape DEF Refuse

LEMMA EndCutShape ==
  ASSUME Shape, Control, EndCut
  PROVE  Shape' /\ Control'
<1>1. CASE misheard
  BY <1>1, CallFailsShape DEF EndCut
<1>2. CASE ~misheard
  <2>1. /\ at = "cut" /\ at' = "task" /\ ~ClipsRefused(options.clips) /\ misheard' \in BOOLEAN
        /\ UNCHANGED <<options, chunk, schedule, dropped, results, returned, lost, task,
                       sink, heard, seen, kept>>
        /\ UNCHANGED cut /\ IsChunked
    BY <1>2 DEF EndCut, BeginTasks, IsCutting, Shape
  <2>2. cut' \in Cuts /\ Len(cut'.chunks) >= Len(cut.chunks)
    BY <2>1 DEF Shape, Cuts
  <2>3. QED
    BY <2>1, <2>2, CutStepShape
<1>3. QED
  BY <1>1, <1>2

-----------------------------------------------------------------------------
(* What a run and the call return. *)

\* The segments a run keeps.
Left == IF options.dropBlank THEN DropBlankAudioSegments(task.segments) ELSE task.segments

LEMMA LeftFacts ==
  ASSUME task.segments \in Seq(Segment)
  PROVE  Left \in Seq(Segment)
<1>1. {i \in DOMAIN task.segments : ~task.segments[i].blank} \in SUBSET (DOMAIN task.segments)
  OBVIOUS
<1>2. DropBlankAudioSegments(task.segments) \in Seq(Segment)
  BY <1>1, SelectionType DEF DropBlankAudioSegments
<1>3. QED
  BY <1>2 DEF Left

\* A run's result: the ids left, and its facts.
LEMMA TaskResultFacts ==
  ASSUME Shape, chunk >= 1
  PROVE  /\ TaskResult \in ResultSet
         /\ TaskResult.ids = SegmentIds(Left)
         /\ TaskResult.facts.decodedSpan = Exact(task.allocated)
         /\ TaskResult.facts.drewFromRng = sink.drewFromRng
         /\ TaskResult.facts.earlyStopped = sink.earlyStopped
         /\ TaskResult.facts.hadSwallowedError = sink.hadSwallowedError
         /\ TaskResult.facts.observedLanguage = task.observed
         /\ [known |-> TRUE, workers |-> <<chunk - 1>>] \in Schedules
<1>1. /\ task.segments \in Seq(Segment) /\ task.observed \in Optional(Languages)
      /\ task.allocated \in Nat /\ task.allocated <= MaxUsize /\ sink \in FactsOf(Languages)
      /\ chunk - 1 \in Nat
  BY DEF Shape, Tasks
<1>2. Left \in Seq(Segment)
  BY <1>1, LeftFacts
<1>3. DOMAIN Left = 1..Len(Left) /\ \A i \in 1..Len(Left) : Left[i].id \in Nat
  <2>1. DOMAIN Left = 1..Len(Left) /\ \A i \in 1..Len(Left) : Left[i] \in Segment
    BY <1>2
  <2>2. \A segment \in Segment : segment.id \in Nat
    BY DEF Segment
  <2>3. QED
    BY <2>1, <2>2
<1>4. PICK ids \in Seq(Nat) : ids = [i \in DOMAIN Left |-> Left[i].id]
  <2>1. PICK n \in Nat : n = Len(Left)
    BY <1>2
  <2>2. DOMAIN Left = 1..n /\ \A i \in 1..n : Left[i].id \in Nat
    BY <1>3, <2>1
  <2>3. [i \in 1..n |-> Left[i].id] \in [1..n -> Nat]
    BY <2>2
  <2>4. [i \in DOMAIN Left |-> Left[i].id] \in Seq(Nat)
    BY <2>2, <2>3
  <2>5. QED
    BY <2>4
<1>5. PICK schedule1 \in Schedules : schedule1 = [known |-> TRUE, workers |-> <<chunk - 1>>]
  <2>1. <<chunk - 1>> \in Seq(Nat)
    BY <1>1
  <2>2. QED
    BY <2>1, Zenon DEF Schedules
<1>6. PICK span \in Spans : span = Exact(task.allocated)
  BY <1>1, SpansOfCounts
<1>7. PICK observed \in Optional(Languages) : observed = task.observed
  BY <1>1
<1>8. PICK facts : facts = [sink EXCEPT !.observedLanguage = observed,
                              !.workerSchedule = schedule1, !.decodedSpan = span]
  OBVIOUS
<1>9. facts \in FactsOf(Languages)
  BY <1>1, <1>8, Zenon DEF FactsOf
<1>10. /\ facts.decodedSpan = span /\ facts.drewFromRng = sink.drewFromRng
       /\ facts.earlyStopped = sink.earlyStopped
       /\ facts.hadSwallowedError = sink.hadSwallowedError
       /\ facts.observedLanguage = observed
  BY <1>1, <1>8 DEF FactsOf
<1>11. TaskResult = [ok |-> TRUE, ids |-> ids, facts |-> facts]
  BY <1>4, <1>5, <1>6, <1>7, <1>8, Zenon DEF TaskResult, Left
<1>12. TaskResult \in ResultSet
  <2>1. TRUE \in {TRUE}
    OBVIOUS
  <2>2. QED
    BY <1>9, <1>11, <2>1, Zenon DEF ResultSet
<1>13. TaskResult.ids = ids /\ TaskResult.facts = facts
  BY <1>11
<1>14. ids = SegmentIds(Left)
  BY <1>3, <1>4 DEF SegmentIds
<1>15. QED
  BY <1>5, <1>6, <1>7, <1>10, <1>12, <1>13, <1>14

LEMMA FinishTaskShape ==
  ASSUME Shape, Control, FinishTask
  PROVE  Shape' /\ Control'
<1>1. /\ at = "clip" /\ chunk >= 1 /\ chunk \in 1..Len(Chunks) /\ ~ClipsRefused(options.clips)
      /\ returned = {}
      /\ UNCHANGED <<options, cut, misheard, dropped, lost, sink, heard, seen, kept>>
      /\ Tasks' = Tasks /\ Cuts' = Cuts /\ Keeps' = Keeps
  BY DEF FinishTask, Control, Shape, InTask, cutVars, Tasks, Cuts, Keeps
<1>2. PICK result \in ResultSet : result = TaskResult
  BY <1>1, TaskResultFacts
<1>3. [known |-> TRUE, workers |-> <<chunk - 1>>] \in Schedules
  BY <1>1, TaskResultFacts
<1>4. CASE IsChunked
  <2>1. /\ results' = Append(results, result)
        /\ schedule' = MergeSchedules(schedule, [known |-> TRUE, workers |-> <<chunk - 1>>])
        /\ chunk' = chunk + 1 /\ at' = "task" /\ task' = Idle /\ returned' = returned
    BY <1>2, <1>4 DEF FinishTask
  <2>2. results' \in Seq(ResultSet)
    BY <2>1 DEF Shape
  <2>3. schedule' \in Schedules
    BY <1>3, <2>1, SchedulesMerge DEF Shape
  <2>4. task' \in Tasks /\ task'.allocated <= MaxUsize
    BY <2>1, IdleIsATask DEF Shape
  <2>5. Returns'
    BY <1>1, <2>1 DEF Returns
  <2>6. Shape'
    BY <1>1, <2>1, <2>2, <2>3, <2>4, <2>5 DEF Shape
  <2>7. Control'
    BY <1>1, <1>4, <2>1 DEF Control, InTask, InWindow, IsChunked
  <2>8. QED
    BY <2>6, <2>7
<1>5. CASE ~IsChunked
  <2>1. /\ returned' = {result} /\ at' = "end"
        /\ UNCHANGED <<results, schedule, chunk, task>>
    BY <1>2, <1>5 DEF FinishTask
  <2>2. Returns'
    BY <2>1 DEF Returns
  <2>3. Shape'
    BY <1>1, <2>1, <2>2 DEF Shape
  <2>4. Control'
    BY <1>1, <1>5, <2>1 DEF Control, InTask, InWindow, IsChunked
  <2>5. QED
    BY <2>3, <2>4
<1>6. QED
  BY <1>4, <1>5

\* What the call returns of its chunks.
CallResult ==
  [ok |-> TRUE, ids |-> Merged.ids,
   facts |-> [sink EXCEPT !.workerSchedule = schedule, !.decodedSpan = CallSpan]]

LEMMA CallResultFacts ==
  ASSUME Shape
  PROVE  /\ CallResult \in ResultSet /\ CallResult.ids = Merged.ids
         /\ CallResult.facts.decodedSpan = CallSpan
         /\ CallResult.facts.drewFromRng = sink.drewFromRng
         /\ CallResult.facts.earlyStopped = sink.earlyStopped
         /\ CallResult.facts.hadSwallowedError = sink.hadSwallowedError
         /\ CallResult.facts.observedLanguage = sink.observedLanguage
<1>1. results \in Seq(ResultSet) /\ sink \in FactsOf(Languages) /\ schedule \in Schedules
  BY DEF Shape
<1>2. Merged \in MergeSet
  <2>1. Len(results) \in 0..Len(results)
    BY <1>1
  <2>2. QED
    BY <1>1, <2>1, MergedTyped DEF Merged
<1>3. PICK ids \in Seq(Nat) : ids = Merged.ids
  BY <1>2, MergeSetFields
<1>4. PICK span \in Spans : span = CallSpan
  <2>1. Merged.span \in Spans
    BY <1>2, MergeSetFields
  <2>2. Merged.span.bound \in Nat /\ Merged.span.bound <= MaxUsize
    BY <2>1, SpanFields
  <2>3. QED
    BY <2>1, <2>2, SpansOfCounts DEF CallSpan
<1>5. PICK facts : facts = [sink EXCEPT !.workerSchedule = schedule, !.decodedSpan = span]
  OBVIOUS
<1>6. facts \in FactsOf(Languages)
  BY <1>1, <1>5, Zenon DEF FactsOf
<1>7. /\ facts.decodedSpan = span /\ facts.drewFromRng = sink.drewFromRng
      /\ facts.earlyStopped = sink.earlyStopped
      /\ facts.hadSwallowedError = sink.hadSwallowedError
      /\ facts.observedLanguage = sink.observedLanguage
  BY <1>1, <1>5 DEF FactsOf
<1>8. CallResult = [ok |-> TRUE, ids |-> ids, facts |-> facts]
  BY <1>3, <1>4, <1>5, Zenon DEF CallResult
<1>9. CallResult \in ResultSet
  <2>1. TRUE \in {TRUE}
    OBVIOUS
  <2>2. QED
    BY <1>6, <1>8, <2>1, Zenon DEF ResultSet
<1>10. CallResult.ids = ids /\ CallResult.facts = facts
  BY <1>8
<1>11. QED
  BY <1>3, <1>4, <1>7, <1>9, <1>10

LEMMA EndCallShape ==
  ASSUME Shape, Control, EndCall
  PROVE  Shape' /\ Control'
<1>1. /\ at = "task" /\ at' = "end" /\ ~ClipsRefused(options.clips)
      /\ UNCHANGED <<options, cut, misheard, chunk, schedule, dropped, results, lost, task,
                     sink, heard, seen, kept>>
      /\ Tasks' = Tasks /\ Cuts' = Cuts /\ Keeps' = Keeps
  BY DEF EndCall, Control, cutVars, Tasks, Cuts, Keeps
<1>2. returned' = {} \/ returned' = {CallResult}
  BY Zenon DEF EndCall, CallResult
<1>3. CallResult \in ResultSet
  BY CallResultFacts
<1>4. Returns'
  BY <1>2, <1>3 DEF Returns
<1>5. Shape'
  BY <1>1, <1>4 DEF Shape
<1>6. Control'
  BY <1>1 DEF Control, InTask, InWindow, IsChunked
<1>7. QED
  BY <1>5, <1>6

\* The first layer is kept by every step.
LEMMA NextShape ==
  ASSUME Shape, Control, [Next]_vars
  PROVE  Shape' /\ Control'
<1>1. CASE Next
  BY <1>1, RefuseShape, TakeWholeShape, CutChunkShape, NextRangeShape, EndCutShape,
     BeginTaskShape, OpenWindowShape, NextClipShape, FailureShape, AttemptShape,
     FinishWindowShape, SkipWindowShape, FinishTaskShape, EndCallShape, Zenon DEF Next
<1>2. CASE UNCHANGED vars
  <2>1. UNCHANGED <<options, at, cut, misheard, chunk, schedule, dropped, results, returned,
                    lost, task, sink, heard, seen, kept>>
    BY <1>2 DEF vars, callVars, cutVars
  <2>2. Tasks' = Tasks /\ Cuts' = Cuts /\ Keeps' = Keeps /\ (Returns <=> Returns')
    BY <2>1 DEF Tasks, Cuts, Keeps, Returns
  <2>3. Shape'
    BY <2>1, <2>2 DEF Shape
  <2>4. Control'
    BY <2>1 DEF Control, InTask, InWindow, IsChunked, Chunks
  <2>5. QED
    BY <2>3, <2>4
<1>3. QED
  BY <1>1, <1>2

-----------------------------------------------------------------------------
(* What is told of the attempts. *)

\* A dropped chunk tells of an error besides.
LEMMA DropTells ==
  ASSUME NEW facts, NEW known \in SeenSet, TellsOf(facts, known)
  PROVE  TellsOf(MergeFacts(facts, Swallowed), [known EXCEPT !.swallowed = TRUE])
<1>1. known.drew \in BOOLEAN /\ known.stopped \in BOOLEAN /\ known.swallowed \in BOOLEAN
  BY DEF SeenSet
<1>2. /\ Swallowed.drewFromRng = {FALSE} /\ Swallowed.earlyStopped = {FALSE}
      /\ Swallowed.hadSwallowedError = {TRUE} /\ Swallowed.observedLanguage = {}
  BY DEF Swallowed, ObservedClean, Unknown
<1>3. /\ KleeneOr({known.drew}, {FALSE}) = {known.drew}
      /\ KleeneOr({known.stopped}, {FALSE}) = {known.stopped}
      /\ KleeneOr({known.swallowed}, {TRUE}) = {TRUE}
  <2>1. \A p \in BOOLEAN : (p \/ FALSE) = p /\ (p \/ TRUE) = TRUE
    OBVIOUS
  <2>2. \A p \in BOOLEAN : KleeneOr({p}, {FALSE}) = {p} /\ KleeneOr({p}, {TRUE}) = {TRUE}
    BY <2>1, KnownFlags
  <2>3. QED
    BY <1>1, <2>2
<1>4. FirstObserved(known.language, {}) = known.language
  BY DEF FirstObserved
<1>5. QED
  <2>1. /\ MergeFacts(facts, Swallowed).drewFromRng = {known.drew}
        /\ MergeFacts(facts, Swallowed).earlyStopped = {known.stopped}
        /\ MergeFacts(facts, Swallowed).hadSwallowedError = {TRUE}
        /\ MergeFacts(facts, Swallowed).observedLanguage = known.language
    BY <1>2, <1>3, <1>4 DEF MergeFacts, TellsOf
  <2>2. QED
    BY <2>1 DEF TellsOf, SeenSet

\* An attempt's facts tell of the attempt.
LEMMA AttemptTells ==
  ASSUME NEW outcome \in Outcomes, seen \in SeenSet, Tells(sink),
         seen.language = {} => task.observed = {}
  PROVE  TellsOf(SinkAfter(outcome), SeenAfter(outcome))
<1>1. /\ outcome.drew \in BOOLEAN /\ outcome.stopped \in BOOLEAN /\ outcome.swallowed \in BOOLEAN
      /\ ProbeFailed(outcome) \in BOOLEAN
      /\ seen.drew \in BOOLEAN /\ seen.stopped \in BOOLEAN /\ seen.swallowed \in BOOLEAN
  BY OutcomeFields DEF SeenSet, ProbeFailed
<1>2. /\ AttemptFacts(outcome).drewFromRng = {outcome.drew}
      /\ AttemptFacts(outcome).earlyStopped = {outcome.stopped}
      /\ AttemptFacts(outcome).hadSwallowedError = {ProbeFailed(outcome) \/ outcome.swallowed}
      /\ AttemptFacts(outcome).observedLanguage
           = FirstObserved(ObservedByProbe(outcome), outcome.predicted)
  BY DEF AttemptFacts, Unknown
<1>3. /\ SeenAfter(outcome).drew = (seen.drew \/ outcome.drew)
      /\ SeenAfter(outcome).stopped = (seen.stopped \/ outcome.stopped)
      /\ SeenAfter(outcome).swallowed
           = (seen.swallowed \/ ProbeFailed(outcome) \/ outcome.swallowed)
      /\ SeenAfter(outcome).language = FirstObserved(seen.language,
           IF IsGenuine(outcome) THEN {outcome.probe} ELSE outcome.predicted)
  BY DEF SeenAfter
<1>4. /\ KleeneOr({seen.drew}, {outcome.drew}) = {seen.drew \/ outcome.drew}
      /\ KleeneOr({seen.stopped}, {outcome.stopped}) = {seen.stopped \/ outcome.stopped}
  BY <1>1, KnownFlags
<1>5. KleeneOr({seen.swallowed}, {ProbeFailed(outcome) \/ outcome.swallowed})
        = {seen.swallowed \/ ProbeFailed(outcome) \/ outcome.swallowed}
  <2>1. \A p, q \in BOOLEAN : (p \/ q) \in BOOLEAN
    OBVIOUS
  <2>2. (ProbeFailed(outcome) \/ outcome.swallowed) \in BOOLEAN
    BY <1>1, <2>1
  <2>3. \A p, q, r \in BOOLEAN : (p \/ (q \/ r)) = (p \/ q \/ r)
    OBVIOUS
  <2>4. KleeneOr({seen.swallowed}, {ProbeFailed(outcome) \/ outcome.swallowed})
          = {seen.swallowed \/ (ProbeFailed(outcome) \/ outcome.swallowed)}
    BY <1>1, <2>2, KnownFlags
  <2>5. QED
    BY <1>1, <2>3, <2>4
<1>6. FirstObserved(seen.language, FirstObserved(ObservedByProbe(outcome), outcome.predicted))
        = FirstObserved(seen.language,
            IF IsGenuine(outcome) THEN {outcome.probe} ELSE outcome.predicted)
  BY DEF FirstObserved, ObservedByProbe
<1>7. /\ SinkAfter(outcome).drewFromRng = {seen.drew \/ outcome.drew}
      /\ SinkAfter(outcome).earlyStopped = {seen.stopped \/ outcome.stopped}
      /\ SinkAfter(outcome).hadSwallowedError
           = {seen.swallowed \/ ProbeFailed(outcome) \/ outcome.swallowed}
      /\ SinkAfter(outcome).observedLanguage = FirstObserved(seen.language,
           IF IsGenuine(outcome) THEN {outcome.probe} ELSE outcome.predicted)
  BY <1>2, <1>4, <1>5, <1>6 DEF SinkAfter, MergeFacts, Tells, TellsOf
<1>8. QED
  BY <1>3, <1>7 DEF TellsOf

LEMMA FailFacts ==
  ASSUME Shape, Control, FactsAgree, InTask, NEW facts, NEW known \in SeenSet,
         TellsOf(facts, known), known.language = {} => seen.language = {},
         TaskFails(facts, known)
  PROVE  FactsAgree'
<1>1. returned = {}
  BY DEF Control, InTask
<1>2. CASE IsChunked
  <2>1. /\ sink' = MergeFacts(facts, Swallowed) /\ seen' = [known EXCEPT !.swallowed = TRUE]
        /\ task' = Idle /\ returned' = {} /\ options' = options
    BY <1>1, <1>2 DEF TaskFails, cutVars
  <2>2. TellsOf(sink', seen')
    BY <2>1, DropTells
  <2>3. task'.observed = {}
    BY <2>1 DEF Idle
  <2>4. QED
    BY <1>2, <2>1, <2>2, <2>3 DEF FactsAgree, Tells, IsChunked
<1>3. CASE ~IsChunked
  <2>1. /\ sink' = facts /\ seen' = known /\ at' = "end" /\ returned' = {[ok |-> FALSE]}
        /\ task' = task
    BY <1>3 DEF TaskFails, CallFails
  <2>2. QED
    BY <2>1 DEF FactsAgree, Tells, InTask
<1>4. QED
  BY <1>2, <1>3

\* A step that neither decodes nor returns a transcript tells the same.
LEMMA SameFacts ==
  ASSUME FactsAgree, options' = options, UNCHANGED <<sink, seen>>,
         \A r \in returned' : r \in returned \/ ~r.ok,
         task'.observed = task.observed,
         InTask' => InTask, at' \in {"cut", "task"} => at \in {"cut", "task"}
  PROVE  FactsAgree'
BY DEF FactsAgree, Tells, IsChunked

LEMMA LeaveFacts ==
  ASSUME FactsAgree, at = "window", NEW found \in Tasks, found.observed = task.observed,
         LeaveWindow(found)
  PROVE  FactsAgree'
<1>1. /\ UNCHANGED <<options, returned, sink, seen>> /\ at' = "clip"
      /\ task'.observed = found.observed
  BY DEF LeaveWindow, callVars, cutVars, Tasks
<1>2. QED
  BY <1>1, SameFacts DEF InTask

LEMMA AttemptFactsAgree ==
  ASSUME Shape, Control, FactsAgree, NEW outcome \in Outcomes, Attempt(outcome)
  PROVE  FactsAgree'
<1>1. /\ seen \in SeenSet /\ Tells(sink) /\ InTask /\ returned = {}
      /\ task.observed \in Optional(Languages) /\ task.probe \in Optional(Languages)
      /\ seen.language = {} => task.observed = {}
      /\ ~IsChunked => task.observed = seen.language
  BY DEF Shape, Control, FactsAgree, InTask, Attempt, Tasks
<1>2. TellsOf(SinkAfter(outcome), SeenAfter(outcome)) /\ SeenAfter(outcome) \in SeenSet
  BY <1>1, AttemptTells, AttemptFindings
<1>3. SeenAfter(outcome).language = FirstObserved(seen.language,
        IF IsGenuine(outcome) THEN {outcome.probe} ELSE outcome.predicted)
  BY DEF SeenAfter
<1>4. SeenAfter(outcome).language = {} => seen.language = {}
  BY <1>3 DEF FirstObserved
<1>5. CASE outcome.result = "error"
  <2>1. TaskFails(SinkAfter(outcome), SeenAfter(outcome))
    BY <1>5 DEF Attempt
  <2>2. QED
    BY <1>1, <1>2, <1>4, <2>1, FailFacts
<1>6. CASE outcome.result # "error"
  <2>1. /\ sink' = SinkAfter(outcome) /\ seen' = SeenAfter(outcome)
        /\ at' \in {"attempt", "window"} /\ UNCHANGED callVars
        /\ task'.observed = FirstObserved(ObservedByProbe(outcome), outcome.predicted)
    BY <1>6, AttemptParts
  <2>2. options' = options /\ returned' = {}
    BY <1>1, <2>1 DEF callVars, cutVars
  <2>3. task.observed = seen.language => task'.observed = seen'.language
    BY <1>3, <2>1 DEF FirstObserved, ObservedByProbe
  <2>4. seen'.language = {} => task'.observed = {}
    BY <1>1, <1>3, <1>4, <2>1, <2>3 DEF FirstObserved
  <2>5. IsChunked' = IsChunked
    BY <2>2 DEF IsChunked
  <2>6. QED
    BY <1>1, <1>2, <2>1, <2>2, <2>3, <2>4, <2>5 DEF FactsAgree, Tells, InTask
<1>7. QED
  BY <1>5, <1>6

LEMMA FinishTaskFacts ==
  ASSUME Shape, Control, FactsAgree, FinishTask
  PROVE  FactsAgree'
<1>1. /\ at = "clip" /\ InTask /\ chunk >= 1 /\ returned = {}
      /\ UNCHANGED <<options, sink, seen>>
  BY DEF FinishTask, Control, InTask, cutVars
<1>2. CASE IsChunked
  <2>1. task' = Idle /\ returned' = {}
    BY <1>1, <1>2 DEF FinishTask
  <2>2. task'.observed = {}
    BY <2>1 DEF Idle
  <2>3. QED
    BY <1>1, <1>2, <2>1, <2>2 DEF FactsAgree, Tells, IsChunked
<1>3. CASE ~IsChunked
  <2>1. returned' = {TaskResult} /\ at' = "end" /\ task' = task
    BY <1>3 DEF FinishTask
  <2>2. Tells(TaskResult.facts)
    BY <1>1, <1>3, TaskResultFacts DEF FactsAgree, Tells, TellsOf
  <2>3. QED
    BY <1>1, <2>1, <2>2 DEF FactsAgree, Tells, InTask
<1>4. QED
  BY <1>2, <1>3

LEMMA NextFacts ==
  ASSUME Shape, Control, FactsAgree, [Next]_vars
  PROVE  FactsAgree'
<1>1. CASE Refuse
  <2>1. /\ at = "cut" /\ at' = "end" /\ returned' = {[ok |-> FALSE]}
        /\ UNCHANGED <<options, sink, seen, task>>
    BY <1>1 DEF Refuse, CallFails, cutVars
  <2>2. QED
    BY <2>1, SameFacts DEF InTask
<1>2. CASE TakeWhole
  <2>1. at = "cut" /\ at' = "task" /\ UNCHANGED <<options, sink, seen, task, returned>>
    BY <1>2 DEF TakeWhole, BeginTasks
  <2>2. QED
    BY <2>1, SameFacts DEF InTask
<1>3. CASE CutChunk \/ NextRange
  <2>1. UNCHANGED <<options, at, sink, seen, task, returned>>
    BY <1>3 DEF CutChunk, NextRange, CutUnchanged
  <2>2. QED
    BY <2>1, SameFacts DEF InTask
<1>4. CASE EndCut
  <2>1. /\ at = "cut" /\ at' \in {"end", "task"}
        /\ returned' = returned \/ returned' = {[ok |-> FALSE]}
        /\ UNCHANGED <<options, sink, seen, task>>
    BY <1>4 DEF EndCut, IsCutting, BeginTasks, CallFails, cutVars
  <2>2. QED
    BY <2>1, SameFacts DEF InTask
<1>5. CASE BeginTask
  <2>1. at = "task" /\ at' = "clip" /\ UNCHANGED <<options, sink, seen, returned>>
    BY <1>5 DEF BeginTask, callVars, cutVars
  <2>2. task'.observed = {}
    BY <1>5 DEF BeginTask, Idle
  <2>3. QED
    BY <2>1, <2>2 DEF FactsAgree, Tells, InTask, IsChunked
<1>6. CASE OpenWindow \/ NextClip
  <2>1. /\ at = "clip" /\ at' \in {"clip", "attempt"}
        /\ UNCHANGED <<options, sink, seen, returned>>
    BY <1>6 DEF OpenWindow, NextClip, IsInTask, callVars, cutVars
  <2>2. task'.observed = task.observed
    BY <1>6 DEF OpenWindow, NextClip, Shape, Tasks
  <2>3. QED
    BY <2>1, <2>2, SameFacts DEF InTask
<1>7. CASE BackendFails \/ WindowFails
  <2>1. InTask /\ TaskFails(sink, seen) /\ TellsOf(sink, seen) /\ seen \in SeenSet
    BY <1>7 DEF BackendFails, WindowFails, InTask, FactsAgree, Tells, Shape
  <2>2. QED
    BY <2>1, FailFacts
<1>8. CASE \E outcome \in Outcomes : Attempt(outcome)
  BY <1>8, AttemptFactsAgree
<1>9. CASE FinishWindow
  <2>1. PICK found, count, advance, wordEnd, survivors, blank :
          /\ Finishes(found, count, advance, wordEnd, survivors, blank)
          /\ LeaveWindow(found)
    BY <1>9, FinishParts, Zenon
  <2>2. found \in Tasks /\ found.observed = task.observed
    BY <2>1, Zenon DEF Finishes
  <2>3. QED
    BY <1>9, <2>1, <2>2, LeaveFacts DEF FinishWindow
<1>10. CASE SkipWindow
  <2>1. at = "window" /\ InTask
    BY <1>10 DEF SkipWindow, InTask
  <2>2. CASE TaskFails(sink, seen)
    BY <2>1, <2>2, FailFacts DEF Shape, FactsAgree, Tells
  <2>3. CASE LeaveWindow(Skipped)
    BY <2>1, <2>3, SkippedFacts, LeaveFacts
  <2>4. QED
    BY <1>10, <2>2, <2>3 DEF SkipWindow, Skipped
<1>11. CASE FinishTask
  BY <1>11, FinishTaskFacts
<1>12. CASE EndCall
  <2>1. /\ at = "task" /\ at' = "end" /\ UNCHANGED <<options, sink, seen, task>>
        /\ returned' = {} \/ returned' = {CallResult}
    BY <1>12, Zenon DEF EndCall, CallResult, cutVars
  <2>2. Tells(CallResult.facts)
    BY CallResultFacts DEF FactsAgree, Tells, TellsOf
  <2>3. QED
    BY <2>1, <2>2 DEF FactsAgree, Tells, InTask
<1>13. CASE UNCHANGED vars
  <2>1. UNCHANGED <<options, at, sink, seen, task, returned>>
    BY <1>13 DEF vars, callVars, cutVars
  <2>2. QED
    BY <2>1, SameFacts DEF InTask
<1>14. QED
  BY <1>1, <1>2, <1>3, <1>4, <1>5, <1>6, <1>7, <1>8, <1>9, <1>10, <1>11, <1>12, <1>13, Zenon
     DEF Next

-----------------------------------------------------------------------------
(* The probes listed. *)

LEMMA FailLeavesTask ==
  ASSUME NEW facts, NEW known, TaskFails(facts, known)
  PROVE  at' \in {"task", "end"}
BY DEF TaskFails, CallFails

LEMMA LeaveProbes ==
  ASSUME Shape, ProbesAgree, at = "window", NEW found \in Tasks,
         found.observations = task.observations, LeaveWindow(found)
  PROVE  ProbesAgree'
<1>1. /\ task.observations = kept.all /\ task.probe = kept.probe /\ at' = "clip"
      /\ kept \in Keeps
  BY DEF Shape, ProbesAgree, InTask, InWindow, LeaveWindow
<1>2. PICK noted :
        noted = IF task.probe = {} THEN kept.all
                ELSE Append(kept.all, [start |-> task.seek, size |-> task.size,
                              language |-> CHOOSE l \in task.probe : TRUE])
  OBVIOUS
<1>3. task' = [found EXCEPT !.observations = noted] /\ kept' = [kept EXCEPT !.all = noted]
  BY <1>1, <1>2 DEF LeaveWindow
<1>4. task'.observations = noted /\ kept'.all = noted
  BY <1>1, <1>3 DEF Tasks, Keeps
<1>5. QED
  BY <1>1, <1>4 DEF ProbesAgree, InWindow

LEMMA AttemptProbes ==
  ASSUME Shape, Control, ProbesAgree, NEW outcome \in Outcomes, Attempt(outcome)
  PROVE  ProbesAgree'
<1>1. CASE outcome.result = "error"
  <2>1. TaskFails(SinkAfter(outcome), SeenAfter(outcome))
    BY <1>1 DEF Attempt
  <2>2. QED
    BY <2>1, FailLeavesTask DEF ProbesAgree, InTask, InWindow
<1>2. CASE outcome.result # "error"
  <2>1. /\ kept' = [kept EXCEPT !.probe = IF options.detects THEN Probed(outcome) ELSE {}]
        /\ UNCHANGED callVars
        /\ task'.observations = task.observations /\ task'.probe = WindowProbe(outcome)
    BY <1>2, AttemptParts
  <2>2. /\ kept'.probe = (IF options.detects THEN Probed(outcome) ELSE {})
        /\ kept'.all = kept.all /\ options' = options
    BY <2>1 DEF Shape, Keeps, callVars, cutVars
  <2>3. at = "attempt"
    BY DEF Attempt
  <2>4. QED
    BY <2>1, <2>2, <2>3 DEF ProbesAgree, InTask, InWindow, WindowProbe
<1>3. QED
  BY <1>1, <1>2

LEMMA NextProbes ==
  ASSUME Shape, Control, ProbesAgree, [Next]_vars
  PROVE  ProbesAgree'
<1>1. CASE Refuse \/ TakeWhole \/ CutChunk \/ NextRange \/ EndCut \/ FinishTask \/ EndCall
  <2>1. at' \in {"cut", "task", "end"}
    BY <1>1 DEF Refuse, TakeWhole, CutChunk, NextRange, EndCut, FinishTask, EndCall, CallFails,
       BeginTasks, CutUnchanged, IsCutting
  <2>2. QED
    BY <2>1 DEF ProbesAgree, InTask, InWindow
<1>2. CASE BeginTask
  BY <1>2 DEF BeginTask, Idle, ProbesAgree, InWindow
<1>3. CASE OpenWindow
  <2>1. /\ at = "clip" /\ task' = [task EXCEPT !.first = FALSE, !.size = WindowSize,
                                     !.attempt = 0, !.probe = {}]
        /\ kept' = [kept EXCEPT !.probe = {}]
    BY <1>3 DEF OpenWindow, IsInTask
  <2>2. /\ task'.probe = {} /\ kept'.probe = {}
        /\ task'.observations = task.observations /\ kept'.all = kept.all
    BY <2>1 DEF Shape, Tasks, Keeps
  <2>3. QED
    BY <2>1, <2>2 DEF ProbesAgree, InTask
<1>4. CASE NextClip
  <2>1. at = "clip" /\ at' = "clip" /\ kept' = kept
    BY <1>4 DEF NextClip, IsInTask
  <2>2. task'.observations = task.observations
    BY <1>4 DEF NextClip, Shape, Tasks
  <2>3. QED
    BY <2>1, <2>2 DEF ProbesAgree, InTask, InWindow
<1>5. CASE BackendFails \/ WindowFails
  <2>1. at' \in {"task", "end"}
    BY <1>5, FailLeavesTask DEF BackendFails, WindowFails
  <2>2. QED
    BY <2>1 DEF ProbesAgree, InTask, InWindow
<1>6. CASE \E outcome \in Outcomes : Attempt(outcome)
  BY <1>6, AttemptProbes
<1>7. CASE FinishWindow
  <2>1. PICK found, count, advance, wordEnd, survivors, blank :
          /\ Finishes(found, count, advance, wordEnd, survivors, blank)
          /\ LeaveWindow(found)
    BY <1>7, FinishParts, Zenon
  <2>2. found \in Tasks /\ found.observations = task.observations
    BY <2>1, Zenon DEF Finishes
  <2>3. QED
    BY <1>7, <2>1, <2>2, LeaveProbes DEF FinishWindow
<1>8. CASE SkipWindow
  <2>1. CASE TaskFails(sink, seen)
    <3>1. at' \in {"task", "end"}
      BY <2>1, FailLeavesTask
    <3>2. QED
      BY <3>1 DEF ProbesAgree, InTask, InWindow
  <2>2. CASE LeaveWindow(Skipped)
    BY <1>8, <2>2, SkippedFacts, LeaveProbes DEF SkipWindow
  <2>3. QED
    BY <1>8, <2>1, <2>2 DEF SkipWindow, Skipped
<1>9. CASE UNCHANGED vars
  BY <1>9 DEF vars, callVars, cutVars, ProbesAgree, InTask, InWindow
<1>10. QED
  BY <1>1, <1>2, <1>3, <1>4, <1>5, <1>6, <1>7, <1>8, <1>9, Zenon DEF Next

-----------------------------------------------------------------------------
(* The ids given. *)

LEMMA JoinFacts ==
  ASSUME NEW a \in Seq(Nat), NEW b \in Seq(Nat), NEW m \in Nat, NEW bound \in Nat
  PROVE  /\ Below(a, bound) /\ Below(b, bound) => Below(a \o b, bound)
         /\ Below(a, m) /\ Rising(a) /\ Rising(b) /\ (\A i \in 1..Len(b) : b[i] >= m)
              => Rising(a \o b)
<1>1. /\ a \o b \in Seq(Nat) /\ Len(a \o b) = Len(a) + Len(b)
      /\ Len(a) \in Nat /\ Len(b) \in Nat
      /\ \A i \in 1..Len(a) : (a \o b)[i] = a[i] /\ a[i] \in Nat
      /\ \A i \in (Len(a) + 1)..(Len(a) + Len(b)) :
           /\ i - Len(a) \in 1..Len(b)
           /\ (a \o b)[i] = b[i - Len(a)] /\ b[i - Len(a)] \in Nat
  BY ConcatenationFacts
<1> DEFINE c == a \o b
<1> HIDE DEF c
<1>2. \A i \in 1..Len(c) : i \in 1..Len(a) \/ i \in (Len(a) + 1)..(Len(a) + Len(b))
  BY <1>1 DEF c
<1>3. ASSUME Below(a, bound), Below(b, bound) PROVE Below(c, bound)
  <2>1. ASSUME NEW i \in 1..Len(c) PROVE c[i] < bound
    <3>1. CASE i \in 1..Len(a)
      BY <1>1, <1>3, <3>1 DEF c, Below
    <3>2. CASE i \in (Len(a) + 1)..(Len(a) + Len(b))
      <4>1. i - Len(a) \in 1..Len(b) /\ c[i] = b[i - Len(a)]
        BY <1>1, <3>2 DEF c
      <4>2. QED
        BY <1>3, <4>1 DEF Below
    <3>3. QED
      BY <1>2, <3>1, <3>2
  <2>2. QED
    BY <2>1 DEF Below
<1>4. ASSUME Below(a, m), Rising(a), Rising(b), \A i \in 1..Len(b) : b[i] >= m
      PROVE  Rising(c)
  <2>1. ASSUME NEW i \in 1..Len(c), NEW j \in 1..Len(c), i < j
        PROVE  c[i] < c[j]
    <3>1. CASE j \in 1..Len(a)
      <4>1. i \in 1..Len(a)
        BY <2>1, <3>1
      <4>2. QED
        BY <1>1, <1>4, <2>1, <3>1, <4>1 DEF c, Rising
    <3>2. CASE j \in (Len(a) + 1)..(Len(a) + Len(b))
      <4>1. j - Len(a) \in 1..Len(b) /\ c[j] = b[j - Len(a)] /\ c[j] \in Nat /\ c[j] >= m
        BY <1>1, <1>4, <3>2 DEF c
      <4>2. CASE i \in 1..Len(a)
        <5>1. c[i] = a[i] /\ a[i] \in Nat /\ a[i] < m
          BY <1>1, <1>4, <4>2 DEF c, Below
        <5>2. \A x, y, z \in Nat : x < y /\ z >= y => x < z
          OBVIOUS
        <5>3. QED
          BY <4>1, <5>1, <5>2, Zenon
      <4>3. CASE i \in (Len(a) + 1)..(Len(a) + Len(b))
        <5>1. i - Len(a) \in 1..Len(b) /\ c[i] = b[i - Len(a)] /\ i - Len(a) < j - Len(a)
          BY <1>1, <2>1, <4>3 DEF c
        <5>2. QED
          BY <1>4, <4>1, <5>1 DEF Rising
      <4>4. QED
        BY <1>2, <4>2, <4>3
    <3>3. QED
      BY <1>2, <3>1, <3>2
  <2>2. QED
    BY <2>1 DEF Rising
<1>5. QED
  BY <1>3, <1>4 DEF c

LEMMA SegmentIdsFacts ==
  ASSUME NEW s \in Seq(Segment)
  PROVE  /\ SegmentIds(s) \in Seq(Nat) /\ Len(SegmentIds(s)) = Len(s)
         /\ \A i \in 1..Len(s) : SegmentIds(s)[i] = s[i].id
<1>1. PICK n \in Nat : n = Len(s)
  OBVIOUS
<1>2. \A i \in 1..n : s[i] \in Segment
  BY <1>1
<1>3. \A i \in 1..n : s[i].id \in Nat
  BY <1>2 DEF Segment
<1>4. SegmentIds(s) = [i \in 1..n |-> s[i].id]
  BY <1>1 DEF SegmentIds
<1>5. QED
  BY <1>1, <1>3, <1>4

LEMMA JoinedIds ==
  ASSUME NEW s \in Seq(Segment), NEW t \in Seq(Segment)
  PROVE  SegmentIds(s \o t) = SegmentIds(s) \o SegmentIds(t)
<1> DEFINE a == SegmentIds(s)
           b == SegmentIds(t)
           c == SegmentIds(s \o t)
<1>1. /\ a \in Seq(Nat) /\ Len(a) = Len(s) /\ \A i \in 1..Len(s) : a[i] = s[i].id
      /\ b \in Seq(Nat) /\ Len(b) = Len(t) /\ \A i \in 1..Len(t) : b[i] = t[i].id
  BY SegmentIdsFacts
<1>2. /\ s \o t \in Seq(Segment) /\ Len(s \o t) = Len(s) + Len(t)
      /\ \A i \in 1..Len(s) : (s \o t)[i] = s[i]
      /\ \A i \in (Len(s) + 1)..(Len(s) + Len(t)) :
           i - Len(s) \in 1..Len(t) /\ (s \o t)[i] = t[i - Len(s)]
  BY ConcatenationFacts
<1>3. /\ c \in Seq(Nat) /\ Len(c) = Len(s) + Len(t)
      /\ \A i \in 1..(Len(s) + Len(t)) : c[i] = (s \o t)[i].id
  <2>1. /\ c \in Seq(Nat) /\ Len(c) = Len(s \o t)
        /\ \A i \in 1..Len(s \o t) : c[i] = (s \o t)[i].id
    BY <1>2, SegmentIdsFacts
  <2>2. QED
    BY <1>2, <2>1
<1> HIDE DEF a, b, c
<1>4. /\ a \o b \in Seq(Nat) /\ Len(a \o b) = Len(a) + Len(b)
      /\ \A i \in 1..Len(a) : (a \o b)[i] = a[i]
      /\ \A i \in (Len(a) + 1)..(Len(a) + Len(b)) :
           i - Len(a) \in 1..Len(b) /\ (a \o b)[i] = b[i - Len(a)]
  <2>1. a \in Seq(Nat) /\ b \in Seq(Nat)
    BY <1>1
  <2>2. QED
    BY <2>1, ConcatenationFacts
<1>5. Len(c) = Len(a \o b) /\ Len(s) \in Nat /\ Len(t) \in Nat
  BY <1>1, <1>3, <1>4
<1>6. ASSUME NEW i \in 1..Len(c) PROVE c[i] = (a \o b)[i]
  <2>0. i \in 1..(Len(s) + Len(t)) /\ c[i] = (s \o t)[i].id
    BY <1>3
  <2>1. CASE i \in 1..Len(s)
    BY <1>1, <1>2, <1>4, <2>0, <2>1
  <2>2. CASE i \in (Len(s) + 1)..(Len(s) + Len(t))
    <3>1. i - Len(s) \in 1..Len(t) /\ (s \o t)[i] = t[i - Len(s)]
      BY <1>2, <2>2
    <3>2. (a \o b)[i] = b[i - Len(s)]
      BY <1>1, <1>4, <2>2
    <3>3. QED
      BY <1>1, <2>0, <3>1, <3>2
  <2>3. QED
    BY <1>5, <2>0, <2>1, <2>2
<1>7. c \in Seq(Nat) /\ a \o b \in Seq(Nat)
  BY <1>3, <1>4
<1>8. c = a \o b
  <2>1. \A u, v \in Seq(Nat) : Len(u) = Len(v) /\ (\A i \in 1..Len(u) : u[i] = v[i]) => u = v
    OBVIOUS
  <2>2. QED
    BY <1>5, <1>6, <1>7, <2>1, Zenon
<1>9. QED
  BY <1>8 DEF a, b, c

\* The ids of a window's slices rise from its base, one per slice decoded.
LEMMA SlicesIds ==
  ASSUME task.base \in Nat, NEW count \in Nat, NEW survivors, survivors \in SUBSET (1..count),
         NEW blank
  PROVE  LET ids == SegmentIds(Slices(survivors, blank))
         IN  /\ ids \in Seq(Nat) /\ Rising(ids) /\ Below(ids, task.base + count)
             /\ \A i \in 1..Len(ids) : ids[i] >= task.base
<1> DEFINE n == Cardinality(survivors)
           ids == SegmentIds(Slices(survivors, blank))
<1>1. /\ n \in 0..count /\ \A k \in 1..n : Nth(survivors, k) \in survivors
      /\ \A k, l \in 1..n : k < l => Nth(survivors, k) < Nth(survivors, l)
  BY NthRises
<1>2. /\ Slices(survivors, blank) \in Seq(Segment) /\ Len(Slices(survivors, blank)) = n
      /\ \A i \in 1..n : Slices(survivors, blank)[i].id = task.base + Nth(survivors, i) - 1
  BY SlicesFacts
<1>3. /\ ids \in Seq(Nat) /\ Len(ids) = n
      /\ \A i \in 1..n : ids[i] = task.base + Nth(survivors, i) - 1
  <2>1. /\ ids \in Seq(Nat) /\ Len(ids) = Len(Slices(survivors, blank))
        /\ \A i \in 1..Len(Slices(survivors, blank)) : ids[i] = Slices(survivors, blank)[i].id
    BY <1>2, SegmentIdsFacts
  <2>2. QED
    BY <1>2, <2>1
<1> HIDE DEF n, ids
<1>4. \A k \in 1..n : Nth(survivors, k) \in 1..count
  BY <1>1
<1>5. \A i \in 1..n : ids[i] >= task.base /\ ids[i] < task.base + count
  BY <1>3, <1>4
<1>6. \A i, j \in 1..n : i < j => ids[i] < ids[j]
  BY <1>1, <1>3, <1>4
<1>7. ids \in Seq(Nat) /\ Rising(ids) /\ Below(ids, task.base + count)
      /\ \A i \in 1..Len(ids) : ids[i] >= task.base
  BY <1>3, <1>5, <1>6 DEF Rising, Below
<1>8. QED
  BY <1>7 DEF ids

\* What is left of rising ids rises, below the same bound.
LEMMA LeftIds ==
  ASSUME task.segments \in Seq(Segment), NEW bound \in Nat
  PROVE  /\ SegmentIds(Left) \in Seq(Nat)
         /\ Below(SegmentIds(task.segments), bound) => Below(SegmentIds(Left), bound)
         /\ Rising(SegmentIds(task.segments)) => Rising(SegmentIds(Left))
<1> DEFINE s == task.segments
           idx == {i \in DOMAIN s : ~s[i].blank}
           n == Cardinality(idx)
           ids == SegmentIds(s)
<1>1. /\ ids \in Seq(Nat) /\ Len(ids) = Len(s) /\ \A i \in 1..Len(s) : ids[i] = s[i].id
  BY SegmentIdsFacts
<1>2. Left \in Seq(Segment)
  BY LeftFacts
<1>3. /\ SegmentIds(Left) \in Seq(Nat) /\ Len(SegmentIds(Left)) = Len(Left)
      /\ \A i \in 1..Len(Left) : SegmentIds(Left)[i] = Left[i].id
  BY <1>2, SegmentIdsFacts
<1>4. CASE ~options.dropBlank
  BY <1>3, <1>4 DEF Left
<1>5. CASE options.dropBlank
  <2>1. PICK size \in Nat : size = Len(s)
    OBVIOUS
  <2>2. DOMAIN s = 1..size
    BY <2>1
  <2>3. idx \in SUBSET (1..size)
    BY <2>2
  <2>4. Left = At(s, idx)
    BY <1>5 DEF Left, DropBlankAudioSegments
  <2> HIDE DEF idx
  <2>5. /\ n \in 0..size /\ \A k \in 1..n : Nth(idx, k) \in idx
        /\ \A k, l \in 1..n : k < l => Nth(idx, k) < Nth(idx, l)
    BY <2>1, <2>3, NthRises
  <2>6. Len(Left) = n /\ \A k \in 1..n : Left[k] = s[Nth(idx, k)]
    <3>1. n \in Nat
      BY <2>5
    <3>2. QED
      BY <2>4, <3>1 DEF At
  <2>7. \A k \in 1..n : Nth(idx, k) \in 1..Len(s)
    BY <2>1, <2>3, <2>5
  <2>8. \A k \in 1..n : SegmentIds(Left)[k] = ids[Nth(idx, k)]
    BY <1>1, <1>3, <2>6, <2>7
  <2> HIDE DEF n, ids
  <2>9. Below(ids, bound) => Below(SegmentIds(Left), bound)
    BY <1>1, <1>3, <2>6, <2>7, <2>8 DEF Below
  <2>10. Rising(ids) => Rising(SegmentIds(Left))
    <3>1. Len(SegmentIds(Left)) = n /\ Len(ids) = Len(s)
      BY <1>1, <1>3, <2>6
    <3>2. ASSUME Rising(ids), NEW k \in 1..n, NEW l \in 1..n, k < l
          PROVE  SegmentIds(Left)[k] < SegmentIds(Left)[l]
      <4>1. /\ Nth(idx, k) \in 1..Len(ids) /\ Nth(idx, l) \in 1..Len(ids)
            /\ Nth(idx, k) < Nth(idx, l)
        BY <2>5, <2>7, <3>1, <3>2
      <4>2. ids[Nth(idx, k)] < ids[Nth(idx, l)]
        BY <3>2, <4>1, Zenon DEF Rising
      <4>3. QED
        BY <2>8, <4>2
    <3>3. QED
      BY <3>1, <3>2 DEF Rising
  <2>11. QED
    BY <1>3, <2>9, <2>10 DEF ids
<1>6. QED
  BY <1>4, <1>5

\* A run that has decoded nothing has given no id.
LEMMA IdleIds ==
  ASSUME task'.segments = <<>>, task'.base = 0, task'.allocated = 0,
         UNCHANGED <<options, results>>, IdsAgree,
         \A r \in returned' : ~r.ok
  PROVE  IdsAgree'
<1>1. SegmentIds(task.segments)' = SegmentIds(<<>>)
  BY DEF SegmentIds
<1>2. Below(SegmentIds(<<>>), 0) /\ Rising(SegmentIds(<<>>))
  BY DEF SegmentIds, Below, Rising
<1>3. QED
  BY <1>1, <1>2 DEF IdsAgree

\* A step that decodes nothing and returns no transcript gives no id.
LEMMA SameIds ==
  ASSUME IdsAgree, task'.segments = task.segments, task'.base = task.base,
         task'.allocated = task.allocated, UNCHANGED <<options, results, dropped>>,
         \A r \in returned' : r \in returned \/ ~r.ok
  PROVE  IdsAgree'
<1>1. SegmentIds(task.segments)' = SegmentIds(task.segments)
  BY DEF SegmentIds
<1>2. IsChunked' = IsChunked
  BY DEF IsChunked
<1>3. QED
  BY <1>1, <1>2 DEF IdsAgree

LEMMA FailIds ==
  ASSUME Shape, Control, IdsAgree, InTask, NEW facts, NEW known, TaskFails(facts, known)
  PROVE  IdsAgree'
<1>1. returned = {}
  BY DEF Control, InTask
<1>2. CASE IsChunked
  <2>1. /\ task' = Idle /\ returned' = {} /\ UNCHANGED <<options, results>>
    BY <1>1, <1>2 DEF TaskFails, cutVars
  <2>2. task'.segments = <<>> /\ task'.base = 0 /\ task'.allocated = 0
    BY <2>1 DEF Idle
  <2>3. QED
    BY <2>1, <2>2, IdleIds
<1>3. CASE ~IsChunked
  <2>1. /\ task' = task /\ returned' = {[ok |-> FALSE]}
        /\ UNCHANGED <<options, results, dropped>>
    BY <1>3 DEF TaskFails, CallFails, cutVars
  <2>2. QED
    BY <2>1, SameIds
<1>4. QED
  BY <1>2, <1>3

\* A window whose slices fit the id space gives the next ids of it.
LEMMA FittingIds ==
  ASSUME Shape, Control, IdsAgree, at = "window", NEW found \in Tasks,
         NEW count \in Nat, NEW survivors, survivors \in SUBSET (1..count), NEW blank,
         found.allocated = task.allocated + count,
         found.base = task.base + (IF options.dropBlank THEN count ELSE Cardinality(survivors)),
         found.segments = task.segments \o Slices(survivors, blank),
         LeaveWindow(found)
  PROVE  IdsAgree'
<1>1. /\ returned = {} /\ UNCHANGED <<options, results, dropped, returned>>
      /\ task'.segments = found.segments /\ task'.base = found.base
      /\ task'.allocated = found.allocated
  BY DEF LeaveWindow, callVars, cutVars, Tasks, Control
<1>2. /\ task.base \in Nat /\ task.allocated \in Nat /\ task.segments \in Seq(Segment)
      /\ task.base <= task.allocated /\ Below(SegmentIds(task.segments), task.allocated)
      /\ options.dropBlank => task.base = task.allocated /\ Rising(SegmentIds(task.segments))
  BY DEF Shape, Tasks, IdsAgree
<1> DEFINE old == SegmentIds(task.segments)
           new == SegmentIds(Slices(survivors, blank))
<1>3. /\ new \in Seq(Nat) /\ Rising(new) /\ Below(new, task.base + count)
      /\ \A i \in 1..Len(new) : new[i] >= task.base
  BY <1>2, SlicesIds
<1>4. old \in Seq(Nat)
  BY <1>2, SegmentIdsFacts
<1>5. SegmentIds(found.segments) = old \o new
  <2>1. Slices(survivors, blank) \in Seq(Segment)
    BY <1>2, SlicesFacts
  <2>2. QED
    BY <1>2, <2>1, JoinedIds
<1> HIDE DEF old, new
<1>6. PICK bound \in Nat : bound = task.allocated + count
  BY <1>2
<1>7. Below(old, bound) /\ Below(new, bound)
  <2>1. ASSUME NEW i \in 1..Len(old) PROVE old[i] < bound
    <3>1. old[i] \in Nat /\ old[i] < task.allocated
      BY <1>2, <1>4 DEF old, Below
    <3>2. QED
      BY <1>2, <1>6, <3>1
  <2>2. ASSUME NEW i \in 1..Len(new) PROVE new[i] < bound
    <3>1. new[i] \in Nat /\ new[i] < task.base + count
      BY <1>3 DEF Below
    <3>2. QED
      BY <1>2, <1>6, <3>1
  <2>3. QED
    BY <2>1, <2>2 DEF Below
<1>8. Below(old \o new, bound)
  BY <1>2, <1>3, <1>4, <1>7, JoinFacts
<1>9. options.dropBlank => Rising(old \o new)
  BY <1>2, <1>3, <1>4, <1>6, JoinFacts DEF old
<1>10. Cardinality(survivors) <= count /\ Cardinality(survivors) \in Nat
  BY NthRises
<1>11. task'.base <= task'.allocated /\ (options.dropBlank => task'.base = task'.allocated)
  BY <1>1, <1>2, <1>10
<1>12. SegmentIds(task.segments)' = old \o new /\ task'.allocated = bound
  BY <1>1, <1>5, <1>6 DEF SegmentIds
<1>13. QED
  BY <1>1, <1>8, <1>9, <1>11, <1>12 DEF IdsAgree

\* One that leaves nothing gives none.
LEMMA NoIds ==
  ASSUME Shape, Control, IdsAgree, at = "window", NEW found \in Tasks,
         NEW count \in Nat, NEW blank,
         found.allocated = Saturate(task.allocated + count),
         found.base = Saturate(task.base + (IF options.dropBlank THEN count ELSE 0)),
         found.segments = task.segments \o Slices({}, blank),
         LeaveWindow(found)
  PROVE  IdsAgree'
<1>1. /\ returned = {} /\ UNCHANGED <<options, results, dropped, returned>>
      /\ task'.segments = found.segments /\ task'.base = found.base
      /\ task'.allocated = found.allocated
  BY DEF LeaveWindow, callVars, cutVars, Tasks, Control
<1>2. /\ task.base \in Nat /\ task.allocated \in Nat /\ task.segments \in Seq(Segment)
      /\ task.allocated <= MaxUsize /\ MaxUsize \in Nat
      /\ task.base <= task.allocated /\ Below(SegmentIds(task.segments), task.allocated)
      /\ options.dropBlank => task.base = task.allocated /\ Rising(SegmentIds(task.segments))
  BY MaxUsizeAssumption DEF Shape, Tasks, IdsAgree
<1>3. task'.segments = task.segments
  <2>1. {} \in SUBSET (1..count) /\ Cardinality({}) = 0
    BY FS_EmptySet
  <2>2. Slices({}, blank) \in Seq(Segment) /\ Len(Slices({}, blank)) = 0
    BY <1>2, <2>1, SlicesFacts
  <2>3. \A s, t \in Seq(Segment) : Len(t) = 0 => s \o t = s
    OBVIOUS
  <2>4. QED
    BY <1>1, <1>2, <2>2, <2>3, Zenon
<1>4. /\ task'.allocated \in Nat /\ task'.allocated >= task.allocated
      /\ task'.base <= task'.allocated /\ (options.dropBlank => task'.base = task'.allocated)
  BY <1>1, <1>2 DEF Saturate
<1>5. Below(SegmentIds(task.segments), task'.allocated)
  <2>1. SegmentIds(task.segments) \in Seq(Nat)
    BY <1>2, SegmentIdsFacts
  <2>2. \A i \in 1..Len(SegmentIds(task.segments)) : SegmentIds(task.segments)[i] \in Nat
    BY <2>1
  <2> DEFINE ids == SegmentIds(task.segments)
  <2> HIDE DEF ids
  <2>3. ASSUME NEW i \in 1..Len(ids) PROVE ids[i] < task'.allocated
    <3>1. ids[i] \in Nat /\ ids[i] < task.allocated
      BY <1>2, <2>2 DEF ids, Below
    <3>2. QED
      BY <1>2, <1>4, <3>1
  <2>4. QED
    BY <2>3 DEF ids, Below
<1>6. SegmentIds(task.segments)' = SegmentIds(task.segments) /\ IsChunked' = IsChunked
  BY <1>1, <1>3 DEF SegmentIds, IsChunked
<1>7. QED
  BY <1>1, <1>2, <1>4, <1>5, <1>6 DEF IdsAgree

LEMMA LeaveIds ==
  ASSUME Shape, Control, IdsAgree, at = "window", NEW found \in Tasks,
         NEW count \in Nat, NEW survivors, survivors \in SUBSET (1..count), NEW blank,
         HasIds(count, survivors), found.allocated = Saturate(task.allocated + count),
         found.base = Saturate(task.base
                        + (IF options.dropBlank THEN count ELSE Cardinality(survivors))),
         found.segments = task.segments \o Slices(survivors, blank),
         LeaveWindow(found)
  PROVE  IdsAgree'
<1>1. CASE survivors = {}
  <2>1. Cardinality(survivors) = 0
    BY <1>1, FS_EmptySet
  <2>2. QED
    BY <1>1, <2>1, NoIds, Zenon
<1>2. CASE task.allocated + count <= MaxUsize
  <2>1. Cardinality(survivors) \in Nat /\ Cardinality(survivors) <= count
    BY NthRises
  <2>2. PICK more \in Nat :
          /\ more = IF options.dropBlank THEN count ELSE Cardinality(survivors)
          /\ more <= count
    BY <2>1
  <2>3. task.base \in Nat /\ task.allocated \in Nat /\ task.base <= task.allocated
    BY DEF Shape, Tasks, IdsAgree
  <2>4. /\ Saturate(task.allocated + count) = task.allocated + count
        /\ Saturate(task.base + more) = task.base + more
    BY <1>2, <2>2, <2>3, MaxUsizeAssumption DEF Saturate
  <2>5. /\ found.allocated = task.allocated + count
        /\ found.base
             = task.base + (IF options.dropBlank THEN count ELSE Cardinality(survivors))
    BY <2>2, <2>4, Zenon
  <2>6. QED
    BY <2>5, FittingIds, Zenon
<1>3. QED
  BY <1>1, <1>2 DEF HasIds

LEMMA FinishTaskIds ==
  ASSUME Shape, Control, IdsAgree, FinishTask
  PROVE  IdsAgree'
<1>1. /\ chunk >= 1 /\ InTask /\ returned = {} /\ task.segments \in Seq(Segment)
      /\ task.allocated \in Nat /\ UNCHANGED <<options, dropped>>
      /\ ~IsChunked => dropped = {}
      /\ Below(SegmentIds(task.segments), task.allocated)
      /\ options.dropBlank => Rising(SegmentIds(task.segments))
      /\ results \in Seq(ResultSet)
  BY DEF Shape, Control, IdsAgree, FinishTask, InTask, Tasks, cutVars
<1>2. PICK result \in ResultSet :
        /\ result = TaskResult /\ result.ids = SegmentIds(Left)
        /\ result.facts.decodedSpan = Exact(task.allocated)
  BY <1>1, TaskResultFacts
<1>3. Below(result.ids, result.facts.decodedSpan.bound) /\ (options.dropBlank => Rising(result.ids))
  BY <1>1, <1>2, LeftIds DEF Exact
<1>4. CASE IsChunked
  <2>1. results' = Append(results, result) /\ task' = Idle /\ returned' = {}
    BY <1>1, <1>2, <1>4 DEF FinishTask
  <2>2. task'.segments = <<>> /\ task'.base = 0 /\ task'.allocated = 0
    BY <2>1 DEF Idle
  <2>3. SegmentIds(task.segments)' = SegmentIds(<<>>)
    BY <2>2 DEF SegmentIds
  <2>4. Below(SegmentIds(<<>>), 0) /\ Rising(SegmentIds(<<>>))
    BY DEF SegmentIds, Below, Rising
  <2>5. \A k \in 1..Len(results') : results'[k] = result \/ (k \in 1..Len(results) /\ results'[k] = results[k])
    BY <1>1, <2>1
  <2>6. options.dropBlank => \A k \in 1..Len(results') :
          /\ Rising(results'[k].ids)
          /\ Below(results'[k].ids, results'[k].facts.decodedSpan.bound)
    BY <1>3, <2>5 DEF IdsAgree
  <2>7. QED
    BY <1>1, <2>1, <2>2, <2>3, <2>4, <2>6 DEF IdsAgree
<1>5. CASE ~IsChunked
  <2>1. returned' = {result} /\ task' = task /\ results' = results
    BY <1>2, <1>5 DEF FinishTask
  <2>2. SegmentIds(task.segments)' = SegmentIds(task.segments)
    BY <2>1 DEF SegmentIds
  <2>3. QED
    BY <1>1, <1>3, <1>5, <2>1, <2>2 DEF IdsAgree
<1>6. QED
  BY <1>4, <1>5

\* While the id space lasts the ids of the children stay apart: those of one
\* lie from the bound of those before it to its own.
LEMMA MergedIds ==
  ASSUME results \in Seq(ResultSet), options.dropBlank,
         \A k \in 1..Len(results) :
           /\ Rising(results[k].ids)
           /\ Below(results[k].ids, results[k].facts.decodedSpan.bound)
  PROVE  Merged.fits => Rising(Merged.ids) /\ Below(Merged.ids, Merged.span.bound)
<1> DEFINE n == Len(results)
           Good == {k \in Nat : k <= n /\ MergedUpTo[k].fits =>
                      Rising(MergedUpTo[k].ids) /\ Below(MergedUpTo[k].ids, MergedUpTo[k].span.bound)}
<1>1. n \in Nat /\ \A k \in 1..n : results[k] \in ResultSet
  OBVIOUS
<1>2. /\ MergedUpTo[0] = MergeStart
      /\ \A k \in 1..n : MergedUpTo[k] = MergeOne(MergedUpTo[k - 1], k - 1, results[k])
  BY MergeTakesEach
<1>3. \A k \in 0..n : MergedUpTo[k] \in MergeSet
  BY MergedTyped
<1>4. Merged = MergedUpTo[n]
  BY DEF Merged
<1>5. \A k \in 1..n : /\ Rising(results[k].ids)
                      /\ Below(results[k].ids, results[k].facts.decodedSpan.bound)
  OBVIOUS
<1> HIDE DEF n
<1>6. 0 \in Good
  BY <1>2 DEF MergeStart, Rising, Below
<1>7. ASSUME NEW i \in 0..(n - 1), i \in Good
      PROVE  i + 1 \in Good
  <2>1. i \in 0..n /\ i + 1 \in 1..n /\ i + 1 - 1 = i /\ i \in Nat
    BY <1>1
  <2>2. PICK merged \in MergeSet : merged = MergedUpTo[i]
    BY <1>3, <2>1
  <2>3. PICK result \in ResultSet : result = results[i + 1]
    BY <1>1, <2>1
  <2>4. MergedUpTo[i + 1] = MergeOne(merged, i, result)
    BY <1>2, <2>1, <2>2, <2>3
  <2>5. SUFFICES ASSUME MergedUpTo[i + 1].fits
                 PROVE  /\ Rising(MergedUpTo[i + 1].ids)
                        /\ Below(MergedUpTo[i + 1].ids, MergedUpTo[i + 1].span.bound)
    BY <2>1
  <2>6. /\ merged.fits /\ merged.span.bound + result.facts.decodedSpan.bound <= MaxUsize
        /\ MergedUpTo[i + 1].ids = merged.ids \o Renumbered(merged, i, result.ids)
        /\ MergedUpTo[i + 1].span = MergeSpans(merged.span, result.facts.decodedSpan)
    <3>1. /\ MergeOne(merged, i, result).ids = merged.ids \o Renumbered(merged, i, result.ids)
          /\ MergeOne(merged, i, result).span = MergeSpans(merged.span, result.facts.decodedSpan)
          /\ MergeOne(merged, i, result).fits
               = (merged.fits /\ merged.span.bound + result.facts.decodedSpan.bound <= MaxUsize)
      BY DEF MergeOne
    <3>2. MergeOne(merged, i, result).fits
      BY <2>4, <2>5
    <3>3. QED
      BY <2>4, <3>1, <3>2, Zenon
  <2>7. Rising(merged.ids) /\ Below(merged.ids, merged.span.bound)
    <3>1. i <= n
      BY <1>1
    <3>2. QED
      BY <1>7, <2>2, <2>6, <3>1
  <2>8. /\ merged.ids \in Seq(Nat) /\ merged.span \in Spans
        /\ result.ids \in Seq(Nat) /\ result.facts.decodedSpan \in Spans
    BY MergeSetFields, ResultFields
  <2>9. PICK low, size \in Nat :
          low = merged.span.bound /\ size = result.facts.decodedSpan.bound
    BY <2>8, SpanFields
  <2>10. MergedUpTo[i + 1].span.bound = low + size
    <3>1. MergeSpans(merged.span, result.facts.decodedSpan).bound
            = merged.span.bound + result.facts.decodedSpan.bound
      BY <2>6, <2>8, SpansMerge, Zenon
    <3>2. MergedUpTo[i + 1].span.bound = MergeSpans(merged.span, result.facts.decodedSpan).bound
      BY <2>6, Zenon
    <3>3. merged.span.bound + result.facts.decodedSpan.bound = low + size
      BY <2>9
    <3>4. QED
      BY <3>1, <3>2, <3>3, Zenon
  <2>11. PICK new \in Seq(Nat) :
           /\ new = Renumbered(merged, i, result.ids) /\ Len(new) = Len(result.ids)
           /\ \A j \in 1..Len(result.ids) : new[j] = low + result.ids[j]
    <3>1. PICK given \in Seq(Nat) : given = result.ids
      BY <2>8
    <3>2. /\ Renumbered(merged, i, given) \in Seq(Nat)
          /\ Len(Renumbered(merged, i, given)) = Len(given)
          /\ \A j \in 1..Len(given) : Renumbered(merged, i, given)[j] = merged.span.bound + given[j]
      BY <2>1, RenumberedFacts
    <3>3. \A j \in 1..Len(given) : merged.span.bound + given[j] = low + given[j]
      BY <2>9
    <3>4. \A j \in 1..Len(given) : Renumbered(merged, i, given)[j] = low + given[j]
      BY <3>2, <3>3
    <3>5. QED
      BY <3>1, <3>2, <3>4
  <2>12. Rising(result.ids) /\ Below(result.ids, size)
    BY <1>5, <2>1, <2>3, <2>9, Zenon
  <2>13. \A j \in 1..Len(result.ids) : result.ids[j] \in Nat
    BY <2>8
  <2>14. Rising(new)
    <3>1. ASSUME NEW j \in 1..Len(new), NEW k \in 1..Len(new), j < k PROVE new[j] < new[k]
      <4>1. /\ result.ids[j] \in Nat /\ new[j] = low + result.ids[j]
            /\ result.ids[k] \in Nat /\ new[k] = low + result.ids[k]
            /\ result.ids[j] < result.ids[k]
        BY <2>11, <2>12, <2>13, <3>1, Zenon DEF Rising
      <4>2. \A x, y, z \in Nat : x < z => y + x < y + z
        OBVIOUS
      <4>3. QED
        BY <4>1, <4>2, Zenon
    <3>2. QED
      BY <3>1 DEF Rising
  <2>15. Below(new, low + size) /\ \A j \in 1..Len(new) : new[j] >= low
    <3>1. ASSUME NEW j \in 1..Len(new) PROVE new[j] >= low /\ new[j] < low + size
      <4>1. j \in 1..Len(result.ids)
        BY <2>11, Zenon
      <4>2. result.ids[j] \in Nat /\ result.ids[j] < size /\ new[j] = low + result.ids[j]
        BY <2>11, <2>12, <2>13, <4>1, Zenon DEF Below
      <4>3. \A x, y, z \in Nat : x < z => y + x >= y /\ y + x < y + z
        OBVIOUS
      <4>4. QED
        BY <4>2, <4>3, Zenon
    <3>2. QED
      BY <3>1 DEF Below
  <2>16. Below(merged.ids, low) /\ Below(merged.ids, low + size)
    <3>1. \A j \in 1..Len(merged.ids) : merged.ids[j] \in Nat /\ merged.ids[j] < low
      BY <2>7, <2>8, <2>9 DEF Below
    <3>2. \A a, b, c \in Nat : a < b => a < b + c
      OBVIOUS
    <3>3. \A j \in 1..Len(merged.ids) : merged.ids[j] < low + size
      BY <3>1, <3>2, Zenon
    <3>4. QED
      BY <3>1, <3>3 DEF Below
  <2>17. Rising(merged.ids \o new) /\ Below(merged.ids \o new, low + size)
    <3>1. low + size \in Nat
      BY <2>9
    <3>2. QED
      BY <2>7, <2>8, <2>9, <2>11, <2>14, <2>15, <2>16, <3>1, JoinFacts
  <2>18. QED
    BY <2>6, <2>10, <2>11, <2>17
<1>8. Good \in SUBSET Nat /\ \A i \in 0..(n - 1) : i \in Good => i + 1 \in Good
  BY <1>7
<1>9. \A k \in 0..n : k \in Good
  <2> HIDE DEF Good
  <2>1. QED
    BY <1>1, <1>6, <1>8, UpToInduction
<1>10. n \in Good /\ n <= n
  BY <1>1, <1>9
<1>11. QED
  BY <1>4, <1>10

LEMMA EndCallIds ==
  ASSUME Shape, Control, IdsAgree, EndCall
  PROVE  IdsAgree'
<1>1. /\ at = "task" /\ chunk > Len(Chunks) /\ results \in Seq(ResultSet)
      /\ UNCHANGED <<options, results, dropped, task>>
      /\ returned' = {} \/ (returned' = {CallResult} /\ (options.dropBlank => Merged.fits))
  BY DEF EndCall, CallResult, Shape, cutVars
<1>2. IsChunked
  <2>1. ~IsChunked => chunk = 1 /\ Len(Chunks) = 1
    BY <1>1 DEF Control
  <2>2. QED
    BY <1>1, <2>1
<1>3. CallResult.ids = Merged.ids /\ CallResult.facts.decodedSpan = CallSpan
  BY CallResultFacts
<1>4. CallSpan.bound = Merged.span.bound /\ (dropped # {} => ~CallSpan.exact)
  BY DEF CallSpan, AtLeast
<1>5. options.dropBlank /\ Merged.fits => Rising(Merged.ids) /\ Below(Merged.ids, Merged.span.bound)
  BY <1>1, MergedIds DEF IdsAgree
<1>6. \A r \in returned' :
        /\ options.dropBlank => Rising(r.ids) /\ Below(r.ids, r.facts.decodedSpan.bound)
        /\ dropped # {} => ~r.facts.decodedSpan.exact
  BY <1>1, <1>3, <1>4, <1>5
<1>7. SegmentIds(task.segments)' = SegmentIds(task.segments)
  BY <1>1 DEF SegmentIds
<1>8. IsChunked'
  BY <1>1, <1>2 DEF IsChunked
<1>9. QED
  BY <1>1, <1>6, <1>7, <1>8 DEF IdsAgree

LEMMA NextIds ==
  ASSUME Shape, Control, IdsAgree, [Next]_vars
  PROVE  IdsAgree'
<1>1. CASE Refuse
  <2>1. /\ returned' = {[ok |-> FALSE]} /\ UNCHANGED <<options, results, dropped, task>>
    BY <1>1 DEF Refuse, CallFails, cutVars
  <2>2. QED
    BY <2>1, SameIds
<1>2. CASE TakeWhole \/ CutChunk \/ NextRange
  <2>1. UNCHANGED <<options, results, dropped, task, returned>>
    BY <1>2 DEF TakeWhole, BeginTasks, CutChunk, NextRange, CutUnchanged
  <2>2. QED
    BY <2>1, SameIds
<1>3. CASE EndCut
  <2>1. /\ UNCHANGED <<options, results, dropped, task>>
        /\ returned' = returned \/ returned' = {[ok |-> FALSE]}
    BY <1>3 DEF EndCut, BeginTasks, CallFails, cutVars
  <2>2. QED
    BY <2>1, SameIds
<1>4. CASE BeginTask
  <2>1. /\ task'.segments = <<>> /\ task'.base = 0 /\ task'.allocated = 0
        /\ returned' = returned /\ UNCHANGED <<options, results>>
    BY <1>4 DEF BeginTask, Idle, callVars, cutVars
  <2>2. returned = {}
    BY <1>4 DEF BeginTask, Control
  <2>3. QED
    BY <2>1, <2>2, IdleIds
<1>5. CASE OpenWindow \/ NextClip
  <2>1. UNCHANGED <<options, results, dropped, returned>>
    BY <1>5 DEF OpenWindow, NextClip, callVars, cutVars
  <2>2. /\ task'.segments = task.segments /\ task'.base = task.base
        /\ task'.allocated = task.allocated
    BY <1>5 DEF OpenWindow, NextClip, Shape, Tasks
  <2>3. QED
    BY <2>1, <2>2, SameIds
<1>6. CASE BackendFails \/ WindowFails
  BY <1>6, FailIds DEF BackendFails, WindowFails, InTask
<1>7. ASSUME NEW outcome \in Outcomes, Attempt(outcome)
      PROVE  IdsAgree'
  <2>1. CASE outcome.result = "error"
    <3>1. TaskFails(SinkAfter(outcome), SeenAfter(outcome)) /\ InTask
      BY <1>7, <2>1 DEF Attempt, InTask
    <3>2. QED
      BY <3>1, FailIds
  <2>2. CASE outcome.result # "error"
    <3>1. /\ UNCHANGED callVars /\ task'.segments = task.segments /\ task'.base = task.base
          /\ task'.allocated = task.allocated
      BY <1>7, <2>2, AttemptParts
    <3>2. UNCHANGED <<options, results, dropped, returned>>
      BY <3>1 DEF callVars, cutVars
    <3>3. QED
      BY <3>1, <3>2, SameIds
  <2>3. QED
    BY <2>1, <2>2
<1>8. CASE FinishWindow
  <2>1. PICK found, count, advance, wordEnd, survivors, blank :
          /\ count \in Nat /\ survivors \in SUBSET (1..count)
          /\ Finishes(found, count, advance, wordEnd, survivors, blank)
          /\ LeaveWindow(found)
    BY <1>8, FinishParts, Zenon
  <2>2. /\ found \in Tasks /\ found.allocated = Saturate(task.allocated + count)
        /\ HasIds(count, survivors)
        /\ found.base = Saturate(task.base
                          + (IF options.dropBlank THEN count ELSE Cardinality(survivors)))
        /\ found.segments = task.segments \o Slices(survivors, blank)
    BY <2>1, Zenon DEF Finishes
  <2>3. at = "window"
    BY <1>8 DEF FinishWindow
  <2>4. QED
    BY <2>1, <2>2, <2>3, LeaveIds, Zenon
<1>9. CASE SkipWindow
  <2>1. CASE TaskFails(sink, seen)
    BY <1>9, <2>1, FailIds DEF SkipWindow, InTask
  <2>2. CASE LeaveWindow(Skipped)
    <3>1. /\ Skipped \in Tasks /\ Skipped.segments = task.segments /\ Skipped.base = task.base
          /\ Skipped.allocated = task.allocated
      BY SkippedFacts
    <3>2. /\ task'.segments = Skipped.segments /\ task'.base = Skipped.base
          /\ task'.allocated = Skipped.allocated
          /\ UNCHANGED <<options, results, dropped, returned>>
      BY <2>2, <3>1 DEF LeaveWindow, callVars, cutVars, Tasks
    <3>3. QED
      BY <3>1, <3>2, SameIds
  <2>3. QED
    BY <1>9, <2>1, <2>2 DEF SkipWindow, Skipped
<1>10. CASE FinishTask
  BY <1>10, FinishTaskIds
<1>11. CASE EndCall
  BY <1>11, EndCallIds
<1>12. CASE UNCHANGED vars
  <2>1. UNCHANGED <<options, results, dropped, task, returned>>
    BY <1>12 DEF vars, callVars, cutVars
  <2>2. QED
    BY <2>1, SameIds
<1>13. QED
  BY <1>1, <1>2, <1>3, <1>4, <1>5, <1>6, <1>7, <1>8, <1>9, <1>10, <1>11, <1>12, Zenon DEF Next

-----------------------------------------------------------------------------
(* What one run hears. *)

LEMMA SamplesFacts ==
  \A first, size, x : x \in Samples(first, size)
                        <=> x \in 0..(Content - 1) /\ first <= x /\ x < first + size
BY DEF Samples

LEMMA HeardGrows ==
  ASSUME NEW clip, NEW first, NEW seek, NEW samples, NEW more, samples \subseteq more
  PROVE  /\ ClipHeard(clip, samples) => ClipHeard(clip, more)
         /\ ClipWalked(clip, first, seek, samples) => ClipWalked(clip, first, seek, more)
BY DEF ClipHeard, ClipWalked

LEMMA WalkStarts ==
  ASSUME NEW clip \in ClipRange, NEW samples
  PROVE  ClipWalked(clip, TRUE, clip.start, samples)
BY TranscribeAssumption DEF ClipWalked, ClipRange

\* A window opened is heard, and the clip's first sample with it.
LEMMA WalkOpens ==
  ASSUME NEW clip \in ClipRange, NEW first \in BOOLEAN, NEW seek \in Nat, NEW samples,
         ClipWalked(clip, first, seek, samples),
         NEW size, size = SegmentSize(seek, clip.end, Content), size # 0
  PROVE  /\ ClipWalked(clip, FALSE, seek, samples \cup Samples(seek, size))
         /\ WindowHeard(clip, seek, size, samples \cup Samples(seek, size))
<1>1. clip.start \in Nat /\ clip.end \in Nat /\ Content \in Nat /\ Window \in Nat
  BY TranscribeAssumption, ChunkerAssumption DEF ClipRange
<1>2. size \in Nat /\ size >= 1 /\ seek + size <= Content
  <2>1. size \in 0..Window /\ size # 0 /\ seek + size <= Content
    BY <1>1, SegmentSizeFacts, Zenon
  <2>2. QED
    BY <1>1, <2>1
<1>3. seek \in Samples(seek, size)
  BY <1>1, <1>2, SamplesFacts
<1>4. first => clip.start \in Samples(seek, size)
  BY <1>3 DEF ClipWalked
<1>5. ClipWalked(clip, FALSE, seek, samples \cup Samples(seek, size))
  BY <1>4 DEF ClipWalked
<1>6. QED
  BY <1>5 DEF WindowHeard

\* A clip that opens no window, or an empty one, has been heard.
LEMMA WalkEnds ==
  ASSUME NEW clip \in ClipRange, NEW first \in BOOLEAN, NEW seek \in Nat, NEW samples,
         ClipWalked(clip, first, seek, samples),
         ~OpensWindow(seek, clip.end, first) \/ SegmentSize(seek, clip.end, Content) = 0
  PROVE  ClipHeard(clip, samples)
<1>1. /\ clip.start \in Nat /\ clip.end \in Nat /\ Content \in Nat /\ Window \in Nat
      /\ WindowPadding \in Nat
  BY TranscribeAssumption, ChunkerAssumption DEF ClipRange
<1>2. \/ clip.end <= seek
      \/ Content <= seek
      \/ ~first /\ Monus(clip.end, WindowPadding) <= seek
  <2>1. SegmentSize(seek, clip.end, Content) = 0 => Content <= seek \/ clip.end <= seek
    BY <1>1, SegmentSizeFacts
  <2>2. Monus(clip.end, WindowPadding) \in Nat
    BY <1>1, MonusFacts
  <2>3. QED
    BY <1>1, <2>1, <2>2 DEF OpensWindow
<1>3. ASSUME NEW x \in 0..(Content - 1), clip.start <= x, x + WindowPadding < clip.end,
             x + WindowPadding < Content
      PROVE  x \in samples
  <2>1. x < seek
    <3>1. clip.end > WindowPadding
      BY <1>1, <1>3
    <3>2. Monus(clip.end, WindowPadding) = clip.end - WindowPadding
      BY <1>1, <3>1, MonusFacts
    <3>3. QED
      BY <1>1, <1>2, <1>3, <3>2
  <2>2. x < clip.end
    BY <1>1, <1>3
  <2>3. QED
    BY <1>3, <2>1, <2>2 DEF ClipWalked
<1>4. ASSUME clip.start < clip.end, clip.start < Content PROVE clip.start \in samples
  BY <1>1, <1>2, <1>4 DEF ClipWalked
<1>5. QED
  BY <1>3, <1>4 DEF ClipHeard

\* From a window heard a clip is walked on by no more than a window.
LEMMA WalkMoves ==
  ASSUME NEW clip \in ClipRange, NEW seek \in Nat, NEW samples, NEW size, NEW next \in Nat,
         ClipWalked(clip, FALSE, seek, samples), WindowHeard(clip, seek, size, samples),
         size # 0, next <= seek + Window
  PROVE  ClipWalked(clip, FALSE, next, samples)
<1>1. clip.start \in Nat /\ clip.end \in Nat /\ Content \in Nat /\ Window \in Nat
  BY TranscribeAssumption, ChunkerAssumption DEF ClipRange
<1>2. /\ size \in Nat
      /\ size = Window \/ seek + size >= Content \/ seek + size >= clip.end
  <2>1. size = SegmentSize(seek, clip.end, Content)
    BY DEF WindowHeard
  <2>2. /\ size \in 0..Window
        /\ size = Window \/ seek + size >= Content \/ seek + size >= clip.end
    BY <1>1, <2>1, SegmentSizeFacts, Zenon
  <2>3. QED
    BY <1>1, <2>2
<1>3. ASSUME NEW x \in 0..(Content - 1), clip.start <= x, x < next, x < clip.end
      PROVE  x \in samples
  <2>1. CASE x < seek
    BY <1>3, <2>1 DEF ClipWalked
  <2>2. CASE ~(x < seek)
    <3>1. seek <= x /\ x < seek + size
      BY <1>1, <1>2, <1>3, <2>2
    <3>2. x \in Samples(seek, size)
      BY <3>1, SamplesFacts
    <3>3. QED
      BY <3>2 DEF WindowHeard
  <2>3. QED
    BY <2>1, <2>2
<1>4. QED
  BY <1>3 DEF ClipWalked

\* The run of the whole input reads the whole input.
LEMMA WholeInput ==
  ASSUME Control, ~IsChunked, at \notin {"cut", "end"}
  PROVE  /\ Chunk.offset = 0 /\ Chunk.length = Content /\ chunk = 1
         /\ TaskClips = Ranges
<1>1. chunk = 1 /\ Chunks = <<[offset |-> 0, length |-> Content]>>
  BY DEF Control
<1>2. Chunk.offset = 0 /\ Chunk.length = Content
  BY <1>1 DEF Chunk
<1>3. QED
  BY <1>1, <1>2 DEF TaskClips, Ranges

\* A step outside a run that returns no transcript hears nothing more.
LEMMA WholeElsewhere ==
  ASSUME HeardWhole, ~InTask', options' = options, heard' = heard,
         \A r \in returned' : r \in returned \/ ~r.ok
  PROVE  HeardWhole'
BY DEF HeardWhole, IsChunked, Ranges

LEMMA WholeBegins ==
  ASSUME Shape, Control, BeginTask
  PROVE  HeardWhole'
<1>1. /\ at = "task" /\ at' = "clip" /\ returned' = {} /\ heard' = heard
      /\ options' = options /\ ~ClipsRefused(options.clips)
      /\ task' = [Idle EXCEPT !.clips = TaskClips, !.seek = TaskClips[1].start]
  BY DEF BeginTask, Control, callVars, cutVars
<1>2. CASE ~IsChunked
  <2>1. TaskClips = Ranges
    BY <1>1, <1>2, WholeInput
  <2>2. /\ task'.clips = Ranges /\ task'.clip = 1 /\ task'.first = TRUE
        /\ task'.seek = Ranges[1].start
    BY <1>1, <2>1 DEF Idle
  <2>3. Ranges[1] \in ClipRange
    BY <1>1, RangesFacts
  <2>4. ClipWalked(Ranges[1], TRUE, Ranges[1].start, heard)
    BY <2>3, WalkStarts
  <2>5. Ranges' = Ranges /\ ~InWindow'
    BY <1>1 DEF Ranges, InWindow
  <2>6. \A j \in 1..Len(Ranges) : ~(j < 1)
    BY <1>1, RangesFacts
  <2>7. QED
    BY <1>1, <2>2, <2>4, <2>5, <2>6 DEF HeardWhole
<1>3. CASE IsChunked
  BY <1>1, <1>3 DEF HeardWhole, IsChunked
<1>4. QED
  BY <1>2, <1>3

LEMMA WholeOpens ==
  ASSUME Shape, Control, HeardWhole, OpenWindow
  PROVE  HeardWhole'
<1>1. /\ IsInTask /\ InTask /\ at = "clip" /\ WindowSize # 0 /\ at' = "attempt"
      /\ heard' = heard \cup Samples(Chunk.offset + task.seek, WindowSize)
      /\ task' = [task EXCEPT !.first = FALSE, !.size = WindowSize, !.attempt = 0, !.probe = {}]
      /\ options' = options /\ returned' = {} /\ task \in Tasks
  BY DEF OpenWindow, ClipIsSpent, IsInTask, InTask, callVars, cutVars, Control, Shape
<1>2. CASE ~IsChunked
  <2>1. /\ Chunk.offset = 0 /\ Chunk.length = Content /\ task.clips = Ranges
        /\ task.clip \in 1..Len(Ranges) /\ task.seek \in Nat /\ task.first \in BOOLEAN
        /\ Ranges[task.clip] \in ClipRange /\ Clip = Ranges[task.clip]
        /\ \A j \in 1..Len(Ranges) : j < task.clip => ClipHeard(Ranges[j], heard)
    <3>1. /\ Chunk.offset = 0 /\ Chunk.length = Content
      BY <1>1, <1>2, WholeInput
    <3>2. task.clips = Ranges /\ \A j \in 1..Len(Ranges) : j < task.clip => ClipHeard(Ranges[j], heard)
      BY <1>1, <1>2 DEF HeardWhole
    <3>3. task.clip \in 1..Len(task.clips) /\ Clip \in ClipRange
      BY <1>1, WindowFacts
    <3>4. QED
      BY <1>1, <3>1, <3>2, <3>3 DEF Clip, Tasks
  <2>2. ClipWalked(Ranges[task.clip], task.first, task.seek, heard)
    BY <1>1, <1>2, <2>1 DEF HeardWhole
  <2>3. WindowSize = SegmentSize(task.seek, Ranges[task.clip].end, Content)
    BY <2>1 DEF WindowSize
  <2>4. heard' = heard \cup Samples(task.seek, WindowSize)
    BY <1>1, <2>1
  <2>5. /\ ClipWalked(Ranges[task.clip], FALSE, task.seek, heard')
        /\ WindowHeard(Ranges[task.clip], task.seek, WindowSize, heard')
    <3>1. /\ Ranges[task.clip] \in ClipRange /\ task.first \in BOOLEAN /\ task.seek \in Nat
          /\ ClipWalked(Ranges[task.clip], task.first, task.seek, heard)
          /\ WindowSize = SegmentSize(task.seek, Ranges[task.clip].end, Content)
          /\ WindowSize # 0
      BY <1>1, <2>1, <2>2, <2>3
    <3>2. /\ ClipWalked(Ranges[task.clip], FALSE, task.seek,
                        heard \cup Samples(task.seek, WindowSize))
          /\ WindowHeard(Ranges[task.clip], task.seek, WindowSize,
                         heard \cup Samples(task.seek, WindowSize))
      BY <3>1, WalkOpens, Zenon
    <3>3. QED
      BY <2>4, <3>2
  <2>6. \A j \in 1..Len(Ranges) : j < task.clip => ClipHeard(Ranges[j], heard')
    <3>1. heard \subseteq heard'
      BY <2>4
    <3>2. QED
      BY <2>1, <3>1, HeardGrows
  <2>7. /\ task'.clips = task.clips /\ task'.clip = task.clip /\ task'.first = FALSE
        /\ task'.size = WindowSize /\ task'.seek = task.seek
    BY <1>1 DEF Tasks
  <2>8. Ranges' = Ranges
    BY <1>1 DEF Ranges
  <2>9. QED
    BY <1>1, <2>1, <2>5, <2>6, <2>7, <2>8 DEF HeardWhole
<1>3. CASE IsChunked
  BY <1>1, <1>3 DEF HeardWhole, IsChunked
<1>4. QED
  BY <1>2, <1>3

LEMMA WholeInTask ==
  ASSUME Shape, Control, HeardWhole, InTask, ~IsChunked
  PROVE  /\ Ranges \in Seq(ClipRange) /\ Len(Ranges) \in Nat /\ task.clips = Ranges
         /\ task.clip \in Nat /\ task.clip >= 1 /\ task.seek \in Nat /\ task.first \in BOOLEAN
         /\ Clip = Ranges[task.clip] /\ Chunk.length = Content
         /\ \A j \in 1..Len(Ranges) : j < task.clip => ClipHeard(Ranges[j], heard)
         /\ task.clip \in 1..Len(Ranges) =>
              /\ Clip \in ClipRange /\ ClipWalked(Clip, task.first, task.seek, heard)
              /\ InWindow => ~task.first /\ WindowHeard(Clip, task.seek, task.size, heard)
<1>1. ~ClipsRefused(options.clips) /\ task.clip >= 1 /\ task \in Tasks
  BY DEF Control, InTask, Shape
<1>2. Ranges \in Seq(ClipRange) /\ Len(Ranges) \in Nat
  BY <1>1, RangesFacts
<1>3. task.clips = Ranges /\ Clip = Ranges[task.clip]
  BY DEF HeardWhole, Clip
<1>4. Chunk.length = Content
  BY WholeInput DEF InTask
<1>5. task.clip \in 1..Len(Ranges) => Clip \in ClipRange
  BY <1>2, <1>3
<1>6. task.clip \in Nat /\ task.seek \in Nat /\ task.first \in BOOLEAN
  BY <1>1 DEF Tasks
<1>7. QED
  BY <1>1, <1>2, <1>3, <1>4, <1>5, <1>6 DEF HeardWhole

LEMMA WholeNextClip ==
  ASSUME Shape, Control, HeardWhole, NextClip
  PROVE  HeardWhole'
<1>1. /\ IsInTask /\ InTask /\ ClipIsSpent /\ at = "clip" /\ at' = "clip" /\ heard' = heard
      /\ options' = options /\ returned' = {} /\ returned = {}
      /\ task' = [task EXCEPT !.clip = @ + 1, !.first = TRUE,
                    !.seek = IF task.clip < Len(task.clips)
                               THEN task.clips[task.clip + 1].start ELSE 0]
      /\ task \in Tasks
  BY DEF NextClip, IsInTask, InTask, callVars, cutVars, Control, Shape
<1>2. CASE ~IsChunked
  <2>1. /\ Ranges \in Seq(ClipRange) /\ Len(Ranges) \in Nat /\ task.clips = Ranges
        /\ task.clip \in 1..Len(Ranges) /\ task.seek \in Nat /\ task.first \in BOOLEAN
        /\ Clip = Ranges[task.clip] /\ Clip \in ClipRange /\ Chunk.length = Content
        /\ \A j \in 1..Len(Ranges) : j < task.clip => ClipHeard(Ranges[j], heard)
        /\ ClipWalked(Clip, task.first, task.seek, heard)
    <3>1. task.clip \in 1..Len(task.clips)
      BY <1>1, WindowFacts
    <3>2. QED
      BY <1>1, <1>2, <3>1, WholeInTask
  <2>2. ~OpensWindow(task.seek, Clip.end, task.first) \/ SegmentSize(task.seek, Clip.end, Content) = 0
    BY <1>1, <2>1 DEF ClipIsSpent, WindowSize
  <2>3. ClipHeard(Ranges[task.clip], heard)
    BY <2>1, <2>2, WalkEnds
  <2>4. PICK next \in Nat : next = task.clip + 1
    BY <2>1
  <2>5. /\ task'.clips = Ranges /\ task'.clip = next /\ task'.first = TRUE
        /\ next \in 1..Len(Ranges) => task'.seek = Ranges[next].start
    BY <1>1, <2>1, <2>4 DEF Tasks
  <2>6. next \in 1..Len(Ranges) => ClipWalked(Ranges[next], task'.first, task'.seek, heard)
    <3>1. next \in 1..Len(Ranges) => Ranges[next] \in ClipRange
      BY <2>1
    <3>2. QED
      BY <2>5, <3>1, WalkStarts
  <2>7. \A j \in 1..Len(Ranges) : j < next => ClipHeard(Ranges[j], heard)
    <3>1. \A j \in 1..Len(Ranges) : j < next => j < task.clip \/ j = task.clip
      BY <2>1, <2>4
    <3>2. QED
      BY <2>1, <2>3, <3>1
  <2>8. Ranges' = Ranges /\ ~InWindow'
    BY <1>1 DEF Ranges, InWindow
  <2>9. QED
    BY <1>1, <2>5, <2>6, <2>7, <2>8 DEF HeardWhole
<1>3. CASE IsChunked
  BY <1>1, <1>3 DEF HeardWhole, IsChunked
<1>4. QED
  BY <1>2, <1>3

LEMMA WholeAttempt ==
  ASSUME Shape, Control, HeardWhole, NEW outcome \in Outcomes, Attempt(outcome),
         outcome.result # "error"
  PROVE  HeardWhole'
<1>1. /\ at' \in {"attempt", "window"} /\ UNCHANGED callVars /\ heard' = heard
      /\ task'.clips = task.clips /\ task'.clip = task.clip /\ task'.first = task.first
      /\ task'.seek = task.seek /\ task'.size = task.size
  BY AttemptParts
<1>2. /\ InTask /\ InWindow /\ options' = options /\ returned' = {}
      /\ task.clip \in 1..Len(task.clips)
  BY <1>1 DEF Attempt, InTask, InWindow, Control, callVars, cutVars
<1>3. Ranges' = Ranges /\ IsChunked' = IsChunked
  BY <1>2 DEF Ranges, IsChunked
<1>4. QED
  BY <1>1, <1>2, <1>3 DEF HeardWhole

\* A window is left for a place no more than a window on.
LEMMA WholeLeave ==
  ASSUME Shape, Control, HeardWhole, at = "window", NEW found \in Tasks,
         found.clips = task.clips, found.clip = task.clip, found.first = task.first,
         found.seek <= task.seek + Window, LeaveWindow(found)
  PROVE  HeardWhole'
<1>1. /\ InTask /\ InWindow /\ at' = "clip" /\ options' = options /\ returned' = {}
      /\ heard' = heard /\ task.clip \in 1..Len(task.clips) /\ task.size >= 1
      /\ task \in Tasks
  BY DEF LeaveWindow, InTask, InWindow, Control, callVars, cutVars, Shape
<1>2. /\ task'.clips = task.clips /\ task'.clip = task.clip /\ task'.first = task.first
      /\ task'.seek = found.seek /\ found.seek \in Nat
  BY DEF LeaveWindow, Tasks
<1>3. CASE ~IsChunked
  <2>1. /\ task.clips = Ranges /\ task.clip \in 1..Len(Ranges) /\ task.seek \in Nat
        /\ Clip = Ranges[task.clip] /\ Clip \in ClipRange /\ task.first = FALSE
        /\ ClipWalked(Clip, task.first, task.seek, heard)
        /\ WindowHeard(Clip, task.seek, task.size, heard)
        /\ \A j \in 1..Len(Ranges) : j < task.clip => ClipHeard(Ranges[j], heard)
    BY <1>1, <1>3, WholeInTask
  <2>2. task.size # 0
    BY <1>1
  <2>3. ClipWalked(Clip, FALSE, found.seek, heard)
    <3>1. /\ Clip \in ClipRange /\ task.seek \in Nat /\ found.seek \in Nat
          /\ ClipWalked(Clip, FALSE, task.seek, heard)
          /\ WindowHeard(Clip, task.seek, task.size, heard)
          /\ task.size # 0 /\ found.seek <= task.seek + Window
      BY <1>2, <2>1, <2>2
    <3>2. QED
      BY <3>1, WalkMoves, Zenon
  <2>4. Ranges' = Ranges /\ ~InWindow'
    BY <1>1 DEF Ranges, InWindow
  <2>5. QED
    BY <1>1, <1>2, <2>1, <2>3, <2>4 DEF HeardWhole
<1>4. CASE IsChunked
  BY <1>1, <1>4 DEF HeardWhole, IsChunked
<1>5. QED
  BY <1>3, <1>4

LEMMA WholeFail ==
  ASSUME HeardWhole, Control, InTask, NEW facts, NEW known, TaskFails(facts, known)
  PROVE  HeardWhole'
<1>1. ~InTask'
  BY FailLeavesTask DEF InTask
<1>2. options' = options /\ heard' = heard
  BY DEF TaskFails, CallFails, cutVars
<1>3. \A r \in returned' : r \in returned \/ ~r.ok
  BY DEF TaskFails, CallFails
<1>4. QED
  BY <1>1, <1>2, <1>3, WholeElsewhere

LEMMA WholeFinish ==
  ASSUME Shape, Control, HeardWhole, FinishTask
  PROVE  HeardWhole'
<1>1. /\ InTask /\ task.clip > Len(task.clips) /\ heard' = heard /\ options' = options
      /\ at' \in {"task", "end"} /\ returned = {}
  BY DEF FinishTask, InTask, Control, cutVars
<1>2. ~InTask'
  BY <1>1 DEF InTask
<1>3. CASE IsChunked
  BY <1>1, <1>3 DEF HeardWhole, IsChunked
<1>4. CASE ~IsChunked
  <2>1. \A j \in 1..Len(Ranges) : ClipHeard(Ranges[j], heard)
    <3>1. /\ Len(Ranges) \in Nat /\ task.clips = Ranges /\ task.clip \in Nat
          /\ \A j \in 1..Len(Ranges) : j < task.clip => ClipHeard(Ranges[j], heard)
      BY <1>1, <1>4, WholeInTask
    <3>2. \A j \in 1..Len(Ranges) : j < task.clip
      BY <1>1, <3>1
    <3>3. QED
      BY <3>1, <3>2
  <2>2. Ranges' = Ranges
    BY <1>1 DEF Ranges
  <2>3. QED
    BY <1>1, <1>2, <2>1, <2>2 DEF HeardWhole
<1>5. QED
  BY <1>3, <1>4

\* How far a window is left: the seek is moved by no more than a window.
LEMMA SeekMoves ==
  ASSUME Shape, NEW advance \in 0..Window, NEW wordEnd \in 0..Window
  PROVE  /\ Capped(task.seek + Max({advance, wordEnd})) <= task.seek + Window
         /\ Capped(task.seek + advance) <= task.seek + Window
<1>1. /\ options \in Options /\ task.seek \in Nat /\ Window \in Nat
      /\ advance \in Nat /\ wordEnd \in Nat /\ advance <= Window /\ wordEnd <= Window
  BY ChunkerAssumption DEF Shape, Tasks
<1>2. PICK larger \in Nat : larger = Max({advance, wordEnd}) /\ larger <= Window
  <2>1. /\ Max({advance, wordEnd}) \in Nat
        /\ Max({advance, wordEnd}) = IF advance >= wordEnd THEN advance ELSE wordEnd
    BY <1>1, MaxOfTwo
  <2>2. QED
    BY <1>1, <2>1
<1>3. ASSUME NEW move \in Nat, move <= Window
      PROVE  Capped(task.seek + move) <= task.seek + Window
  <2>1. task.seek + move \in Nat /\ task.seek + move <= task.seek + Window
    BY <1>1, <1>3
  <2>2. Capped(task.seek + move) \in Nat /\ Capped(task.seek + move) <= task.seek + move
    BY <1>1, <2>1, CappedFacts
  <2>3. QED
    BY <1>1, <2>1, <2>2
<1>4. QED
  BY <1>1, <1>2, <1>3

LEMMA NextWhole ==
  ASSUME Shape, Control, HeardWhole, [Next]_vars
  PROVE  HeardWhole'
<1>1. CASE Refuse \/ TakeWhole \/ CutChunk \/ NextRange \/ EndCut
  <2>1. /\ options' = options /\ heard' = heard /\ at' \in {"cut", "task", "end"}
        /\ \A r \in returned' : r \in returned \/ ~r.ok
    <3>1. CASE Refuse
      BY <3>1 DEF Refuse, CallFails, cutVars
    <3>2. CASE TakeWhole
      BY <3>2 DEF TakeWhole, BeginTasks
    <3>3. CASE CutChunk \/ NextRange
      BY <3>3 DEF CutChunk, NextRange, CutUnchanged, IsCutting
    <3>4. CASE EndCut
      BY <3>4 DEF EndCut, BeginTasks, CallFails, cutVars
    <3>5. QED
      BY <1>1, <3>1, <3>2, <3>3, <3>4
  <2>2. QED
    BY <2>1, WholeElsewhere DEF InTask
<1>2. CASE BeginTask
  BY <1>2, WholeBegins
<1>3. CASE OpenWindow
  BY <1>3, WholeOpens
<1>4. CASE NextClip
  BY <1>4, WholeNextClip
<1>5. CASE BackendFails \/ WindowFails
  BY <1>5, WholeFail DEF BackendFails, WindowFails, InTask
<1>6. ASSUME NEW outcome \in Outcomes, Attempt(outcome)
      PROVE  HeardWhole'
  <2>1. CASE outcome.result = "error"
    <3>1. TaskFails(SinkAfter(outcome), SeenAfter(outcome)) /\ InTask
      BY <1>6, <2>1 DEF Attempt, InTask
    <3>2. QED
      BY <3>1, WholeFail
  <2>2. QED
    BY <1>6, <2>1, WholeAttempt
<1>7. CASE FinishWindow
  <2>1. PICK found, count, advance, wordEnd, survivors, blank :
          /\ advance \in 0..Window /\ wordEnd \in 0..Window
          /\ Finishes(found, count, advance, wordEnd, survivors, blank)
          /\ LeaveWindow(found)
    BY <1>7, FinishParts, Zenon
  <2>2. /\ found \in Tasks /\ found.clips = task.clips /\ found.clip = task.clip
        /\ found.first = task.first
        /\ found.seek = Capped(task.seek + Max({advance, wordEnd}))
    BY <2>1, Zenon DEF Finishes
  <2>3. advance \in 0..Window /\ wordEnd \in 0..Window
    BY <2>1
  <2>4. found.seek <= task.seek + Window /\ at = "window"
    BY <1>7, <2>2, <2>3, SeekMoves DEF FinishWindow
  <2>5. QED
    BY <2>1, <2>2, <2>4, WholeLeave
<1>8. CASE SkipWindow
  <2>1. at = "window" /\ InTask
    BY <1>8 DEF SkipWindow, InTask
  <2>2. CASE TaskFails(sink, seen)
    BY <2>1, <2>2, WholeFail
  <2>3. CASE LeaveWindow(Skipped)
    <3>1. task.size \in 0..Window /\ 0 \in 0..Window
      BY ChunkerAssumption DEF Shape, Tasks
    <3>2. Skipped.seek <= task.seek + Window
      BY <3>1, SkippedFacts, SeekMoves
    <3>3. QED
      BY <2>1, <2>3, <3>2, SkippedFacts, WholeLeave
  <2>4. QED
    BY <1>8, <2>2, <2>3 DEF SkipWindow, Skipped
<1>9. CASE FinishTask
  BY <1>9, WholeFinish
<1>10. CASE EndCall
  <2>1. /\ at = "task" /\ chunk > Len(Chunks) /\ options' = options
    BY <1>10 DEF EndCall, cutVars
  <2>2. IsChunked
    <3>1. ~IsChunked => chunk = 1 /\ Len(Chunks) = 1
      BY <2>1 DEF Control
    <3>2. QED
      BY <2>1, <3>1
  <2>3. QED
    BY <2>1, <2>2 DEF HeardWhole, IsChunked
<1>11. CASE UNCHANGED vars
  BY <1>11 DEF vars, callVars, cutVars, HeardWhole, InTask, InWindow, IsChunked, Ranges
<1>12. QED
  BY <1>1, <1>2, <1>3, <1>4, <1>5, <1>6, <1>7, <1>8, <1>9, <1>10, <1>11, Zenon DEF Next

-----------------------------------------------------------------------------
(* What the chunks hear. *)

LEMMA CoverGrows ==
  ASSUME NEW chunks \in Seq(Stretch), NEW stretch \in Stretch, NEW clip, NEW start
  PROVE  /\ \A x : IsCovered(x, chunks) => IsCovered(x, Append(chunks, stretch))
         /\ \A x \in Samples(stretch.offset, stretch.length) : IsCovered(x, Append(chunks, stretch))
         /\ ClipCovered(clip, chunks) => ClipCovered(clip, Append(chunks, stretch))
<1> DEFINE more == Append(chunks, stretch)
<1>1. /\ Len(chunks) \in Nat /\ Len(more) = Len(chunks) + 1
      /\ \A c \in 1..Len(chunks) : more[c] = chunks[c]
      /\ more[Len(chunks) + 1] = stretch
  OBVIOUS
<1> HIDE DEF more
<1>2. (\A c \in 1..Len(chunks) : c \in 1..Len(more)) /\ Len(chunks) + 1 \in 1..Len(more)
  BY <1>1
<1>3. \A x : IsCovered(x, chunks) => IsCovered(x, more)
  BY <1>1, <1>2 DEF IsCovered
<1>4. \A x \in Samples(stretch.offset, stretch.length) : IsCovered(x, more)
  BY <1>1, <1>2 DEF IsCovered
<1>5. ClipCovered(clip, chunks) => ClipCovered(clip, more)
  BY <1>3 DEF ClipCovered
<1>6. QED
  BY <1>3, <1>4, <1>5 DEF more

\* A clip is cut on by each chunk taken of it.
LEMMA CutOn ==
  ASSUME NEW chunks \in Seq(Stretch), NEW start \in Nat, NEW length \in Nat,
         [offset |-> start, length |-> length] \in Stretch, NEW end \in Nat,
         start + length = end \/ (start + length = Content /\ end >= Content),
         NEW clip, clip.start \in Nat, ClipCut(clip, start, chunks)
  PROVE  ClipCut(clip, end, Append(chunks, [offset |-> start, length |-> length]))
<1> DEFINE stretch == [offset |-> start, length |-> length]
           more == Append(chunks, stretch)
<1>1. stretch \in Stretch /\ stretch.offset = start /\ stretch.length = length
  OBVIOUS
<1>2. /\ \A x : IsCovered(x, chunks) => IsCovered(x, more)
      /\ \A x \in Samples(start, length) : IsCovered(x, more)
  BY <1>1, CoverGrows
<1> HIDE DEF more, stretch
<1>3. ASSUME NEW x \in 0..(Content - 1), clip.start <= x, x < end
      PROVE  IsCovered(x, more)
  <2>1. CASE x < start
    BY <1>2, <1>3, <2>1 DEF ClipCut
  <2>2. CASE ~(x < start)
    <3>1. start <= x /\ x < start + length
      BY <1>3, <2>2, TranscribeAssumption
    <3>2. x \in Samples(start, length)
      BY <3>1, SamplesFacts
    <3>3. QED
      BY <1>2, <3>2
  <2>3. QED
    BY <2>1, <2>2
<1>4. QED
  BY <1>3 DEF ClipCut, more, stretch

\* A clip whose cutting ends is held, all but its padding.
LEMMA CutEnds ==
  ASSUME NEW clip \in ClipRange, NEW start \in Nat, NEW chunks, ClipCut(clip, start, chunks),
         CutsAgain(start, clip.end, Content) => start \in Splits(start, Content)
  PROVE  ClipCovered(clip, chunks)
<1>1. /\ clip.start \in Nat /\ clip.end \in Nat /\ Content \in Nat
      /\ ChunkPadding \in Nat /\ ChunkPadding >= 1
  BY TranscribeAssumption, ChunkerAssumption DEF ClipRange
<1>2. \/ clip.end <= start + ChunkPadding
      \/ Content <= start + 1
  <2>1. CASE CutsAgain(start, clip.end, Content)
    <3>1. start < Content /\ start \in Splits(start, Content)
      BY <2>1 DEF CutsAgain
    <3>2. Content = start + 1
      BY <1>1, <3>1, SplitFacts
    <3>3. QED
      BY <3>2, <1>1
  <2>2. CASE ~CutsAgain(start, clip.end, Content)
    BY <1>1, <2>2 DEF CutsAgain
  <2>3. QED
    BY <2>1, <2>2
<1>3. ASSUME NEW x \in 0..(Content - 1), clip.start <= x, x + ChunkPadding < clip.end,
             x + ChunkPadding < Content
      PROVE  IsCovered(x, chunks)
  <2>1. x < start
    BY <1>1, <1>2, <1>3
  <2>2. QED
    BY <1>3, <2>1 DEF ClipCut
<1>4. QED
  BY <1>3 DEF ClipCovered

LEMMA CoverChunk ==
  ASSUME Shape, Control, AllCovered, AllHeard, CutChunk
  PROVE  AllCovered' /\ AllHeard'
<1>1. PICK end, length : Grows(end, length)
  BY CutParts, Zenon
<1>2. /\ cut.clip \in 1..Len(Ranges) /\ Ranges \in Seq(ClipRange) /\ ~ClipsRefused(options.clips)
      /\ at = "cut" /\ at' = "cut" /\ returned = {}
      /\ UNCHANGED <<options, chunk, returned, heard, lost>>
      /\ chunk = 1
  <2>1. /\ at = "cut" /\ ~ClipsRefused(options.clips) /\ at' = "cut"
        /\ UNCHANGED <<options, chunk, returned, heard, lost>>
    BY DEF CutChunk, IsCutting, CutUnchanged
  <2>2. QED
    BY <2>1, CutParts, RangesFacts DEF Control, AllHeard
<1>3. /\ length \in 1..Window /\ length \in Nat /\ end \in Nat /\ cut.start \in Nat
      /\ cut.chunks \in Seq(Stretch)
      /\ [offset |-> cut.start, length |-> length] \in Stretch
      /\ cut.start + length = end \/ (cut.start + length = Content /\ end >= Content)
  BY <1>1 DEF Grows, Stretch, Shape, Cuts
<1>4. PICK stretch \in Stretch : /\ stretch = [offset |-> cut.start, length |-> length]
                                 /\ stretch.length \in 1..Window
  BY <1>3
<1>5. PICK chunks \in Seq(Stretch) : chunks = Append(cut.chunks, stretch)
  <2>1. cut.chunks \in Seq(Stretch)
    BY <1>3
  <2>2. Append(cut.chunks, stretch) \in Seq(Stretch)
    BY <2>1
  <2>3. QED
    BY <2>2
<1>6. Chunks' = chunks /\ cut'.start = end /\ cut'.clip = cut.clip /\ Chunks = cut.chunks
  <2>1. cut' = [cut EXCEPT !.start = end, !.chunks = chunks]
    BY <1>1, <1>4, <1>5 DEF Grows
  <2>2. QED
    BY <2>1 DEF Shape, Cuts, Chunks
<1>7. Ranges' = Ranges
  BY <1>2 DEF Ranges
<1>8. ClipCut(Ranges[cut.clip], end, chunks)
  <2>1. Ranges[cut.clip].start \in Nat
    <3>1. Ranges[cut.clip] \in ClipRange
      BY <1>2
    <3>2. QED
      BY <3>1 DEF ClipRange
  <2>2. ClipCut(Ranges[cut.clip], cut.start, cut.chunks)
    BY <1>2, <1>6 DEF AllCovered
  <2>3. /\ cut.chunks \in Seq(Stretch) /\ cut.start \in Nat /\ length \in Nat /\ end \in Nat
        /\ [offset |-> cut.start, length |-> length] \in Stretch
        /\ cut.start + length = end \/ (cut.start + length = Content /\ end >= Content)
        /\ Ranges[cut.clip].start \in Nat /\ ClipCut(Ranges[cut.clip], cut.start, cut.chunks)
    BY <1>3, <2>1, <2>2
  <2>4. ClipCut(Ranges[cut.clip], end, Append(cut.chunks, [offset |-> cut.start, length |-> length]))
    BY <2>3, CutOn, Zenon
  <2>5. QED
    BY <1>4, <1>5, <2>4
<1>9. \A j \in 1..Len(Ranges) : j < cut.clip => ClipCovered(Ranges[j], chunks)
  <2>1. \A clip : ClipCovered(clip, cut.chunks) => ClipCovered(clip, chunks)
    BY <1>3, <1>5, CoverGrows
  <2>2. QED
    BY <1>2, <1>6, <2>1 DEF AllCovered
<1>10. AllCovered'
  BY <1>2, <1>6, <1>7, <1>8, <1>9 DEF AllCovered
<1>11. \A c \in 1..Len(chunks) : chunks[c].length \in 1..Window /\ ~(c < 1)
  <2>1. \A c \in 1..Len(chunks) : chunks[c] = stretch \/ (c \in 1..Len(cut.chunks) /\ chunks[c] = cut.chunks[c])
    BY <1>3, <1>5
  <2>2. \A c \in 1..Len(cut.chunks) : cut.chunks[c].length \in 1..Window
    BY <1>6 DEF AllHeard
  <2>3. \A c \in 1..Len(chunks) : c >= 1 /\ c \in Nat
    OBVIOUS
  <2>4. QED
    BY <1>4, <2>1, <2>2, <2>3
<1>12. AllHeard'
  BY <1>2, <1>6, <1>11 DEF AllHeard, InTask
<1>13. QED
  BY <1>10, <1>12

LEMMA CoverNextRange ==
  ASSUME Shape, Control, AllCovered, AllHeard, NextRange
  PROVE  AllCovered' /\ AllHeard'
<1>1. /\ at = "cut" /\ at' = "cut" /\ ~ClipsRefused(options.clips) /\ returned = {}
      /\ UNCHANGED <<options, chunk, returned, heard, lost>>
      /\ cut.clip <= Len(Ranges) /\ cut.clip \in Nat /\ cut.start \in Nat /\ cut \in Cuts
      /\ cut' = [cut EXCEPT !.clip = @ + 1,
                   !.start = IF cut.clip < Len(Ranges) THEN Ranges[cut.clip + 1].start ELSE 0]
      /\ IsInClip => cut.start \in Splits(cut.start, Content)
  BY DEF NextRange, CutUnchanged, IsCutting, Shape, Cuts, Control
<1>2. Ranges \in Seq(ClipRange) /\ Len(Ranges) \in Nat
  BY <1>1, RangesFacts
<1>3. PICK next \in Nat : next = cut.clip + 1
  BY <1>1
<1>4. /\ cut'.clip = next /\ Chunks' = Chunks
      /\ next \in 1..Len(Ranges) => cut'.start = Ranges[next].start
  BY <1>1, <1>2, <1>3 DEF Cuts, Chunks
<1>5. cut.clip \in 1..Len(Ranges) => ClipCovered(Ranges[cut.clip], Chunks)
  <2>1. SUFFICES ASSUME cut.clip \in 1..Len(Ranges)
                 PROVE  ClipCovered(Ranges[cut.clip], Chunks)
    OBVIOUS
  <2>2. Ranges[cut.clip] \in ClipRange /\ cut.clip \in DOMAIN Ranges
    BY <1>2, <2>1
  <2>3. CutsAgain(cut.start, Ranges[cut.clip].end, Content) => cut.start \in Splits(cut.start, Content)
    BY <1>1, <2>2 DEF IsInClip
  <2>4. ClipCut(Ranges[cut.clip], cut.start, Chunks)
    BY <1>1, <2>1 DEF AllCovered
  <2>5. QED
    BY <1>1, <2>2, <2>3, <2>4, CutEnds
<1>6. \A j \in 1..Len(Ranges) : j < next => ClipCovered(Ranges[j], Chunks)
  <2>1. \A j \in 1..Len(Ranges) : j < next => j < cut.clip \/ j = cut.clip
    BY <1>1, <1>3
  <2>2. \A j \in 1..Len(Ranges) : j < cut.clip => ClipCovered(Ranges[j], Chunks)
    BY <1>1 DEF AllCovered
  <2>3. QED
    BY <1>5, <2>1, <2>2
<1>7. next \in 1..Len(Ranges) => ClipCut(Ranges[next], cut'.start, Chunks)
  <2>1. next \in 1..Len(Ranges) => Ranges[next] \in ClipRange
    BY <1>2
  <2>2. next \in 1..Len(Ranges) => Ranges[next].start \in Nat
    BY <2>1 DEF ClipRange
  <2>3. QED
    BY <1>4, <2>2, TranscribeAssumption DEF ClipCut
<1>8. Ranges' = Ranges
  BY <1>1 DEF Ranges
<1>9. AllCovered'
  BY <1>1, <1>4, <1>6, <1>7, <1>8 DEF AllCovered
<1>10. AllHeard'
  BY <1>1, <1>4 DEF AllHeard, InTask
<1>11. QED
  BY <1>9, <1>10

\* What the chunks hold stays while they and the clips do.
LEMMA CoverStays ==
  ASSUME Control, AllCovered, UNCHANGED <<options, cut>>, at # "end",
         \A r \in returned' : r.ok => at \notin {"cut", "end"},
         at' = "cut" => at = "cut",
         at = "cut" /\ at' \notin {"cut", "end"} => cut.clip > Len(Ranges) /\ cut.clip \in Nat
                                                    /\ Len(Ranges) \in Nat
  PROVE  AllCovered'
<1>1. Ranges' = Ranges /\ Chunks' = Chunks
  BY DEF Ranges, Chunks
<1>2. at = "cut" /\ at' \notin {"cut", "end"} => \A j \in 1..Len(Ranges) : j < cut.clip
  OBVIOUS
<1>3. QED
  BY <1>1, <1>2 DEF AllCovered

LEMMA CoverEndCut ==
  ASSUME Shape, Control, AllCovered, AllHeard, EndCut
  PROVE  AllCovered' /\ AllHeard'
<1>1. /\ at = "cut" /\ ~ClipsRefused(options.clips) /\ at' \in {"task", "end"}
      /\ UNCHANGED <<options, cut, chunk, task, heard, lost>>
      /\ returned' = returned \/ returned' = {[ok |-> FALSE]}
      /\ cut.clip > Len(Ranges) /\ cut.clip \in Nat /\ returned = {}
  BY DEF EndCut, IsCutting, BeginTasks, CallFails, cutVars, Shape, Cuts, Control
<1>2. Len(Ranges) \in Nat
  BY <1>1, RangesFacts
<1>3. AllCovered'
  BY <1>1, <1>2, CoverStays
<1>4. AllHeard'
  BY <1>1 DEF AllHeard, InTask, Chunks
<1>5. QED
  BY <1>3, <1>4

\* A run under way: its chunk, and that the call has returned nothing.
LEMMA ChunkInTask ==
  ASSUME Shape, Control, AllHeard, IsChunked, at \notin {"cut", "end"}, chunk <= Len(Chunks)
  PROVE  /\ chunk \in 1..Len(Chunks) /\ Chunk.length \in 1..Window /\ Chunk.offset \in Nat
         /\ Chunk.length \in Nat /\ Window \in Nat /\ returned = {}
         /\ TaskClips = <<[start |-> 0, end |-> Chunk.length]>>
<1>1. chunk \in 1..Len(Chunks) /\ ~ClipsRefused(options.clips) /\ returned = {} /\ Window \in Nat
  BY ChunkerAssumption DEF Shape, Control
<1>2. Chunk \in Stretch
  BY <1>1, TaskClipsFacts
<1>3. Chunk.length \in 1..Window
  BY <1>1 DEF AllHeard, Chunk
<1>4. Chunk.length \in Nat /\ Chunk.offset \in Nat
  BY <1>2, <1>3 DEF Stretch
<1>5. QED
  BY <1>1, <1>3, <1>4, ChunkClip DEF TaskClips

LEMMA CoverBegin ==
  ASSUME Shape, Control, AllCovered, AllHeard, IsChunked, BeginTask
  PROVE  AllCovered' /\ AllHeard'
<1>1. /\ at = "task" /\ at' = "clip" /\ chunk <= Len(Chunks)
      /\ UNCHANGED <<options, cut, chunk, heard, lost, returned>>
      /\ task' = [Idle EXCEPT !.clips = TaskClips, !.seek = TaskClips[1].start]
  BY DEF BeginTask, callVars, cutVars
<1>2. returned = {} /\ TaskClips = <<[start |-> 0, end |-> Chunk.length]>>
  BY <1>1, ChunkInTask
<1>3. /\ task'.clips = <<[start |-> 0, end |-> Chunk.length]>> /\ task'.clip = 1
      /\ task'.first = TRUE /\ task'.seek = 0
  <2>1. TaskClips[1].start = 0
    BY <1>2
  <2>2. QED
    BY <1>1, <1>2, <2>1 DEF Idle
<1>4. Chunk' = Chunk /\ Chunks' = Chunks
  BY <1>1 DEF Chunk, Chunks
<1>5. AllCovered'
  BY <1>1, <1>2, CoverStays
<1>6. AllHeard'
  BY <1>1, <1>2, <1>3, <1>4 DEF AllHeard
<1>7. QED
  BY <1>5, <1>6

\* A chunk's first window is the chunk.
LEMMA CoverOpen ==
  ASSUME Shape, Control, AllCovered, AllHeard, IsChunked, OpenWindow
  PROVE  AllCovered' /\ AllHeard'
<1>1. /\ IsInTask /\ InTask /\ at = "clip" /\ at' = "attempt" /\ WindowSize # 0
      /\ heard' = heard \cup Samples(Chunk.offset + task.seek, WindowSize)
      /\ UNCHANGED <<options, cut, chunk, lost, returned>>
      /\ task' = [task EXCEPT !.first = FALSE, !.size = WindowSize, !.attempt = 0, !.probe = {}]
      /\ task \in Tasks /\ chunk <= Len(Chunks)
  BY DEF OpenWindow, ClipIsSpent, IsInTask, InTask, callVars, cutVars, Shape, Control
<1>2. /\ Chunk.length \in 1..Window /\ Chunk.offset \in Nat /\ Chunk.length \in Nat
      /\ Window \in Nat /\ returned = {}
  BY <1>1, ChunkInTask
<1>3. task.clips = <<[start |-> 0, end |-> Chunk.length]>>
  BY <1>1 DEF AllHeard
<1>4. Samples(Chunk.offset, Chunk.length) \subseteq heard'
  <2>1. CASE task.clip = 1 /\ task.seek = 0
    <3>1. Clip = [start |-> 0, end |-> Chunk.length]
      BY <1>3, <2>1 DEF Clip
    <3>2. PICK size : size = WindowSize /\ size = SegmentSize(0, Chunk.length, Chunk.length)
      BY <2>1, <3>1 DEF WindowSize
    <3>3. /\ size \in 0..Window /\ size # 0 /\ 0 + size <= Chunk.length
          /\ size = Window \/ 0 + size >= Chunk.length
      BY <1>1, <1>2, <3>2, SegmentSizeFacts
    <3>4. size = Chunk.length
      BY <1>2, <3>3
    <3>5. heard' = heard \cup Samples(Chunk.offset, Chunk.length)
      BY <1>1, <1>2, <2>1, <3>2, <3>4
    <3>6. QED
      BY <3>5
  <2>2. CASE Samples(Chunk.offset, Chunk.length) \subseteq heard
    BY <1>1, <2>2
  <2>3. QED
    BY <1>1, <2>1, <2>2 DEF AllHeard
<1>5. Chunk' = Chunk /\ Chunks' = Chunks /\ task'.clips = task.clips
  BY <1>1 DEF Chunk, Chunks, Tasks
<1>6. AllCovered'
  BY <1>1, <1>2, CoverStays
<1>7. \A c \in 1..Len(Chunks) : c < chunk =>
        Samples(Chunks[c].offset, Chunks[c].length) \subseteq heard' \cup lost
  BY <1>1 DEF AllHeard
<1>8. AllHeard'
  BY <1>1, <1>2, <1>3, <1>4, <1>5, <1>7 DEF AllHeard
<1>9. QED
  BY <1>6, <1>8

\* A step of a run whose chunk has been heard.
LEMMA CoverInRun ==
  ASSUME Shape, Control, AllCovered, AllHeard, IsChunked, InTask, InTask',
         Samples(Chunk.offset, Chunk.length) \subseteq heard,
         UNCHANGED callVars, heard' = heard, task'.clips = task.clips
  PROVE  AllCovered' /\ AllHeard'
<1>1. /\ UNCHANGED <<options, cut, chunk, lost, returned>> /\ returned = {}
      /\ at \notin {"cut", "end"} /\ at' \notin {"cut", "end"}
  BY DEF callVars, cutVars, Control, InTask
<1>2. Chunk' = Chunk /\ Chunks' = Chunks
  BY <1>1 DEF Chunk, Chunks
<1>3. AllCovered'
  BY <1>1, CoverStays
<1>4. AllHeard'
  BY <1>1, <1>2 DEF AllHeard
<1>5. QED
  BY <1>3, <1>4

LEMMA CoverNextClip ==
  ASSUME Shape, Control, AllCovered, AllHeard, IsChunked, NextClip
  PROVE  AllCovered' /\ AllHeard'
<1>1. /\ IsInTask /\ InTask /\ at = "clip" /\ at' = "clip" /\ ClipIsSpent
      /\ heard' = heard /\ UNCHANGED callVars /\ chunk <= Len(Chunks)
      /\ task'.clips = task.clips
  BY DEF NextClip, IsInTask, InTask, Shape, Control, Tasks
<1>2. /\ Chunk.length \in 1..Window /\ Chunk.length \in Nat /\ Window \in Nat
  BY <1>1, ChunkInTask
<1>3. Samples(Chunk.offset, Chunk.length) \subseteq heard
  <2>1. SUFFICES ASSUME task.clip = 1, task.first, task.seek = 0 PROVE FALSE
    BY <1>1 DEF AllHeard
  <2>2. task.clips = <<[start |-> 0, end |-> Chunk.length]>>
    BY <1>1 DEF AllHeard
  <2>3. Clip = [start |-> 0, end |-> Chunk.length]
    BY <2>1, <2>2 DEF Clip
  <2>4. OpensWindow(task.seek, Clip.end, task.first)
    BY <1>2, <2>1, <2>3 DEF OpensWindow
  <2>5. SegmentSize(0, Chunk.length, Chunk.length) = 0
    BY <1>1, <2>1, <2>3, <2>4 DEF ClipIsSpent, WindowSize
  <2>6. Chunk.length <= 0
    BY <1>2, <2>5, SegmentSizeFacts
  <2>7. QED
    BY <1>2, <2>6
<1>4. QED
  BY <1>1, <1>3, CoverInRun DEF InTask

\* The next chunk's turn, once this one is heard or lost.
LEMMA CoverNextChunk ==
  ASSUME Shape, Control, AllCovered, AllHeard, IsChunked, InTask,
         at' = "task", chunk' = chunk + 1, UNCHANGED <<options, cut, returned, heard>>,
         lost \subseteq lost',
         Samples(Chunk.offset, Chunk.length) \subseteq heard \cup lost'
  PROVE  AllCovered' /\ AllHeard'
<1>1. returned = {} /\ at \notin {"cut", "end"} /\ chunk \in Nat
  BY DEF Control, InTask, Shape
<1>2. Chunks' = Chunks
  BY DEF Chunks
<1>3. AllCovered'
  BY <1>1, CoverStays
<1>4. ASSUME NEW c \in 1..Len(Chunks), c < chunk + 1
      PROVE  Samples(Chunks[c].offset, Chunks[c].length) \subseteq heard \cup lost'
  <2>1. c < chunk \/ c = chunk
    BY <1>1, <1>4
  <2>2. CASE c < chunk
    BY <2>2 DEF AllHeard
  <2>3. CASE c = chunk
    BY <2>3 DEF Chunk
  <2>4. QED
    BY <2>1, <2>2, <2>3
<1>5. AllHeard'
  BY <1>1, <1>2, <1>4 DEF AllHeard, InTask
<1>6. QED
  BY <1>3, <1>5

LEMMA CoverFail ==
  ASSUME Shape, Control, AllCovered, AllHeard, IsChunked, InTask, NEW facts, NEW known,
         TaskFails(facts, known)
  PROVE  AllCovered' /\ AllHeard'
<1>1. /\ at' = "task" /\ chunk' = chunk + 1 /\ UNCHANGED <<options, cut, returned, heard>>
      /\ lost' = lost \cup Samples(Chunk.offset, Chunk.length)
  BY DEF TaskFails, cutVars
<1>2. QED
  BY <1>1, CoverNextChunk

LEMMA CoverFinish ==
  ASSUME Shape, Control, AllCovered, AllHeard, IsChunked, FinishTask
  PROVE  AllCovered' /\ AllHeard'
<1>1. /\ InTask /\ at' = "task" /\ chunk' = chunk + 1 /\ task.clip > Len(task.clips)
      /\ UNCHANGED <<options, cut, returned, heard, lost>>
  BY DEF FinishTask, InTask, cutVars
<1>2. Len(task.clips) = 1
  <2>1. PICK clip : task.clips = <<clip>>
    BY <1>1 DEF AllHeard
  <2>2. QED
    BY <2>1
<1>3. Samples(Chunk.offset, Chunk.length) \subseteq heard
  BY <1>1, <1>2 DEF AllHeard
<1>4. QED
  BY <1>1, <1>3, CoverNextChunk

LEMMA NextCut ==
  ASSUME Shape, Control, HeardCut, [Next]_vars
  PROVE  HeardCut'
<1>1. IsChunked' = IsChunked /\ options' = options
  <2>1. options' = options
    <3>1. CASE Next
      <4>1. CASE Refuse \/ TakeWhole \/ CutChunk \/ NextRange \/ EndCut
        BY <4>1 DEF Refuse, TakeWhole, CutChunk, NextRange, EndCut, CallFails, BeginTasks,
           CutUnchanged, cutVars
      <4>2. CASE BeginTask \/ OpenWindow \/ NextClip \/ BackendFails \/ WindowFails
        BY <4>2 DEF BeginTask, OpenWindow, NextClip, BackendFails, WindowFails, TaskFails,
           CallFails, callVars, cutVars
      <4>3. CASE \E outcome \in Outcomes : Attempt(outcome)
        BY <4>3 DEF Attempt, TaskFails, CallFails, callVars, cutVars
      <4>4. CASE FinishWindow \/ SkipWindow
        <5>1. \A found : LeaveWindow(found) => options' = options
          BY DEF LeaveWindow, callVars, cutVars
        <5>2. FinishWindow => \E found : LeaveWindow(found)
          BY FinishParts, Zenon
        <5>3. SkipWindow => TaskFails(sink, seen) \/ \E found : LeaveWindow(found)
          BY DEF SkipWindow
        <5>4. TaskFails(sink, seen) => options' = options
          BY DEF TaskFails, CallFails, cutVars
        <5>5. QED
          BY <4>4, <5>1, <5>2, <5>3, <5>4
      <4>5. CASE FinishTask \/ EndCall
        BY <4>5 DEF FinishTask, EndCall, cutVars
      <4>6. QED
        BY <3>1, <4>1, <4>2, <4>3, <4>4, <4>5, Zenon DEF Next
    <3>2. CASE UNCHANGED vars
      BY <3>2 DEF vars, callVars, cutVars
    <3>3. QED
      BY <3>1, <3>2
  <2>2. QED
    BY <2>1 DEF IsChunked
<1>2. SUFFICES ASSUME IsChunked, ~ClipsRefused(options.clips)
               PROVE  AllCovered' /\ AllHeard'
  BY <1>1 DEF HeardCut
<1>3. AllCovered /\ AllHeard
  BY <1>2 DEF HeardCut
<1>4. ~Refuse /\ ~TakeWhole
  BY <1>2 DEF Refuse, TakeWhole
<1>5. CASE CutChunk
  BY <1>3, <1>5, CoverChunk
<1>6. CASE NextRange
  BY <1>3, <1>6, CoverNextRange
<1>7. CASE EndCut
  BY <1>3, <1>7, CoverEndCut
<1>8. CASE BeginTask
  BY <1>2, <1>3, <1>8, CoverBegin
<1>9. CASE OpenWindow
  BY <1>2, <1>3, <1>9, CoverOpen
<1>10. CASE NextClip
  BY <1>2, <1>3, <1>10, CoverNextClip
<1>11. CASE BackendFails \/ WindowFails
  BY <1>2, <1>3, <1>11, CoverFail DEF BackendFails, WindowFails, InTask
<1>12. InWindow => Samples(Chunk.offset, Chunk.length) \subseteq heard
  BY <1>3 DEF AllHeard, InTask, InWindow
<1>13. ASSUME NEW outcome \in Outcomes, Attempt(outcome)
       PROVE  AllCovered' /\ AllHeard'
  <2>1. InTask /\ InWindow
    BY <1>13 DEF Attempt, InTask, InWindow
  <2>2. CASE outcome.result = "error"
    <3>1. TaskFails(SinkAfter(outcome), SeenAfter(outcome))
      BY <1>13, <2>2 DEF Attempt
    <3>2. QED
      BY <1>2, <1>3, <2>1, <3>1, CoverFail
  <2>3. CASE outcome.result # "error"
    <3>1. /\ at' \in {"attempt", "window"} /\ UNCHANGED callVars /\ heard' = heard
          /\ task'.clips = task.clips
      BY <1>13, <2>3, AttemptParts
    <3>2. InTask'
      BY <3>1 DEF InTask
    <3>3. QED
      BY <1>2, <1>3, <1>12, <2>1, <3>1, <3>2, CoverInRun
  <2>4. QED
    BY <2>2, <2>3
<1>14. ASSUME at = "window", NEW found \in Tasks, found.clips = task.clips, LeaveWindow(found)
       PROVE  AllCovered' /\ AllHeard'
  <2>1. /\ InTask /\ InWindow /\ InTask' /\ UNCHANGED callVars /\ heard' = heard
        /\ task'.clips = task.clips
    BY <1>14 DEF LeaveWindow, InTask, InWindow, Tasks
  <2>2. QED
    BY <1>2, <1>3, <1>12, <2>1, CoverInRun
<1>15. CASE FinishWindow
  <2>1. PICK found, count, advance, wordEnd, survivors, blank :
          /\ Finishes(found, count, advance, wordEnd, survivors, blank)
          /\ LeaveWindow(found)
    BY <1>15, FinishParts, Zenon
  <2>2. found \in Tasks /\ found.clips = task.clips
    BY <2>1, Zenon DEF Finishes
  <2>3. QED
    BY <1>14, <1>15, <2>1, <2>2 DEF FinishWindow
<1>16. CASE SkipWindow
  <2>1. at = "window" /\ InTask
    BY <1>16 DEF SkipWindow, InTask
  <2>2. CASE TaskFails(sink, seen)
    BY <1>2, <1>3, <2>1, <2>2, CoverFail
  <2>3. CASE LeaveWindow(Skipped)
    BY <1>14, <2>1, <2>3, SkippedFacts
  <2>4. QED
    BY <1>16, <2>2, <2>3 DEF SkipWindow, Skipped
<1>17. CASE FinishTask
  BY <1>2, <1>3, <1>17, CoverFinish
<1>18. CASE EndCall
  <2>1. /\ at = "task" /\ at' = "end" /\ chunk > Len(Chunks)
        /\ UNCHANGED <<options, cut, chunk, heard, lost>>
    BY <1>18 DEF EndCall, cutVars
  <2>2. Chunks' = Chunks /\ Chunk' = Chunk
    BY <2>1 DEF Chunks, Chunk
  <2>3. AllCovered'
    BY <1>3, <2>1, CoverStays
  <2>4. AllHeard'
    BY <1>3, <2>1, <2>2 DEF AllHeard, InTask
  <2>5. QED
    BY <2>3, <2>4
<1>19. CASE UNCHANGED vars
  BY <1>3, <1>19 DEF vars, callVars, cutVars, AllCovered, AllHeard, InTask, Chunks, Chunk, Ranges
<1>20. QED
  BY <1>4, <1>5, <1>6, <1>7, <1>8, <1>9, <1>10, <1>11, <1>13, <1>15, <1>16, <1>17, <1>18, <1>19,
     Zenon DEF Next

-----------------------------------------------------------------------------
(* The invariant, and what it means. *)

LEMMA InitIndInv == Init => IndInv
<1> SUFFICES ASSUME Init PROVE IndInv
  OBVIOUS
<1>1. Typed /\ Control
  BY InitShape, ShapeIsTyped, InitControl
<1>2. /\ at = "cut" /\ returned = {} /\ dropped = {} /\ results = <<>> /\ ~InTask /\ chunk = 1
      /\ task.segments = <<>> /\ task.base = 0 /\ task.allocated = 0 /\ task.observed = {}
      /\ cut.clip = 0 /\ Chunks = <<>>
  BY DEF Init, InTask, Idle, Chunks
<1>3. FactsAgree
  <2>1. Tells(sink) /\ seen.language = {}
    BY DEF Init, Tells, TellsOf, ObservedClean, Unknown
  <2>2. QED
    BY <1>2, <2>1 DEF FactsAgree
<1>4. ProbesAgree
  BY <1>2 DEF ProbesAgree, InTask, InWindow
<1>5. IdsAgree
  BY <1>2 DEF IdsAgree, SegmentIds, Below, Rising
<1>6. HeardWhole
  BY <1>2 DEF HeardWhole
<1>7. HeardCut
  <2>1. ~ClipsRefused(options.clips) => Len(Ranges) \in Nat
    BY <1>1, ShapeIsTyped, RangesFacts
  <2>2. ~ClipsRefused(options.clips) => \A j \in 1..Len(Ranges) : ~(j < 0) /\ 0 \notin 1..Len(Ranges)
    BY <2>1
  <2>3. AllHeard
    BY <1>2 DEF AllHeard
  <2>4. ~ClipsRefused(options.clips) => AllCovered
    BY <1>2, <2>1, <2>2 DEF AllCovered
  <2>5. QED
    BY <2>3, <2>4 DEF HeardCut
<1>8. QED
  BY <1>1, <1>3, <1>4, <1>5, <1>6, <1>7 DEF IndInv

LEMMA NextIndInv == IndInv /\ [Next]_vars => IndInv'
<1> SUFFICES ASSUME IndInv, [Next]_vars PROVE IndInv'
  OBVIOUS
<1>1. Shape /\ Control /\ FactsAgree /\ ProbesAgree /\ IdsAgree /\ HeardWhole /\ HeardCut
  BY ShapeIsTyped DEF IndInv
<1>2. Shape' /\ Control'
  BY <1>1, NextShape
<1>3. Typed'
  BY <1>2, ShapeIsTyped, PTL
<1>4. FactsAgree' /\ ProbesAgree' /\ IdsAgree' /\ HeardWhole' /\ HeardCut'
  BY <1>1, NextFacts, NextProbes, NextIds, NextWhole, NextCut
<1>5. QED
  BY <1>2, <1>3, <1>4 DEF IndInv

\* The invariant of a call holds of every call: of any length of audio, any
\* window and padding, any options, and whatever its attempts, its backend
\* and its detector do.
THEOREM Invariance == Spec => []IndInv
<1>1. QED
  BY InitIndInv, NextIndInv, PTL DEF Spec

\* The facts a call tells, and each result it returns, are those of its
\* attempts.
LEMMA FactsTold == IndInv => FactsOutliveErrors
<1> SUFFICES ASSUME IndInv PROVE FactsOutliveErrors
  OBVIOUS
<1>1. Tells(sink) /\ \A r \in returned : r.ok => Tells(r.facts)
  BY DEF IndInv, FactsAgree
<1>2. \A facts \in {sink} \cup {result.facts : result \in {r \in returned : r.ok}} : Tells(facts)
  BY <1>1
<1>3. QED
  BY <1>2 DEF FactsOutliveErrors, Tells, TellsOf

\* Rising ids are distinct.
LEMMA RisingIsInjective ==
  ASSUME NEW ids \in Seq(Nat), Rising(ids)
  PROVE  IsInjective(ids)
<1>1. DOMAIN ids = 1..Len(ids) /\ \A i \in 1..Len(ids) : ids[i] \in Nat
  OBVIOUS
<1>2. ASSUME NEW i \in 1..Len(ids), NEW j \in 1..Len(ids), ids[i] = ids[j]
      PROVE  i = j
  <2>1. ~(i < j) /\ ~(j < i)
    BY <1>1, <1>2 DEF Rising
  <2>2. QED
    BY <2>1
<1>3. QED
  BY <1>1, <1>2 DEF IsInjective

LEMMA IdsTold == IndInv => IdsLieInTheSpan
<1> SUFFICES ASSUME IndInv PROVE IdsLieInTheSpan
  OBVIOUS
<1>1. Shape /\ Control /\ IdsAgree
  BY ShapeIsTyped DEF IndInv
<1>2. results \in Seq(ResultSet) /\ (\A r \in returned : r.ok => r \in ResultSet)
  BY <1>1 DEF Shape, Returns
<1>3. ~IsChunked => results = <<>>
  BY <1>1 DEF Control
<1>4. ASSUME NEW result \in ResultSet,
             options.dropBlank \/ ~IsChunked => Below(result.ids, result.facts.decodedSpan.bound),
             options.dropBlank => Rising(result.ids)
      PROVE  /\ options.dropBlank \/ ~IsChunked =>
                  \A i \in DOMAIN result.ids : result.ids[i] < result.facts.decodedSpan.bound
             /\ options.dropBlank => IsInjective(result.ids)
  <2>1. result.ids \in Seq(Nat) /\ DOMAIN result.ids = 1..Len(result.ids)
    BY ResultFields
  <2>2. QED
    BY <1>4, <2>1, RisingIsInjective DEF Below
<1>5. ASSUME NEW result \in ToSet(results) \cup {r \in returned : r.ok}
      PROVE  /\ options.dropBlank \/ ~IsChunked =>
                  \A i \in DOMAIN result.ids : result.ids[i] < result.facts.decodedSpan.bound
             /\ options.dropBlank => IsInjective(result.ids)
  <2>1. CASE result \in returned /\ result.ok
    BY <1>1, <1>2, <1>4, <2>1 DEF IdsAgree
  <2>2. CASE result \in ToSet(results)
    <3>1. PICK k \in 1..Len(results) : result = results[k]
      BY <1>2, <2>2 DEF ToSet
    <3>2. result \in ResultSet /\ IsChunked
      BY <1>2, <1>3, <3>1
    <3>3. options.dropBlank => /\ Rising(result.ids)
                               /\ Below(result.ids, result.facts.decodedSpan.bound)
      BY <1>1, <3>1 DEF IdsAgree
    <3>4. QED
      BY <1>4, <3>2, <3>3
  <2>3. QED
    BY <1>5, <2>1, <2>2
<1>6. HasReturned /\ dropped # {} => ~Result.facts.decodedSpan.exact
  <2>1. HasReturned => Result \in returned /\ Result.ok
    BY DEF HasReturned, Result
  <2>2. QED
    BY <1>1, <2>1 DEF IdsAgree
<1>7. QED
  BY <1>5, <1>6 DEF IdsLieInTheSpan

LEMMA ClipsHeard == IndInv => EveryClipIsHeard
<1> SUFFICES ASSUME IndInv, HasReturned PROVE EveryClipIsHeard
  BY DEF EveryClipIsHeard
<1>1. Shape /\ Control /\ HeardWhole /\ HeardCut
  BY ShapeIsTyped DEF IndInv
<1>2. Result \in returned /\ Result.ok
  BY DEF HasReturned, Result
<1>3. /\ ~ClipsRefused(options.clips)
      /\ Content \in Nat /\ WindowPadding \in Nat /\ ChunkPadding \in Nat
  BY <1>1, <1>2, TranscribeAssumption, ChunkerAssumption DEF Control
<1>4. Ranges \in Seq(ClipRange) /\ DOMAIN Ranges = 1..Len(Ranges)
  BY <1>1, <1>3, RangesFacts
<1>5. SUFFICES ASSUME NEW i \in 1..Len(Ranges)
      PROVE LET end == Min({Ranges[i].end, Content})
                guarded == end - IF IsChunked THEN ChunkPadding ELSE WindowPadding
            IN  /\ Ranges[i].start..(guarded - 1) \subseteq heard \cup lost
                /\ ~IsChunked /\ Ranges[i].start < end => Ranges[i].start \in heard
  BY <1>4 DEF EveryClipIsHeard
<1>6. PICK start \in Nat, last \in Nat : start = Ranges[i].start /\ last = Ranges[i].end
  <2>1. Ranges[i] \in ClipRange
    BY <1>4
  <2>2. QED
    BY <2>1 DEF ClipRange
<1>7. PICK end \in Nat : /\ end = Min({Ranges[i].end, Content})
                         /\ end <= last /\ end <= Content
  <2>1. /\ Min({last, Content}) \in Nat
        /\ Min({last, Content}) = IF last <= Content THEN last ELSE Content
    BY <1>3, MinOfTwo
  <2>2. Min({last, Content}) <= last /\ Min({last, Content}) <= Content
    BY <1>3, <2>1
  <2>3. QED
    BY <1>6, <2>1, <2>2
<1>8. CASE ~IsChunked
  <2>1. ClipHeard(Ranges[i], heard)
    BY <1>1, <1>2, <1>8 DEF HeardWhole
  <2>2. ASSUME NEW x \in start..(end - WindowPadding - 1) PROVE x \in heard
    <3>1. /\ x \in 0..(Content - 1) /\ start <= x
          /\ x + WindowPadding < last /\ x + WindowPadding < Content
      BY <1>3, <1>7
    <3>2. QED
      BY <1>6, <2>1, <3>1 DEF ClipHeard
  <2>3. start < end => start \in heard
    <3>1. start < end => start < last /\ start < Content
      BY <1>3, <1>7
    <3>2. QED
      BY <1>6, <2>1, <3>1 DEF ClipHeard
  <2>4. QED
    BY <1>6, <1>7, <1>8, <2>2, <2>3
<1>9. CASE IsChunked
  <2>1. ClipCovered(Ranges[i], Chunks) /\ chunk > Len(Chunks) /\ AllHeard
    BY <1>1, <1>2, <1>3, <1>9 DEF HeardCut, AllCovered, AllHeard
  <2>2. ASSUME NEW x \in start..(end - ChunkPadding - 1) PROVE x \in heard \cup lost
    <3>1. /\ x \in 0..(Content - 1) /\ start <= x
          /\ x + ChunkPadding < last /\ x + ChunkPadding < Content
      BY <1>3, <1>7
    <3>2. IsCovered(x, Chunks)
      BY <1>6, <2>1, <3>1 DEF ClipCovered
    <3>3. PICK c \in 1..Len(Chunks) : x \in Samples(Chunks[c].offset, Chunks[c].length)
      BY <3>2 DEF IsCovered
    <3>4. c < chunk
      <4>1. chunk \in Nat /\ Len(Chunks) \in Nat
        BY <1>1 DEF Shape, Cuts, Chunks
      <4>2. QED
        BY <2>1, <4>1
    <3>5. QED
      BY <2>1, <3>3, <3>4 DEF AllHeard
  <2>3. QED
    BY <1>6, <1>7, <1>9, <2>2
<1>10. QED
  BY <1>8, <1>9

\* The state of a call holds together: every listed probe is of an attempt
\* whose text was kept, what a result tells of errors, draws, stops and
\* languages is what the attempts did, dropped chunks and failed runs
\* included, and the ids it gives lie in the span it tells, apart from each
\* other when blank segments are dropped.
THEOREM TaskHoldsTogether == Spec => []TaskHolds
<1>1. IndInv => TaskHolds
  <2>1. IndInv => TypeOK /\ ProbesAreThoseKept
    BY DEF IndInv, Typed, ProbesAgree, ProbesAreThoseKept, InTask
  <2>2. QED
    BY <2>1, FactsTold, IdsTold DEF TaskHolds
<1>2. QED
  BY <1>1, Invariance, PTL

\* A call that returns a transcript has decoded every clip it was asked for,
\* from its first sample to the padding at its end, all but the chunks it
\* dropped, whose results it says it lacks.
THEOREM ClipsAreHeard == Spec => []EveryClipIsHeard
<1>1. QED
  BY ClipsHeard, Invariance, PTL

-----------------------------------------------------------------------------
(* The manager.  A call that is under way says which models it has brought *)
(* up, and a kit which passes it has taken.                                *)

Lefts == {LoadOrder, <<"decoder", "encoder">>, <<"encoder">>, <<>>}
Brought(left) ==
  IF left = <<"encoder">> THEN {"decoder"} ELSE IF left = <<>> THEN Timed ELSE {}
Durations == [Timed -> Nat]

ManagerTyped ==
  /\ state \in ModelStates /\ models \in Nat /\ passes \in Nat /\ passes <= MaxPasses
  /\ timings \in [load : Durations, specialization : Durations]
  /\ call \in [kind : {"none", "prewarm", "load", "unload"}, left : Lefts]
  /\ panicked \in BOOLEAN /\ kit \in {"none", "prewarm", "load", "built", "failed"}

CallSaysItsState ==
  /\ call.kind \in {"none", "unload"} => call.left = <<>>
  /\ call.kind = "unload" => state = "unloading"
  /\ call.kind = "prewarm" =>
       /\ state = "prewarming" /\ passes >= 1
       /\ \A m \in Brought(call.left) : timings.specialization[m] = passes
  /\ call.kind = "load" =>
       /\ state = "loading" /\ passes >= 1
       /\ \A m \in Brought(call.left) : timings.load[m] = passes

LoadedSaysItsPass ==
  state = "loaded" =>
    /\ models \in {0, passes} /\ passes >= 1
    /\ \A m \in Timed : timings.load[m] = passes
    /\ kit = "none" => models # 0

KitSaysItsPasses ==
  /\ passes = 0 => \A m \in Timed : timings.specialization[m] = 0
  /\ kit = "prewarm" =>
       /\ passes = 1
       /\ \/ call.kind = "prewarm"
          \/ /\ IsFree /\ state = "prewarmed"
             /\ \A m \in Timed : timings.specialization[m] = 1
  /\ kit \in {"load", "built"} =>
       /\ call.kind \in {"none", "load"}
       /\ \/ passes = 1 /\ \A m \in Timed : timings.specialization[m] = 0
          \/ passes = 2 /\ \A m \in Timed : timings.specialization[m] = 1

CalmUnlessPanicked ==
  ~panicked =>
    /\ IsFree => ~IsBusy(state)
    /\ models # 0 => state \in {"loaded", "unloading"}

ManagerInd ==
  /\ ManagerTyped /\ CallSaysItsState /\ LoadedSaysItsPass /\ KitSaysItsPasses
  /\ CalmUnlessPanicked

-----------------------------------------------------------------------------
(* The detector.  A failure since a caller's first read is told by the     *)
(* count, and once there is a failure there is an error.                   *)

CallerSet ==
  [at : {"idle", "cutting", "hearing", "cut", "misheard", "failed"}, generation : Nat,
   stretches : Nat, flags : Seq(BOOLEAN), failed : BOOLEAN, overlapped : BOOLEAN,
   error : BOOLEAN]
DetectorTyped ==
  /\ latch \in [generation : Nat, hasError : BOOLEAN]
  /\ caller \in [Callers -> CallerSet]

CountTells(c) ==
  /\ caller[c].at = "idle" => ~caller[c].failed /\ ~caller[c].overlapped
  /\ caller[c].at \in {"cutting", "hearing"} =>
       /\ caller[c].generation <= latch.generation
       /\ caller[c].failed => caller[c].generation < latch.generation
       /\ caller[c].generation # latch.generation => caller[c].failed \/ caller[c].overlapped
  /\ caller[c].at \in {"misheard", "failed"} => latch.generation > 0

DetectorInd ==
  /\ DetectorTyped /\ ModelIsHeldAlone /\ FailuresSurface
  /\ latch.generation > 0 => latch.hasError
  /\ \A c \in Callers : CountTells(c)

-----------------------------------------------------------------------------
(* The batch.  Answers come one batch after the other, and a worker's      *)
(* streams are behind where it stands.                                     *)

WorkerSet ==
  [at : {"none", "window", "attempt", "done", "failed", "panicked"}, window : Nat,
   attempt : Nat, windows : Nat, fallbacks : Nat, id : Nat]
AnswerSet == [audio : Nat, ok : BOOLEAN, stamped : BOOLEAN]
BatchTyped ==
  /\ audios \in Nat /\ batch \in Nat
  /\ worker \in [Places -> WorkerSet]
  /\ answers \in Seq(AnswerSet)
  /\ pool \in {"spawning", "joining", "returned", "panicked"}
  /\ drawn \in [attempts : Nat, streams : SUBSET (Nat \X Nat \X Nat)]

AnswersInOrder ==
  /\ Len(answers) <= audios
  /\ \A k \in 1..Len(answers) :
       /\ answers[k].audio = k - 1 /\ HasEnded(k - 1)
       /\ answers[k].ok = (worker[k - 1].at = "done")
  /\ pool = "returned" =>
       /\ Len(answers) = audios
       /\ \A k \in 1..Len(answers) : answers[k].stamped = answers[k].ok

BatchesInTurn ==
  /\ \A i \in Places : i \div BatchSize < batch => i < Len(answers)
  /\ \A i \in Places : i < Len(answers) =>
       i \div BatchSize < batch \/ (i \div BatchSize = batch /\ pool \in {"joining", "panicked"})
  /\ \A i \in Places : i \div BatchSize > batch => worker[i].at = "none"

IsBehind(s, i) ==
  /\ worker[i].at = "window" => s[2] < worker[i].window
  /\ worker[i].at = "attempt" =>
       s[2] < worker[i].window \/ (s[2] = worker[i].window /\ s[3] < worker[i].attempt)
  /\ worker[i].at # "none"
StreamsBehind ==
  /\ IsFiniteSet(drawn.streams) /\ Cardinality(drawn.streams) = drawn.attempts
  /\ \A s \in drawn.streams : s[1] \in Places /\ IsBehind(s, s[1])

BatchInd == BatchTyped /\ AnswersInOrder /\ BatchesInTurn /\ StreamsBehind

KitInd == ManagerInd /\ DetectorInd /\ BatchInd

-----------------------------------------------------------------------------
(* The manager keeps its books. *)

LEMMA LeftToLoadFacts ==
  /\ LoadOrder \in Lefts /\ <<>> \in Lefts /\ Brought(LoadOrder) = {} /\ Brought(<<>>) = Timed
  /\ \A left \in Lefts : left # <<>> =>
       /\ Tail(left) \in Lefts
       /\ Brought(Tail(left)) \subseteq
            Brought(left) \cup (IF Head(left) \in Timed THEN {Head(left)} ELSE {})
  /\ <<>> # LoadOrder
<1>1. LoadOrder \in Lefts /\ <<>> \in Lefts
  BY DEF Lefts
<1>2. LoadOrder = <<"mel", "decoder", "encoder">> /\ Timed = {"decoder", "encoder"}
  BY DEF LoadOrder, Timed
<1>3. /\ LoadOrder # <<"encoder">> /\ LoadOrder # <<>>
      /\ <<"decoder", "encoder">> # <<"encoder">> /\ <<"decoder", "encoder">> # <<>>
      /\ <<"encoder">> # <<>>
  BY <1>2
<1>4. /\ Brought(LoadOrder) = {} /\ Brought(<<"decoder", "encoder">>) = {}
      /\ Brought(<<"encoder">>) = {"decoder"} /\ Brought(<<>>) = Timed
  BY <1>3 DEF Brought
<1>5. ASSUME NEW left \in Lefts, left # <<>>
      PROVE  /\ Tail(left) \in Lefts
             /\ Brought(Tail(left)) \subseteq
                  Brought(left) \cup (IF Head(left) \in Timed THEN {Head(left)} ELSE {})
  <2>1. CASE left = LoadOrder
    <3>1. Head(left) = "mel" /\ Tail(left) = <<"decoder", "encoder">>
      BY <1>2, <2>1
    <3>2. QED
      BY <1>4, <2>1, <3>1 DEF Lefts
  <2>2. CASE left = <<"decoder", "encoder">>
    <3>1. Head(left) = "decoder" /\ Tail(left) = <<"encoder">>
      BY <2>2
    <3>2. QED
      BY <1>2, <1>4, <2>2, <3>1 DEF Lefts
  <2>3. CASE left = <<"encoder">>
    <3>1. Head(left) = "encoder" /\ Tail(left) = <<>>
      BY <2>3
    <3>2. QED
      BY <1>2, <1>4, <2>3, <3>1 DEF Lefts
  <2>4. QED
    BY <1>5, <2>1, <2>2, <2>3 DEF Lefts
<1>6. QED
  BY <1>1, <1>3, <1>4, <1>5

LEMMA ManagerInitInd == ManagerInit => ManagerInd
<1> SUFFICES ASSUME ManagerInit PROVE ManagerInd
  OBVIOUS
<1>1. NoTimings \in [load : Durations, specialization : Durations]
  BY DEF NoTimings, Durations
<1>2. NoCall \in [kind : {"none", "prewarm", "load", "unload"}, left : Lefts]
  BY LeftToLoadFacts DEF NoCall
<1>3. ManagerTyped
  <2>1. 0 \in Nat /\ 0 <= MaxPasses
    BY ManagerAssumption
  <2>2. QED
    BY <1>1, <1>2, <2>1, Zenon DEF ManagerInit, ManagerTyped, ModelStates
<1>4. CallSaysItsState /\ LoadedSaysItsPass /\ CalmUnlessPanicked
  BY DEF ManagerInit, CallSaysItsState, LoadedSaysItsPass, CalmUnlessPanicked, NoCall, IsBusy
<1>5. KitSaysItsPasses
  BY DEF ManagerInit, KitSaysItsPasses, NoTimings, Timed
<1>6. QED
  BY <1>3, <1>4, <1>5 DEF ManagerInd

\* A load or a prewarm that begins.
LEMMA BeginPassInd ==
  ASSUME ManagerInd, IsFree, state # "loaded", NEW kind \in {"prewarm", "load"}, NEW busy \in ModelStates,
         busy = IF kind = "prewarm" THEN "prewarming" ELSE "loading",
         BeginPass(kind, busy),
         kit' \in {"none", "prewarm", "load"},
         kit' = "prewarm" => kind = "prewarm" /\ passes = 0,
         kit' = "load" => /\ kind = "load"
                          /\ passes = 0 \/ kit = "prewarm"
  PROVE  ManagerInd'
<1>1. /\ passes < MaxPasses /\ passes' = passes + 1 /\ state' = busy
      /\ call' = [kind |-> kind, left |-> LoadOrder]
      /\ UNCHANGED <<models, timings, panicked>>
      /\ passes \in Nat /\ MaxPasses \in Nat
  BY ManagerAssumption DEF BeginPass, ManagerInd, ManagerTyped
<1>2. call'.kind = kind /\ call'.left = LoadOrder /\ call' # NoCall
  BY <1>1 DEF NoCall
<1>3. ManagerTyped'
  BY <1>1, LeftToLoadFacts DEF ManagerInd, ManagerTyped
<1>4. CallSaysItsState'
  BY <1>1, <1>2, LeftToLoadFacts DEF CallSaysItsState
<1>5. LoadedSaysItsPass'
  BY <1>1 DEF LoadedSaysItsPass
<1>6. KitSaysItsPasses'
  <2>1. CASE kit' = "prewarm"
    BY <1>1, <1>2, <2>1 DEF KitSaysItsPasses
  <2>2. CASE kit' = "load"
    <3>1. passes = 0 => \A m \in Timed : timings.specialization[m] = 0
      BY DEF ManagerInd, KitSaysItsPasses
    <3>2. kit = "prewarm" => passes = 1 /\ \A m \in Timed : timings.specialization[m] = 1
      <4>1. call.kind = "none"
        BY DEF IsFree, NoCall
      <4>2. QED
        BY <4>1 DEF ManagerInd, KitSaysItsPasses
    <3>3. QED
      BY <1>1, <1>2, <2>2, <3>1, <3>2 DEF KitSaysItsPasses
  <2>3. CASE kit' = "none"
    BY <1>1, <2>3 DEF KitSaysItsPasses
  <2>4. QED
    BY <2>1, <2>2, <2>3
<1>7. CalmUnlessPanicked'
  <2>1. ~panicked => models = 0
    BY DEF ManagerInd, CalmUnlessPanicked, IsBusy
  <2>2. QED
    BY <1>1, <1>2, <2>1 DEF CalmUnlessPanicked, IsFree
<1>8. QED
  BY <1>3, <1>4, <1>5, <1>6, <1>7 DEF ManagerInd

LEMMA BringUpInd == ManagerInd /\ BringUp => ManagerInd'
<1> SUFFICES ASSUME ManagerInd, BringUp PROVE ManagerInd'
  OBVIOUS
<1>1. /\ call.left \in Lefts /\ call.left # <<>>
      /\ call.kind \in {"none", "prewarm", "load", "unload"}
      /\ passes \in Nat /\ timings \in [load : Durations, specialization : Durations]
      /\ call = [kind |-> call.kind, left |-> call.left]
  BY DEF BringUp, ManagerInd, ManagerTyped
<1>2. PICK model : model = Head(call.left)
  OBVIOUS
<1> DEFINE taken(durations) ==
             IF model \in Timed THEN [durations EXCEPT ![model] = passes] ELSE durations
<1>3. /\ timings' = IF call.kind = "load" THEN [timings EXCEPT !.load = taken(@)]
                    ELSE [timings EXCEPT !.specialization = taken(@)]
      /\ call' = [call EXCEPT !.left = Tail(@)]
      /\ UNCHANGED <<state, models, passes, panicked, kit>>
  BY <1>2 DEF BringUp
<1>4. call.kind \in {"prewarm", "load"}
  BY <1>1 DEF ManagerInd, CallSaysItsState
<1>5. /\ call'.kind = call.kind /\ call'.left = Tail(call.left)
      /\ call' \in [kind : {"none", "prewarm", "load", "unload"}, left : Lefts]
  BY <1>1, <1>3, LeftToLoadFacts
<1>6. \A d \in Durations :
        /\ taken(d) \in Durations
        /\ \A m \in Timed : taken(d)[m] = IF m = model THEN passes ELSE d[m]
  BY <1>1 DEF Durations
<1>7. Brought(call'.left) \subseteq Brought(call.left) \cup {model} /\ Brought(call'.left) \subseteq Timed
  BY <1>1, <1>2, <1>5, LeftToLoadFacts DEF Brought, Timed
<1> HIDE DEF taken
<1>8. /\ timings' \in [load : Durations, specialization : Durations]
      /\ call.kind = "load" => /\ timings'.specialization = timings.specialization
                               /\ timings'.load = taken(timings.load)
      /\ call.kind # "load" => /\ timings'.load = timings.load
                               /\ timings'.specialization = taken(timings.specialization)
  BY <1>1, <1>3, <1>6
<1>9. ManagerTyped'
  BY <1>3, <1>5, <1>8 DEF ManagerInd, ManagerTyped
<1>10. CallSaysItsState'
  <2>1. ASSUME call.kind = "prewarm", NEW m \in Brought(call'.left)
        PROVE  timings'.specialization[m] = passes
    BY <1>1, <1>6, <1>7, <1>8, <2>1 DEF ManagerInd, CallSaysItsState
  <2>2. ASSUME call.kind = "load", NEW m \in Brought(call'.left)
        PROVE  timings'.load[m] = passes
    BY <1>1, <1>6, <1>7, <1>8, <2>2 DEF ManagerInd, CallSaysItsState
  <2>3. QED
    BY <1>3, <1>4, <1>5, <2>1, <2>2 DEF ManagerInd, CallSaysItsState
<1>11. LoadedSaysItsPass'
  BY <1>3, <1>4 DEF ManagerInd, CallSaysItsState, LoadedSaysItsPass
<1>12. KitSaysItsPasses'
  <2>1. passes >= 1
    BY <1>4 DEF ManagerInd, CallSaysItsState
  <2>2. kit \in {"load", "built"} => call.kind = "load"
    BY <1>4 DEF ManagerInd, KitSaysItsPasses
  <2>3. kit = "prewarm" => call.kind = "prewarm"
    BY <1>4 DEF ManagerInd, KitSaysItsPasses, IsFree, NoCall
  <2>4. QED
    BY <1>1, <1>3, <1>5, <1>8, <2>1, <2>2, <2>3 DEF ManagerInd, KitSaysItsPasses
<1>13. CalmUnlessPanicked'
  <2>1. ~IsFree /\ ~IsFree'
    BY <1>4, <1>5 DEF IsFree, NoCall
  <2>2. QED
    BY <1>3, <2>1 DEF ManagerInd, CalmUnlessPanicked
<1>14. QED
  BY <1>9, <1>10, <1>11, <1>12, <1>13 DEF ManagerInd

\* A call that is over leaves no call.
LEMMA OverFacts ==
  ASSUME call' = NoCall
  PROVE  /\ call'.kind = "none" /\ call'.left = <<>> /\ IsFree'
         /\ call' \in [kind : {"none", "prewarm", "load", "unload"}, left : Lefts]
         /\ CallSaysItsState'
BY LeftToLoadFacts DEF NoCall, IsFree, CallSaysItsState

LEMMA BringUpFailsInd == ManagerInd /\ BringUpFails => ManagerInd'
<1> SUFFICES ASSUME ManagerInd, BringUpFails PROVE ManagerInd'
  OBVIOUS
<1>1. /\ call.left # <<>> /\ state' = "unloaded" /\ call' = NoCall
      /\ kit' = IF kit = "none" THEN kit ELSE "failed"
      /\ UNCHANGED <<models, timings, passes, panicked>>
  BY DEF BringUpFails
<1>2. ManagerTyped'
  BY <1>1, OverFacts DEF ManagerInd, ManagerTyped, ModelStates
<1>3. LoadedSaysItsPass' /\ CallSaysItsState' /\ KitSaysItsPasses'
  BY <1>1, OverFacts DEF ManagerInd, LoadedSaysItsPass, KitSaysItsPasses
<1>4. CalmUnlessPanicked'
  <2>1. call.kind \in {"prewarm", "load"}
    BY <1>1 DEF ManagerInd, ManagerTyped, CallSaysItsState
  <2>2. ~panicked => models = 0
    BY <2>1 DEF ManagerInd, CalmUnlessPanicked, CallSaysItsState
  <2>3. QED
    BY <1>1, <2>2 DEF CalmUnlessPanicked, IsBusy
<1>5. QED
  BY <1>2, <1>3, <1>4 DEF ManagerInd

LEMMA EndPrewarmInd == ManagerInd /\ EndPrewarm => ManagerInd'
<1> SUFFICES ASSUME ManagerInd, EndPrewarm PROVE ManagerInd'
  OBVIOUS
<1>1. /\ call.kind = "prewarm" /\ call.left = <<>> /\ state' = "prewarmed" /\ call' = NoCall
      /\ UNCHANGED <<models, timings, passes, panicked, kit>>
  BY DEF EndPrewarm
<1>2. ManagerTyped'
  BY <1>1, OverFacts DEF ManagerInd, ManagerTyped, ModelStates
<1>3. LoadedSaysItsPass' /\ CallSaysItsState'
  BY <1>1, OverFacts DEF LoadedSaysItsPass
<1>4. KitSaysItsPasses'
  <2>1. \A m \in Timed : timings.specialization[m] = passes
    BY <1>1, LeftToLoadFacts DEF ManagerInd, CallSaysItsState
  <2>2. IsFree' /\ state' = "prewarmed"
    BY <1>1, OverFacts
  <2>3. QED
    BY <1>1, <2>1, <2>2 DEF ManagerInd, KitSaysItsPasses
<1>5. CalmUnlessPanicked'
  <2>1. ~panicked => models = 0
    BY <1>1 DEF ManagerInd, CalmUnlessPanicked, CallSaysItsState
  <2>2. QED
    BY <1>1, <2>1 DEF CalmUnlessPanicked, IsBusy
<1>6. QED
  BY <1>2, <1>3, <1>4, <1>5 DEF ManagerInd

LEMMA EndLoadInd == ManagerInd /\ EndLoad => ManagerInd'
<1> SUFFICES ASSUME ManagerInd, EndLoad PROVE ManagerInd'
  OBVIOUS
<1>1. /\ call.kind = "load" /\ call.left = <<>> /\ models' = passes /\ state' = "loaded"
      /\ call' = NoCall /\ UNCHANGED <<timings, passes, panicked, kit>>
  BY DEF EndLoad
<1>2. ManagerTyped'
  BY <1>1, OverFacts DEF ManagerInd, ManagerTyped, ModelStates
<1>3. LoadedSaysItsPass' /\ CallSaysItsState'
  <2>1. passes >= 1 /\ \A m \in Timed : timings.load[m] = passes
    BY <1>1, LeftToLoadFacts DEF ManagerInd, CallSaysItsState
  <2>2. QED
    BY <1>1, <2>1, OverFacts DEF LoadedSaysItsPass
<1>4. KitSaysItsPasses'
  <2>1. ~IsFree /\ kit # "prewarm"
    BY <1>1 DEF IsFree, NoCall, ManagerInd, KitSaysItsPasses
  <2>2. QED
    BY <1>1, <2>1, OverFacts DEF ManagerInd, KitSaysItsPasses
<1>5. CalmUnlessPanicked'
  BY <1>1 DEF CalmUnlessPanicked, IsBusy
<1>6. QED
  BY <1>2, <1>3, <1>4, <1>5 DEF ManagerInd

LEMMA UnloadInd == ManagerInd /\ (Unload \/ EndUnload) => ManagerInd'
<1>1. ASSUME ManagerInd, Unload PROVE ManagerInd'
  <2>1. /\ IsFree /\ kit = "none" /\ state' = "unloading"
        /\ call' = [kind |-> "unload", left |-> <<>>]
        /\ UNCHANGED <<models, timings, passes, panicked, kit>>
    BY <1>1 DEF Unload
  <2>2. call'.kind = "unload" /\ call'.left = <<>> /\ ~IsFree'
    BY <2>1 DEF IsFree, NoCall
  <2>3. ManagerTyped'
    BY <1>1, <2>1, LeftToLoadFacts DEF ManagerInd, ManagerTyped, ModelStates
  <2>4. CallSaysItsState' /\ LoadedSaysItsPass' /\ KitSaysItsPasses' /\ CalmUnlessPanicked'
    BY <1>1, <2>1, <2>2
       DEF ManagerInd, CallSaysItsState, LoadedSaysItsPass, KitSaysItsPasses, CalmUnlessPanicked
  <2>5. QED
    BY <2>3, <2>4 DEF ManagerInd
<1>2. ASSUME ManagerInd, EndUnload PROVE ManagerInd'
  <2>1. /\ call.kind = "unload" /\ models' = 0 /\ state' = "unloaded" /\ call' = NoCall
        /\ UNCHANGED <<timings, passes, panicked, kit>>
    BY <1>2 DEF EndUnload
  <2>2. ManagerTyped'
    BY <1>2, <2>1, OverFacts DEF ManagerInd, ManagerTyped, ModelStates
  <2>3. CallSaysItsState' /\ LoadedSaysItsPass' /\ CalmUnlessPanicked'
    BY <2>1, OverFacts DEF LoadedSaysItsPass, CalmUnlessPanicked, IsBusy
  <2>4. KitSaysItsPasses'
    <3>1. kit \notin {"prewarm", "load", "built"}
      BY <1>2, <2>1 DEF ManagerInd, KitSaysItsPasses, IsFree, NoCall
    <3>2. QED
      BY <1>2, <2>1, <3>1 DEF ManagerInd, KitSaysItsPasses
  <2>5. QED
    BY <2>2, <2>3, <2>4 DEF ManagerInd
<1>3. QED
  BY <1>1, <1>2

LEMMA CallbackPanicsInd == ManagerInd /\ CallbackPanics => ManagerInd'
<1> SUFFICES ASSUME ManagerInd, CallbackPanics PROVE ManagerInd'
  OBVIOUS
<1>1. /\ kit = "none" /\ call' = NoCall /\ panicked' = TRUE /\ IsBusy(state)
      /\ UNCHANGED <<state, models, timings, passes, kit>>
  BY DEF CallbackPanics
<1>2. ManagerTyped'
  BY <1>1, OverFacts DEF ManagerInd, ManagerTyped
<1>3. CallSaysItsState' /\ LoadedSaysItsPass' /\ KitSaysItsPasses' /\ CalmUnlessPanicked'
  BY <1>1, OverFacts
     DEF ManagerInd, LoadedSaysItsPass, KitSaysItsPasses, CalmUnlessPanicked, IsBusy
<1>4. QED
  BY <1>2, <1>3 DEF ManagerInd

LEMMA KitStepsInd == ManagerInd /\ (RefuseKit \/ TakeModels) => ManagerInd'
<1>1. ASSUME ManagerInd, RefuseKit PROVE ManagerInd'
  BY <1>1 DEF RefuseKit, ManagerInd, ManagerTyped, CallSaysItsState, LoadedSaysItsPass,
              KitSaysItsPasses, CalmUnlessPanicked, IsFree
<1>2. ASSUME ManagerInd, TakeModels PROVE ManagerInd'
  <2>1. /\ IsFree /\ kit = "load" /\ state = "loaded" /\ kit' \in {"built", "failed"}
        /\ models' = 0 /\ UNCHANGED <<state, timings, call, passes, panicked>>
    BY <1>2 DEF TakeModels
  <2>2. ManagerTyped' /\ CallSaysItsState'
    BY <1>2, <2>1 DEF ManagerInd, ManagerTyped, CallSaysItsState
  <2>3. LoadedSaysItsPass' /\ KitSaysItsPasses' /\ CalmUnlessPanicked'
    BY <1>2, <2>1 DEF ManagerInd, LoadedSaysItsPass, KitSaysItsPasses, CalmUnlessPanicked,
                      IsFree, IsBusy
  <2>4. QED
    BY <2>2, <2>3 DEF ManagerInd
<1>3. QED
  BY <1>1, <1>2

LEMMA ManagerStep == ManagerInd /\ [ManagerNext]_managerVars => ManagerInd'
<1> SUFFICES ASSUME ManagerInd, [ManagerNext]_managerVars PROVE ManagerInd'
  OBVIOUS
<1>1. CASE UNCHANGED managerVars
  BY <1>1 DEF managerVars, ManagerInd, ManagerTyped, CallSaysItsState, LoadedSaysItsPass,
              KitSaysItsPasses, CalmUnlessPanicked, IsFree
<1>2. {"prewarming", "loading"} \subseteq ModelStates
  BY DEF ModelStates
<1>3. CASE Prewarm
  BY <1>2, <1>3, BeginPassInd DEF Prewarm, MayPrewarm
<1>4. CASE EnsureLoaded
  BY <1>2, <1>4, BeginPassInd DEF EnsureLoaded
<1>5. passes = 0 => state # "loaded"
  BY DEF ManagerInd, LoadedSaysItsPass
<1>6. CASE NewKit(TRUE)
  BY <1>2, <1>5, <1>6, BeginPassInd DEF NewKit
<1>7. CASE NewKit(FALSE)
  BY <1>2, <1>5, <1>7, BeginPassInd DEF NewKit
<1>8. CASE LoadKit
  <2>1. state # "loaded"
    BY <1>8 DEF LoadKit, ManagerInd, KitSaysItsPasses, IsFree, NoCall
  <2>2. QED
    BY <1>2, <1>8, <2>1, BeginPassInd DEF LoadKit
<1>9. QED
  BY <1>1, <1>3, <1>4, <1>6, <1>7, <1>8, BringUpInd, BringUpFailsInd, EndPrewarmInd,
     EndLoadInd, UnloadInd, CallbackPanicsInd, KitStepsInd DEF ManagerNext

LEMMA ManagerIndHolds == ManagerInd => ManagerHolds
<1> SUFFICES ASSUME ManagerInd PROVE ManagerHolds
  OBVIOUS
<1>1. state \in ModelStates /\ passes \in 0..MaxPasses /\ models \in Nat
  BY ManagerAssumption DEF ManagerInd, ManagerTyped
<1>2. QED
  BY <1>1 DEF ManagerHolds, ManagerInd, LoadedSaysItsPass, KitSaysItsPasses, CalmUnlessPanicked

-----------------------------------------------------------------------------
(* A failure surfaces. *)

LEMMA DetectorInitInd == DetectorInit => DetectorInd
<1> SUFFICES ASSUME DetectorInit PROVE DetectorInd
  OBVIOUS
<1>1. IdleCaller \in CallerSet
  BY DEF IdleCaller, CallerSet
<1>2. DetectorTyped
  BY <1>1 DEF DetectorInit, DetectorTyped
<1>3. \A c \in Callers : caller[c] = IdleCaller
  BY DEF DetectorInit
<1>4. QED
  BY <1>2, <1>3
     DEF DetectorInit, DetectorInd, ModelIsHeldAlone, FailuresSurface, CountTells, IdleCaller

\* What a caller's own step leaves of the others.
LEMMA CallerSteps ==
  ASSUME DetectorInd, NEW c \in Callers, NEW new \in CallerSet,
         caller' = [caller EXCEPT ![c] = new], UNCHANGED latch,
         (new.at = "hearing") = (holder' = {c}),
         \A d \in Callers \ {c} : (holder' = {d}) = (holder = {d}),
         new.at = "cut" => ~new.failed,
         new.at \in {"misheard", "failed"} => new.failed \/ new.overlapped,
         new.at = "failed" => new.error,
         CountTells(c)'
  PROVE  DetectorInd'
<1>1. caller \in [Callers -> CallerSet]
  BY DEF DetectorInd, DetectorTyped
<1>2. /\ caller' \in [Callers -> CallerSet] /\ caller'[c] = new
      /\ \A d \in Callers \ {c} : caller'[d] = caller[d]
  BY <1>1
<1>3. DetectorTyped'
  BY <1>2 DEF DetectorInd, DetectorTyped
<1>4. ModelIsHeldAlone' /\ FailuresSurface'
  BY <1>2 DEF DetectorInd, ModelIsHeldAlone, FailuresSurface
<1>5. \A d \in Callers \ {c} : CountTells(d)'
  BY <1>2 DEF DetectorInd, CountTells
<1>6. QED
  BY <1>3, <1>4, <1>5 DEF DetectorInd

LEMMA DetectorStep == DetectorInd /\ [DetectorNext]_detectorVars => DetectorInd'
<1> SUFFICES ASSUME DetectorInd, [DetectorNext]_detectorVars PROVE DetectorInd'
  OBVIOUS
<1>1. CASE UNCHANGED detectorVars
  BY <1>1 DEF detectorVars, DetectorInd, DetectorTyped, ModelIsHeldAlone, FailuresSurface, CountTells
<1>2. /\ caller \in [Callers -> CallerSet] /\ latch \in [generation : Nat, hasError : BOOLEAN]
      /\ latch.generation \in Nat
  BY DEF DetectorInd, DetectorTyped
<1>3. SUFFICES ASSUME NEW c \in Callers,
                      \/ Snapshot(c) \/ Hear(c) \/ FrameHeard(c, TRUE) \/ FrameHeard(c, FALSE)
                      \/ FrameFails(c) \/ StretchHeard(c) \/ Compare(c) \/ ReadError(c)
               PROVE  DetectorInd'
  BY <1>1 DEF DetectorNext
<1> DEFINE old == caller[c]
<1>4. /\ old \in CallerSet /\ CountTells(c) /\ (old.at = "hearing") = (holder = {c})
      /\ old.at = "cut" => ~old.failed
      /\ old.at \in {"misheard", "failed"} => old.failed \/ old.overlapped
      /\ old.at = "failed" => old.error
      /\ latch.generation > 0 => latch.hasError
  BY <1>2 DEF DetectorInd, ModelIsHeldAlone, FailuresSurface
<1>5. CASE Snapshot(c)
  <2>1. PICK new \in CallerSet : new = [old EXCEPT !.at = "cutting", !.generation = latch.generation]
    BY <1>2, <1>4 DEF CallerSet
  <2>2. caller' = [caller EXCEPT ![c] = new] /\ UNCHANGED <<latch, holder>> /\ old.at = "idle"
    BY <1>2, <1>5, <2>1 DEF Snapshot, CallerSet
  <2>3. /\ new.at = "cutting" /\ new.generation = latch.generation /\ new.failed = old.failed
        /\ new.overlapped = old.overlapped /\ caller'[c] = new
    BY <1>2, <1>4, <2>1, <2>2 DEF CallerSet
  <2>4. CountTells(c)'
    BY <1>2, <1>4, <2>2, <2>3 DEF CountTells
  <2>5. QED
    BY <1>4, <2>2, <2>3, <2>4, CallerSteps
<1>6. CASE Hear(c)
  <2>1. PICK new \in CallerSet :
          new = [old EXCEPT !.at = "hearing", !.stretches = @ + 1, !.flags = <<>>]
    <3>1. old.stretches + 1 \in Nat /\ <<>> \in Seq(BOOLEAN)
      BY <1>4 DEF CallerSet
    <3>2. QED
      BY <1>4, <3>1 DEF CallerSet
  <2>2. /\ caller' = [caller EXCEPT ![c] = new] /\ UNCHANGED latch /\ old.at = "cutting"
        /\ holder = {} /\ holder' = {c}
    BY <1>2, <1>6, <2>1 DEF Hear, CallerSet
  <2>3. /\ new.at = "hearing" /\ new.generation = old.generation /\ new.failed = old.failed
        /\ new.overlapped = old.overlapped /\ caller'[c] = new
    BY <1>2, <1>4, <2>1, <2>2 DEF CallerSet
  <2>4. CountTells(c)'
    BY <1>2, <1>4, <2>2, <2>3 DEF CountTells
  <2>5. \A d \in Callers \ {c} : (holder' = {d}) = (holder = {d})
    BY <2>2
  <2>6. QED
    BY <1>4, <2>2, <2>3, <2>4, <2>5, CallerSteps
<1>7. CASE FrameHeard(c, TRUE) \/ FrameHeard(c, FALSE)
  <2>1. PICK active \in BOOLEAN : FrameHeard(c, active)
    BY <1>7
  <2>2. PICK new \in CallerSet : new = [old EXCEPT !.flags = Append(@, active)]
    <3>1. Append(old.flags, active) \in Seq(BOOLEAN)
      <4>1. old.flags \in Seq(BOOLEAN)
        BY <1>4 DEF CallerSet
      <4>2. QED
        BY <4>1
    <3>2. QED
      BY <1>4, <3>1 DEF CallerSet
  <2>3. caller' = [caller EXCEPT ![c] = new] /\ UNCHANGED <<latch, holder>> /\ old.at = "hearing"
    BY <1>2, <2>1, <2>2 DEF FrameHeard, CallerSet
  <2>4. /\ new.at = "hearing" /\ new.generation = old.generation /\ new.failed = old.failed
        /\ new.overlapped = old.overlapped /\ caller'[c] = new
    BY <1>2, <1>4, <2>2, <2>3 DEF CallerSet
  <2>5. CountTells(c)'
    BY <1>2, <1>4, <2>3, <2>4 DEF CountTells
  <2>6. QED
    BY <1>4, <2>3, <2>4, <2>5, CallerSteps
<1>8. CASE StretchHeard(c)
  <2>1. PICK new \in CallerSet : new = [old EXCEPT !.at = "cutting"]
    BY <1>2, <1>4 DEF CallerSet
  <2>2. /\ caller' = [caller EXCEPT ![c] = new] /\ UNCHANGED latch /\ old.at = "hearing"
        /\ holder = {c} /\ holder' = {}
    BY <1>2, <1>4, <1>8, <2>1 DEF StretchHeard, CallerSet
  <2>3. /\ new.at = "cutting" /\ new.generation = old.generation /\ new.failed = old.failed
        /\ new.overlapped = old.overlapped /\ caller'[c] = new
    BY <1>2, <1>4, <2>1, <2>2 DEF CallerSet
  <2>4. CountTells(c)'
    BY <1>2, <1>4, <2>2, <2>3 DEF CountTells
  <2>5. \A d \in Callers \ {c} : (holder' = {d}) = (holder = {d})
    BY <2>2
  <2>6. QED
    BY <1>4, <2>2, <2>3, <2>4, <2>5, CallerSteps
<1>9. CASE Compare(c)
  <2>1. PICK new \in CallerSet :
          new = [old EXCEPT !.at = IF latch.generation # old.generation THEN "misheard" ELSE "cut"]
    BY <1>2, <1>4 DEF CallerSet
  <2>2. caller' = [caller EXCEPT ![c] = new] /\ UNCHANGED <<latch, holder>> /\ old.at = "cutting"
    BY <1>2, <1>9, <2>1 DEF Compare, CallerSet
  <2>3. /\ new.at = IF latch.generation # old.generation THEN "misheard" ELSE "cut"
        /\ new.generation = old.generation /\ new.failed = old.failed
        /\ new.overlapped = old.overlapped /\ caller'[c] = new /\ old.generation \in Nat
    BY <1>2, <1>4, <2>1, <2>2 DEF CallerSet
  <2>4. CountTells(c)'
    BY <1>2, <1>4, <2>2, <2>3 DEF CountTells
  <2>5. /\ new.at = "cut" => ~new.failed
        /\ new.at = "misheard" => new.failed \/ new.overlapped
    BY <1>2, <1>4, <2>2, <2>3 DEF CountTells
  <2>6. QED
    BY <1>4, <2>2, <2>3, <2>4, <2>5, CallerSteps
<1>10. CASE ReadError(c)
  <2>1. PICK new \in CallerSet : new = [old EXCEPT !.at = "failed", !.error = latch.hasError]
    BY <1>2, <1>4 DEF CallerSet
  <2>2. caller' = [caller EXCEPT ![c] = new] /\ UNCHANGED <<latch, holder>> /\ old.at = "misheard"
    BY <1>2, <1>10, <2>1 DEF ReadError, CallerSet
  <2>3. /\ new.at = "failed" /\ new.failed = old.failed /\ new.error = latch.hasError
        /\ new.overlapped = old.overlapped /\ caller'[c] = new
    BY <1>2, <1>4, <2>1, <2>2 DEF CallerSet
  <2>4. CountTells(c)' /\ new.error
    BY <1>2, <1>4, <2>2, <2>3 DEF CountTells
  <2>5. QED
    BY <1>4, <2>2, <2>3, <2>4, CallerSteps
<1>11. CASE FrameFails(c)
  <2>1. /\ old.at = "hearing" /\ holder' = holder
        /\ latch' = [generation |-> latch.generation + 1, hasError |-> TRUE]
        /\ caller' = [d \in Callers |->
             IF d = c THEN [old EXCEPT !.flags = Append(@, FALSE), !.failed = TRUE]
             ELSE [caller[d] EXCEPT !.overlapped = @ \/ caller[d].at # "idle"]]
    BY <1>11 DEF FrameFails
  <2>2. /\ caller'[c] \in CallerSet /\ caller'[c].at = "hearing" /\ caller'[c].failed = TRUE
        /\ caller'[c].generation = old.generation
    <3>1. Append(old.flags, FALSE) \in Seq(BOOLEAN)
      <4>1. old.flags \in Seq(BOOLEAN)
        BY <1>4 DEF CallerSet
      <4>2. QED
        BY <4>1
    <3>2. caller'[c] = [old EXCEPT !.flags = Append(@, FALSE), !.failed = TRUE]
      BY <2>1
    <3>3. QED
      BY <1>4, <2>1, <3>1, <3>2 DEF CallerSet
  <2>3. ASSUME NEW d \in Callers \ {c}
        PROVE  /\ caller'[d] \in CallerSet /\ caller'[d].at = caller[d].at
               /\ caller'[d].failed = caller[d].failed /\ caller'[d].error = caller[d].error
               /\ caller'[d].generation = caller[d].generation
               /\ caller'[d].overlapped = (caller[d].overlapped \/ caller[d].at # "idle")
    BY <1>2, <2>1 DEF CallerSet
  <2>4. /\ latch'.generation = latch.generation + 1 /\ latch'.hasError = TRUE
        /\ latch' \in [generation : Nat, hasError : BOOLEAN]
    BY <1>2, <2>1
  <2>5. DetectorTyped'
    <3>1. \A d \in Callers : caller'[d] \in CallerSet
      BY <2>2, <2>3
    <3>2. QED
      BY <2>1, <2>4, <3>1 DEF DetectorTyped
  <2>6. ModelIsHeldAlone' /\ FailuresSurface'
    <3>1. ModelIsHeldAlone'
      BY <2>1, <2>2, <2>3 DEF DetectorInd, ModelIsHeldAlone
    <3>2. ASSUME NEW d \in Callers \ {c}
          PROVE  /\ caller'[d].at = "cut" => ~caller'[d].failed
                 /\ caller'[d].at \in {"misheard", "failed"}
                      => caller'[d].failed \/ caller'[d].overlapped
                 /\ caller'[d].at = "failed" => caller'[d].error
      <4>1. /\ caller[d].at = "cut" => ~caller[d].failed
            /\ caller[d].at \in {"misheard", "failed"} => caller[d].failed \/ caller[d].overlapped
            /\ caller[d].at = "failed" => caller[d].error
        BY DEF DetectorInd, FailuresSurface
      <4>2. QED
        BY <2>3, <4>1, Zenon
    <3>3. QED
      BY <2>2, <3>1, <3>2 DEF FailuresSurface
  <2>7. CountTells(c)'
    <3>1. old.generation \in Nat /\ old.generation <= latch.generation
      BY <1>4, <2>1 DEF CallerSet, CountTells
    <3>2. QED
      BY <1>2, <2>2, <2>4, <3>1 DEF CountTells
  <2>8. ASSUME NEW d \in Callers \ {c} PROVE CountTells(d)'
    <3>1. CountTells(d) /\ caller[d].generation \in Nat
      BY <1>2 DEF DetectorInd, CallerSet
    <3>3. caller[d].at \in {"cutting", "hearing"} => caller'[d].overlapped
      BY <2>3
    <3>4. caller[d].at = "idle" => ~caller'[d].failed /\ ~caller'[d].overlapped
      BY <2>3, <3>1 DEF CountTells
    <3>5. caller[d].at \in {"cutting", "hearing"} =>
            /\ caller'[d].generation <= latch'.generation
            /\ caller'[d].failed => caller'[d].generation < latch'.generation
      <4>1. /\ caller'[d].generation = caller[d].generation
            /\ caller'[d].failed = caller[d].failed /\ latch'.generation = latch.generation + 1
        BY <2>3, <2>4
      <4>2. caller[d].at \in {"cutting", "hearing"} =>
              /\ caller[d].generation <= latch.generation
              /\ caller[d].failed => caller[d].generation < latch.generation
        BY <3>1 DEF CountTells
      <4>3. QED
        BY <1>2, <3>1, <4>1, <4>2
    <3>6. latch'.generation > 0 /\ caller'[d].at = caller[d].at
      BY <1>2, <2>3, <2>4
    <3>7. QED
      BY <3>3, <3>4, <3>5, <3>6, Zenon DEF CountTells
  <2>9. QED
    BY <2>4, <2>5, <2>6, <2>7, <2>8 DEF DetectorInd
<1>12. QED
  BY <1>3, <1>5, <1>6, <1>7, <1>8, <1>9, <1>10, <1>11

-----------------------------------------------------------------------------
(* The batches. *)

LEMMA BatchOf ==
  ASSUME NEW i \in Nat
  PROVE  /\ i \div BatchSize \in Nat
         /\ (i \div BatchSize) * BatchSize <= i
         /\ i < (i \div BatchSize) * BatchSize + BatchSize
         /\ GlobalIndex(i) = i
<1>1. BatchSize \in Nat /\ BatchSize > 0
  BY BatchAssumption
<1>2. i \div BatchSize \in Nat /\ i % BatchSize \in 0..(BatchSize - 1)
      /\ i = BatchSize * (i \div BatchSize) + (i % BatchSize)
  BY <1>1
<1>3. PICK q, rest \in Nat : q = i \div BatchSize /\ rest = i % BatchSize
  BY <1>2
<1>4. i = BatchSize * q + rest /\ rest < BatchSize
  BY <1>1, <1>2, <1>3
<1>5. BatchSize * q = q * BatchSize /\ q * BatchSize \in Nat
  BY <1>1
<1>6. q * BatchSize <= i /\ i < q * BatchSize + BatchSize /\ rest + q * BatchSize = i
  BY <1>1, <1>4, <1>5
<1>7. QED
  BY <1>3, <1>6 DEF GlobalIndex

LEMMA BatchOrder ==
  ASSUME NEW i \in Nat, NEW b \in Nat
  PROVE  /\ b * BatchSize \in Nat
         /\ b * BatchSize <= i /\ i < b * BatchSize + BatchSize => i \div BatchSize = b
         /\ i \div BatchSize > b => b * BatchSize + BatchSize <= i
         /\ \A j \in Nat : i <= j => i \div BatchSize <= j \div BatchSize
<1>1. BatchSize \in Nat /\ BatchSize > 0
  BY BatchAssumption
<1>2. \A p, q \in Nat : p < q => p * BatchSize + BatchSize <= q * BatchSize
  <2> TAKE p, q \in Nat
  <2> HAVE p < q
  <2>1. PICK d \in Nat : q = p + 1 + d
    <3>1. q - p - 1 \in Nat /\ q = p + 1 + (q - p - 1)
      OBVIOUS
    <3>2. QED
      BY <3>1
  <2>2. q * BatchSize = p * BatchSize + BatchSize + d * BatchSize
    BY <1>1, <2>1
  <2>3. d * BatchSize \in Nat /\ p * BatchSize \in Nat
    BY <1>1
  <2>4. QED
    BY <1>1, <2>2, <2>3
<1>3. ASSUME NEW k \in Nat, NEW c \in Nat, NEW q \in Nat, q = k \div BatchSize
      PROVE  /\ q > c => c * BatchSize + BatchSize <= k
             /\ q < c => k < c * BatchSize
  <2>1. q * BatchSize <= k /\ k < q * BatchSize + BatchSize
    BY <1>3, BatchOf
  <2>2. q * BatchSize \in Nat /\ c * BatchSize \in Nat
    BY <1>1
  <2>3. q > c => c * BatchSize + BatchSize <= q * BatchSize
    BY <1>2
  <2>4. q < c => q * BatchSize + BatchSize <= c * BatchSize
    BY <1>2
  <2>5. QED
    BY <1>1, <2>1, <2>2, <2>3, <2>4
<1>4. b * BatchSize \in Nat
  BY <1>1
<1>5. PICK q \in Nat : q = i \div BatchSize
  BY BatchOf
<1>6. (q > b => b * BatchSize + BatchSize <= i) /\ (q < b => i < b * BatchSize)
  BY <1>3, <1>5
<1>7. b * BatchSize <= i /\ i < b * BatchSize + BatchSize => q = b
  BY <1>1, <1>4, <1>6
<1>8. ASSUME NEW j \in Nat, i <= j PROVE i \div BatchSize <= j \div BatchSize
  <2>1. PICK p \in Nat : p = j \div BatchSize
    BY BatchOf
  <2>2. q > p => p * BatchSize + BatchSize <= i
    BY <1>3, <1>5
  <2>3. j < p * BatchSize + BatchSize /\ p * BatchSize \in Nat
    BY <1>1, <2>1, BatchOf
  <2>4. q <= p
    BY <1>1, <1>8, <2>2, <2>3
  <2>5. QED
    BY <1>5, <2>1, <2>4
<1>9. QED
  BY <1>4, <1>5, <1>6, <1>7, <1>8

LEMMA PlacesFacts ==
  ASSUME BatchTyped
  PROVE  /\ audios \in Nat /\ Places \subseteq Nat /\ \A i \in Places : i < audios
         /\ \A i \in Nat : i < audios => i \in Places
         /\ \A k \in 1..Len(answers) : k - 1 \in Nat
         /\ \A i \in Places : worker[i] \in WorkerSet
BY DEF BatchTyped, Places

LEMMA BatchInitInd == BatchInit \/ NoBatchMade => BatchInd
<1> SUFFICES ASSUME BatchInit \/ NoBatchMade PROVE BatchInd
  OBVIOUS
<1>1. /\ audios \in Nat /\ batch = 0 /\ answers = <<>> /\ pool \in {"spawning", "returned"}
      /\ drawn = [attempts |-> 0, streams |-> {}]
      /\ worker = [i \in Places |-> Unspawned] /\ (pool = "returned" => audios = 0)
  <2>1. CASE BatchInit
    BY <2>1, BatchAssumption DEF BatchInit
  <2>2. CASE NoBatchMade
    <3>1. audios = 0 /\ Places = {}
      BY <2>2 DEF NoBatchMade, Places
    <3>2. QED
      BY <2>2, <3>1 DEF NoBatchMade
  <2>3. QED
    BY <2>1, <2>2
<1>2. Unspawned \in WorkerSet /\ Unspawned.at = "none"
  BY DEF Unspawned, WorkerSet
<1>3. BatchTyped
  <2>1. answers \in Seq(AnswerSet) /\ {} \in SUBSET (Nat \X Nat \X Nat)
    BY <1>1
  <2>2. worker \in [Places -> WorkerSet]
    BY <1>1, <1>2
  <2>3. QED
    BY <1>1, <2>1, <2>2 DEF BatchTyped
<1>4. AnswersInOrder
  BY <1>1 DEF AnswersInOrder
<1>5. BatchesInTurn
  <2>1. \A i \in Places : i \in Nat /\ i \div BatchSize \in Nat /\ worker[i].at = "none"
    BY <1>1, <1>2, <1>3, PlacesFacts, BatchOf
  <2>2. Len(answers) = 0
    BY <1>1
  <2>3. QED
    BY <1>1, <2>1, <2>2 DEF BatchesInTurn
<1>6. StreamsBehind
  <2>1. drawn.streams = {} /\ drawn.attempts = 0
    BY <1>1
  <2>2. QED
    BY <2>1, FS_EmptySet DEF StreamsBehind
<1>7. QED
  BY <1>3, <1>4, <1>5, <1>6 DEF BatchInd

\* A worker that has not ended moves; the rest stands, but for what it drew.
LEMMA WorkerMoves ==
  ASSUME BatchInd, NEW i \in Places, NEW new \in WorkerSet,
         worker' = [worker EXCEPT ![i] = new], UNCHANGED <<audios, batch, answers, pool>>,
         ~HasEnded(i), worker[i].at # "none" \/ i \div BatchSize <= batch,
         drawn' \in [attempts : Nat, streams : SUBSET (Nat \X Nat \X Nat)], StreamsBehind'
  PROVE  BatchInd'
<1>1. /\ worker \in [Places -> WorkerSet] /\ Places' = Places /\ audios \in Nat
      /\ Places \subseteq Nat /\ \A k \in 1..Len(answers) : k - 1 \in Nat
  BY PlacesFacts DEF BatchInd, BatchTyped, Places
<1>2. worker'[i] = new /\ \A j \in Places \ {i} : worker'[j] = worker[j]
  BY <1>1
<1>3. BatchTyped'
  BY <1>1 DEF BatchInd, BatchTyped
<1>4. AnswersInOrder'
  <2>1. ASSUME NEW k \in 1..Len(answers)
        PROVE  /\ answers[k].audio = k - 1 /\ HasEnded(k - 1)'
               /\ answers[k].ok = (worker'[k - 1].at = "done")
    <3>1. /\ answers[k].audio = k - 1 /\ HasEnded(k - 1)
          /\ answers[k].ok = (worker[k - 1].at = "done") /\ Len(answers) <= audios
      BY DEF BatchInd, AnswersInOrder
    <3>2. k - 1 \in Places /\ k - 1 # i
      BY <1>1, <3>1 DEF Places, BatchInd, BatchTyped
    <3>3. worker'[k - 1] = worker[k - 1]
      BY <1>2, <3>2
    <3>4. QED
      BY <3>1, <3>3 DEF HasEnded
  <2>2. QED
    BY <2>1 DEF BatchInd, AnswersInOrder
<1>5. BatchesInTurn'
  <2>1. batch \in Nat /\ i \div BatchSize \in Nat
    BY <1>1, BatchOf DEF BatchInd, BatchTyped
  <2>2. ~(i \div BatchSize > batch)
    BY <2>1 DEF BatchInd, BatchesInTurn
  <2>3. QED
    BY <1>1, <1>2, <2>2 DEF BatchInd, BatchesInTurn
<1>6. QED
  BY <1>3, <1>4, <1>5 DEF BatchInd

\* Streams stay behind workers that go on without drawing.
LEMMA StillBehind ==
  ASSUME BatchInd, NEW i \in Places, NEW new \in WorkerSet,
         worker' = [worker EXCEPT ![i] = new], UNCHANGED <<audios, drawn>>,
         new.at # "none",
         new.at = "window" => worker[i].at = "none",
         new.at = "attempt" => worker[i].at = "window" /\ new.window = worker[i].window
  PROVE  StreamsBehind' /\ drawn' \in [attempts : Nat, streams : SUBSET (Nat \X Nat \X Nat)]
<1>1. worker \in [Places -> WorkerSet] /\ Places' = Places
  BY DEF BatchInd, BatchTyped, Places
<1>2. worker'[i] = new /\ \A j \in Places \ {i} : worker'[j] = worker[j]
  BY <1>1
<1>3. ASSUME NEW s \in drawn.streams PROVE s[1] \in Places /\ IsBehind(s, s[1])'
  <2>1. s[1] \in Places /\ IsBehind(s, s[1])
    BY DEF BatchInd, StreamsBehind
  <2>2. CASE s[1] = i
    BY <1>2, <2>1, <2>2 DEF IsBehind
  <2>3. CASE s[1] # i
    BY <1>2, <2>1, <2>3 DEF IsBehind
  <2>4. QED
    BY <2>1, <2>2, <2>3
<1>4. QED
  BY <1>1, <1>3 DEF BatchInd, StreamsBehind, BatchTyped

LEMMA SpawnWorkerInd == BatchInd /\ SpawnWorker => BatchInd'
<1> SUFFICES ASSUME BatchInd, SpawnWorker PROVE BatchInd'
  OBVIOUS
<1>1. PICK i \in Batch(batch) :
        /\ worker[i].at = "none" /\ worker' = [worker EXCEPT ![i].at = "window"]
        /\ pool' = IF i + 1 \in Batch(batch) THEN pool ELSE "joining"
  BY DEF SpawnWorker
<1>2. /\ pool = "spawning" /\ UNCHANGED <<audios, batch, answers, drawn>>
      /\ i \in Places /\ i \div BatchSize = batch /\ Places' = Places
  BY <1>1 DEF SpawnWorker, Batch, Places
<1>3. worker \in [Places -> WorkerSet] /\ batch \in Nat /\ worker[i] \in WorkerSet
  BY <1>2 DEF BatchInd, BatchTyped
<1>4. PICK new \in WorkerSet : new = [worker[i] EXCEPT !.at = "window"]
  BY <1>3 DEF WorkerSet
<1>5. worker' = [worker EXCEPT ![i] = new] /\ new.at = "window"
  BY <1>1, <1>3, <1>4 DEF WorkerSet
<1>6. worker'[i] = new /\ \A j \in Places \ {i} : worker'[j] = worker[j]
  BY <1>2, <1>3, <1>5
<1>7. BatchTyped'
  BY <1>1, <1>2, <1>3, <1>5 DEF BatchInd, BatchTyped
<1>8. AnswersInOrder'
  <2>1. ASSUME NEW k \in 1..Len(answers)
        PROVE  /\ answers[k].audio = k - 1 /\ HasEnded(k - 1)'
               /\ answers[k].ok = (worker'[k - 1].at = "done")
    <3>1. /\ answers[k].audio = k - 1 /\ HasEnded(k - 1)
          /\ answers[k].ok = (worker[k - 1].at = "done") /\ Len(answers) <= audios
      BY DEF BatchInd, AnswersInOrder
    <3>2. k - 1 \in Places /\ k - 1 # i
      BY <1>1, <3>1 DEF Places, BatchInd, BatchTyped, HasEnded
    <3>3. worker'[k - 1] = worker[k - 1]
      BY <1>6, <3>2
    <3>4. QED
      BY <3>1, <3>3 DEF HasEnded
  <2>2. pool' # "returned"
    BY <1>1, <1>2
  <2>3. QED
    BY <1>2, <2>1, <2>2 DEF BatchInd, AnswersInOrder
<1>9. BatchesInTurn'
  <2>1. ~(i \div BatchSize > batch)
    BY <1>2, <1>3
  <2>2. QED
    BY <1>2, <1>6, <2>1 DEF BatchInd, BatchesInTurn
<1>10. StreamsBehind'
  BY <1>1, <1>2, <1>5, StillBehind
<1>11. QED
  BY <1>7, <1>8, <1>9, <1>10 DEF BatchInd

\* Nothing left to spawn: every audio has its answer.
LEMMA ReturnInd == BatchInd /\ Return => BatchInd'
<1> SUFFICES ASSUME BatchInd, Return PROVE BatchInd'
  OBVIOUS
<1>1. /\ pool = "spawning" /\ Batch(batch) = {} /\ pool' = "returned"
      /\ answers' = [k \in DOMAIN answers |-> [answers[k] EXCEPT !.stamped = answers[k].ok]]
      /\ UNCHANGED <<audios, batch, worker, drawn>>
  BY DEF Return
<1>2. /\ answers \in Seq(AnswerSet) /\ audios \in Nat /\ batch \in Nat /\ Places' = Places
      /\ Len(answers) \in Nat
  BY <1>1 DEF BatchInd, BatchTyped, Places
<1>3. /\ answers' \in Seq(AnswerSet) /\ Len(answers') = Len(answers)
      /\ \A k \in 1..Len(answers) :
           /\ answers'[k].audio = answers[k].audio /\ answers'[k].ok = answers[k].ok
           /\ answers'[k].stamped = answers[k].ok
  <2>1. ASSUME NEW k \in 1..Len(answers)
        PROVE  /\ [answers[k] EXCEPT !.stamped = answers[k].ok] \in AnswerSet
               /\ [answers[k] EXCEPT !.stamped = answers[k].ok].audio = answers[k].audio
               /\ [answers[k] EXCEPT !.stamped = answers[k].ok].ok = answers[k].ok
               /\ [answers[k] EXCEPT !.stamped = answers[k].ok].stamped = answers[k].ok
    <3>1. answers[k] \in AnswerSet
      BY <1>2
    <3>2. PICK a \in AnswerSet : a = answers[k]
      BY <3>1
    <3>3. a.ok \in BOOLEAN
      BY DEF AnswerSet
    <3>4. PICK b \in BOOLEAN : b = a.ok
      BY <3>3
    <3>5. /\ [a EXCEPT !.stamped = b] \in AnswerSet /\ [a EXCEPT !.stamped = b].audio = a.audio
          /\ [a EXCEPT !.stamped = b].ok = a.ok /\ [a EXCEPT !.stamped = b].stamped = b
      BY DEF AnswerSet
    <3>6. QED
      BY <3>2, <3>4, <3>5, Zenon
  <2>2. DOMAIN answers = 1..Len(answers)
    BY <1>2
  <2>3. answers' \in Seq(AnswerSet) /\ Len(answers') = Len(answers)
    BY <1>1, <1>2, <2>1, <2>2
  <2>4. \A k \in 1..Len(answers) : answers'[k] = [answers[k] EXCEPT !.stamped = answers[k].ok]
    BY <1>1, <2>2
  <2>5. QED
    BY <2>1, <2>3, <2>4
<1>4. Len(answers) = audios
  <2>1. \A i \in Places : i < Len(answers)
    <3>1. SUFFICES ASSUME NEW i \in Places, ~(i < Len(answers)) PROVE FALSE
      OBVIOUS
    <3>2. i \in Nat /\ i < audios
      BY <1>2 DEF Places
    <3>3. PICK q \in Nat : q = i \div BatchSize
      BY <3>2, BatchOf
    <3>4. q > batch
      <4>1. ~(q < batch) /\ q # batch
        BY <1>1, <3>1, <3>3 DEF BatchInd, BatchesInTurn, Batch
      <4>2. QED
        BY <1>2, <3>3, <4>1
    <3>5. batch * BatchSize \in Nat /\ batch * BatchSize + BatchSize <= i
      BY <1>2, <3>2, <3>3, <3>4, BatchOrder
    <3>6. PICK first \in Nat : first = batch * BatchSize
      BY <3>5
    <3>7. BatchSize \in Nat /\ BatchSize > 0
      BY BatchAssumption
    <3>8. first < audios /\ first < first + BatchSize
      BY <3>2, <3>5, <3>6, <3>7, <1>2
    <3>9. first \div BatchSize = batch
      BY <1>2, <3>6, <3>8, BatchOrder
    <3>10. first \in Batch(batch)
      BY <1>2, <3>8, <3>9 DEF Batch, Places
    <3>11. QED
      BY <1>1, <3>10
  <2>2. audios > 0 => audios - 1 \in Places
    BY <1>2 DEF Places
  <2>3. Len(answers) <= audios
    BY DEF BatchInd, AnswersInOrder
  <2>4. QED
    BY <1>2, <2>1, <2>2, <2>3
<1>5. BatchTyped'
  BY <1>1, <1>2, <1>3 DEF BatchInd, BatchTyped
<1>6. AnswersInOrder'
  BY <1>1, <1>3, <1>4 DEF BatchInd, AnswersInOrder, HasEnded
<1>7. BatchesInTurn'
  BY <1>1, <1>2, <1>3 DEF BatchInd, BatchesInTurn
<1>8. StreamsBehind'
  BY <1>1, <1>2 DEF BatchInd, StreamsBehind, IsBehind
<1>9. QED
  BY <1>5, <1>6, <1>7, <1>8 DEF BatchInd

LEMMA WindowIdIsOne ==
  \A i \in Nat, w \in WorkerSet : WindowId(i, w) \in Nat
<1> TAKE i \in Nat, w \in WorkerSet
<1>1. GlobalIndex(i) \in Nat /\ w.windows \in Nat /\ w.fallbacks \in Nat
  BY BatchOf DEF WorkerSet
<1>2. QED
  BY <1>1 DEF WindowId

LEMMA QuietStepsInd ==
  ASSUME BatchInd, NEW i \in Places, OpenPoolWindow(i) \/ EndAudio(i)
  PROVE  BatchInd'
<1>1. worker[i] \in WorkerSet /\ i \in Nat /\ worker \in [Places -> WorkerSet]
  BY PlacesFacts DEF BatchInd, BatchTyped
<1>2. CASE OpenPoolWindow(i)
  <2>1. WindowId(i, worker[i]) \in Nat
    BY <1>1, WindowIdIsOne
  <2>2. PICK new \in WorkerSet :
          new = [worker[i] EXCEPT !.at = "attempt", !.attempt = 0, !.id = WindowId(i, worker[i])]
    BY <1>1, <2>1 DEF WorkerSet
  <2>3. /\ worker[i].at = "window" /\ worker' = [worker EXCEPT ![i] = new]
        /\ UNCHANGED <<audios, batch, answers, pool, drawn>>
    BY <1>1, <1>2, <2>2 DEF OpenPoolWindow, WorkerSet
  <2>4. new.at = "attempt" /\ new.window = worker[i].window
    BY <1>1, <2>2 DEF WorkerSet
  <2>5. ~HasEnded(i)
    BY <2>3 DEF HasEnded
  <2>6. StreamsBehind' /\ drawn' \in [attempts : Nat, streams : SUBSET (Nat \X Nat \X Nat)]
    BY <2>3, <2>4, StillBehind
  <2>7. QED
    BY <2>3, <2>5, <2>6, WorkerMoves
<1>3. CASE EndAudio(i)
  <2>1. PICK new \in WorkerSet : new = [worker[i] EXCEPT !.at = "done"]
    BY <1>1 DEF WorkerSet
  <2>2. /\ worker[i].at = "window" /\ worker' = [worker EXCEPT ![i] = new]
        /\ UNCHANGED <<audios, batch, answers, pool, drawn>>
    BY <1>1, <1>3, <2>1 DEF EndAudio, WorkerSet
  <2>3. new.at = "done"
    BY <1>1, <2>1 DEF WorkerSet
  <2>4. ~HasEnded(i)
    BY <2>2 DEF HasEnded
  <2>5. StreamsBehind' /\ drawn' \in [attempts : Nat, streams : SUBSET (Nat \X Nat \X Nat)]
    BY <2>2, <2>3, StillBehind
  <2>6. QED
    BY <2>2, <2>4, <2>5, WorkerMoves
<1>4. QED
  BY <1>2, <1>3

\* An attempt draws from a stream that no attempt has drawn from.
LEMMA DrawAttemptInd ==
  ASSUME BatchInd, NEW i \in Places, DrawAttempt(i)
  PROVE  BatchInd'
<1>1. worker[i] \in WorkerSet /\ i \in Nat /\ worker \in [Places -> WorkerSet] /\ Places' = Places
  BY PlacesFacts DEF BatchInd, BatchTyped, DrawAttempt, Places
<1>2. PICK stream \in Nat \X Nat \X Nat : stream = <<i, worker[i].window, worker[i].attempt>>
  BY <1>1 DEF WorkerSet
<1>3. /\ worker[i].at = "attempt" /\ UNCHANGED <<audios, batch, answers, pool>>
      /\ drawn' = [attempts |-> drawn.attempts + 1, streams |-> drawn.streams \cup {stream}]
  BY <1>1, <1>2, BatchOf DEF DrawAttempt
<1>4. PICK new \in WorkerSet :
        /\ worker' = [worker EXCEPT ![i] = new]
        /\ \/ /\ new.at = "attempt" /\ new.window = worker[i].window
              /\ new.attempt = worker[i].attempt + 1
           \/ new.at = "window" /\ new.window = worker[i].window + 1
           \/ new.at \in {"failed", "panicked"}
  <2>1. CASE worker' = [worker EXCEPT ![i].attempt = @ + 1, ![i].fallbacks = @ + 1]
    <3>0. worker[i].attempt + 1 \in Nat /\ worker[i].fallbacks + 1 \in Nat
      BY <1>1 DEF WorkerSet
    <3>1. PICK new \in WorkerSet : new = [worker[i] EXCEPT !.attempt = @ + 1, !.fallbacks = @ + 1]
      BY <1>1, <3>0 DEF WorkerSet
    <3>2. worker' = [worker EXCEPT ![i] = new]
      BY <1>1, <2>1, <3>1 DEF WorkerSet
    <3>3. /\ new.at = "attempt" /\ new.window = worker[i].window
          /\ new.attempt = worker[i].attempt + 1
      BY <1>1, <1>3, <3>1 DEF WorkerSet
    <3>4. QED
      BY <3>2, <3>3
  <2>2. CASE worker' = [worker EXCEPT ![i].at = "window", ![i].window = @ + 1, ![i].windows = @ + 1]
    <3>0. worker[i].window + 1 \in Nat /\ worker[i].windows + 1 \in Nat
      BY <1>1 DEF WorkerSet
    <3>1. PICK new \in WorkerSet :
            new = [worker[i] EXCEPT !.at = "window", !.window = @ + 1, !.windows = @ + 1]
      BY <1>1, <3>0 DEF WorkerSet
    <3>2. worker' = [worker EXCEPT ![i] = new]
      BY <1>1, <2>2, <3>1 DEF WorkerSet
    <3>3. new.at = "window" /\ new.window = worker[i].window + 1
      BY <1>1, <3>1 DEF WorkerSet
    <3>4. QED
      BY <3>2, <3>3
  <2>3. CASE worker' = [worker EXCEPT ![i].at = "failed"]
    <3>1. PICK new \in WorkerSet : new = [worker[i] EXCEPT !.at = "failed"]
      BY <1>1 DEF WorkerSet
    <3>2. worker' = [worker EXCEPT ![i] = new] /\ new.at = "failed"
      BY <1>1, <2>3, <3>1 DEF WorkerSet
    <3>3. QED
      BY <3>2
  <2>4. CASE worker' = [worker EXCEPT ![i].at = "panicked"]
    <3>1. PICK new \in WorkerSet : new = [worker[i] EXCEPT !.at = "panicked"]
      BY <1>1 DEF WorkerSet
    <3>2. worker' = [worker EXCEPT ![i] = new] /\ new.at = "panicked"
      BY <1>1, <2>4, <3>1 DEF WorkerSet
    <3>3. QED
      BY <3>2
  <2>5. QED
    BY <2>1, <2>2, <2>3, <2>4 DEF DrawAttempt
<1>5. worker'[i] = new /\ \A j \in Places \ {i} : worker'[j] = worker[j]
  BY <1>1, <1>4
<1>6. /\ worker[i].window \in Nat /\ worker[i].attempt \in Nat
      /\ stream[1] = i /\ stream[2] = worker[i].window /\ stream[3] = worker[i].attempt
      /\ drawn.streams \subseteq Nat \X Nat \X Nat /\ drawn.attempts \in Nat
  BY <1>1, <1>2 DEF WorkerSet, BatchInd, BatchTyped
<1>7. stream \notin drawn.streams
  <2>1. SUFFICES ASSUME stream \in drawn.streams PROVE FALSE
    OBVIOUS
  <2>2. IsBehind(stream, i)
    BY <1>6, <2>1 DEF BatchInd, StreamsBehind
  <2>3. QED
    BY <1>3, <1>6, <2>2 DEF IsBehind
<1>8. /\ IsFiniteSet(drawn'.streams)
      /\ Cardinality(drawn'.streams) = drawn'.attempts
  <2>1. IsFiniteSet(drawn.streams) /\ Cardinality(drawn.streams) = drawn.attempts
    BY DEF BatchInd, StreamsBehind
  <2>2. /\ IsFiniteSet(drawn.streams \cup {stream})
        /\ Cardinality(drawn.streams \cup {stream}) = drawn.attempts + 1
    BY <1>7, <2>1, FS_AddElement
  <2>3. QED
    BY <1>3, <2>2
<1>9. ASSUME NEW s \in drawn'.streams
      PROVE  s[1] \in Places /\ IsBehind(s, s[1])'
  <2>1. new.at # "none" /\ s \in Nat \X Nat \X Nat
    BY <1>2, <1>3, <1>4, <1>6
  <2>2. CASE s = stream
    BY <1>4, <1>5, <1>6, <2>1, <2>2 DEF IsBehind
  <2>3. CASE s # stream
    <3>1. s[1] \in Places /\ IsBehind(s, s[1])
      BY <1>3, <2>3 DEF BatchInd, StreamsBehind
    <3>2. CASE s[1] # i
      BY <1>5, <3>1, <3>2 DEF IsBehind
    <3>3. CASE s[1] = i
      <4>1. s[2] \in Nat /\ s[3] \in Nat
        BY <2>1
      <4>2. \/ s[2] < worker[i].window
            \/ s[2] = worker[i].window /\ s[3] < worker[i].attempt
        BY <1>3, <3>1, <3>3 DEF IsBehind
      <4>3. QED
        BY <1>4, <1>5, <1>6, <2>1, <3>3, <4>1, <4>2 DEF IsBehind
    <3>4. QED
      BY <3>1, <3>2, <3>3
  <2>4. QED
    BY <1>6, <2>2, <2>3
<1>10. StreamsBehind'
  BY <1>1, <1>8, <1>9 DEF StreamsBehind
<1>11. drawn' \in [attempts : Nat, streams : SUBSET (Nat \X Nat \X Nat)]
  BY <1>3, <1>6
<1>12. ~HasEnded(i)
  BY <1>3 DEF HasEnded
<1>13. QED
  BY <1>3, <1>4, <1>10, <1>11, <1>12, WorkerMoves

\* The next answer is joined; the last of a batch lets the next batch start.
LEMMA JoinWorkerInd ==
  ASSUME BatchInd, NEW i \in Places, JoinWorker(i)
  PROVE  BatchInd'
<1>1. /\ pool = "joining" /\ i = Len(answers) /\ i \div BatchSize = batch /\ HasEnded(i)
      /\ UNCHANGED <<audios, worker, drawn>> /\ Places' = Places
  BY DEF JoinWorker, IsNextToJoin, Batch, Places
<1>2. /\ answers \in Seq(AnswerSet) /\ audios \in Nat /\ batch \in Nat
      /\ i \in Nat /\ i < audios /\ worker \in [Places -> WorkerSet] /\ Places \subseteq Nat
  BY PlacesFacts DEF BatchInd, BatchTyped
<1>3. StreamsBehind'
  BY <1>1 DEF BatchInd, StreamsBehind, IsBehind
<1>4. CASE worker[i].at = "panicked"
  <2>1. pool' = "panicked" /\ UNCHANGED <<batch, answers>>
    BY <1>4 DEF JoinWorker
  <2>2. BatchTyped'
    BY <1>1, <2>1 DEF BatchInd, BatchTyped
  <2>3. AnswersInOrder'
    BY <1>1, <2>1 DEF BatchInd, AnswersInOrder, HasEnded
  <2>4. BatchesInTurn'
    BY <1>1, <2>1 DEF BatchInd, BatchesInTurn
  <2>5. QED
    BY <1>3, <2>2, <2>3, <2>4 DEF BatchInd
<1>5. CASE worker[i].at # "panicked"
  <2>1. PICK ok \in BOOLEAN : ok = (worker[i].at = "done")
    OBVIOUS
  <2>2. PICK new \in AnswerSet : new = [audio |-> i, ok |-> ok, stamped |-> FALSE]
    BY <1>2, <2>1 DEF AnswerSet
  <2>3. new.audio = i /\ new.ok = (worker[i].at = "done")
    BY <2>1, <2>2
  <2>4. /\ answers' = Append(answers, new)
        /\ \/ /\ \A j \in Batch(batch) : j = i \/ \E k \in DOMAIN answers : answers[k].audio = j
              /\ batch' = batch + 1 /\ pool' = "spawning"
           \/ UNCHANGED <<batch, pool>>
    BY <1>5, <2>1, <2>2 DEF JoinWorker
  <2>5. /\ answers' \in Seq(AnswerSet) /\ Len(answers') = Len(answers) + 1
        /\ \A k \in 1..Len(answers) : answers'[k] = answers[k]
        /\ answers'[Len(answers) + 1] = new /\ Len(answers) \in Nat
        /\ DOMAIN answers = 1..Len(answers)
    BY <1>2, <2>4
  <2>6. BatchTyped'
    BY <1>1, <1>2, <2>4, <2>5 DEF BatchInd, BatchTyped
  <2>7. AnswersInOrder'
    <3>1. ASSUME NEW k \in 1..Len(answers)
          PROVE  /\ answers'[k].audio = k - 1 /\ HasEnded(k - 1)'
                 /\ answers'[k].ok = (worker'[k - 1].at = "done")
      BY <1>1, <2>5 DEF BatchInd, AnswersInOrder, HasEnded
    <3>2. PICK n \in Nat : n = Len(answers) + 1 /\ n - 1 = i
      BY <1>1, <2>5
    <3>3. ASSUME NEW k \in 1..Len(answers'), k = n
          PROVE  /\ answers'[k].audio = k - 1 /\ HasEnded(k - 1)'
                 /\ answers'[k].ok = (worker'[k - 1].at = "done")
      <4>1. HasEnded(i)' /\ new.ok = (worker'[i].at = "done")
        BY <1>1, <2>3 DEF HasEnded
      <4>2. answers'[k] = new /\ k - 1 = i
        BY <2>5, <3>2, <3>3
      <4>3. QED
        BY <2>3, <4>1, <4>2, Zenon
    <3>4. Len(answers') <= audios'
      BY <1>1, <1>2, <2>5
    <3>5. pool' # "returned"
      BY <1>1, <2>4
    <3>6. \A k \in 1..Len(answers') :
            /\ answers'[k].audio = k - 1 /\ HasEnded(k - 1)'
            /\ answers'[k].ok = (worker'[k - 1].at = "done")
      <4>1. \A k \in 1..Len(answers') : k \in 1..Len(answers) \/ k = n
        BY <2>5, <3>2
      <4>2. QED
        BY <3>1, <3>3, <4>1, Zenon
    <3>7. QED
      BY <3>4, <3>5, <3>6, Zenon DEF AnswersInOrder
  <2>8. BatchesInTurn'
    <3>1. ASSUME NEW j \in Places, j < Len(answers')
          PROVE  j \div BatchSize \in Nat /\ j \div BatchSize <= batch
      <4>1. j \in Nat /\ j <= i
        <5>1. j \in Nat /\ Len(answers') = i + 1
          BY <1>1, <1>2, <2>5
        <5>2. QED
          BY <1>2, <3>1, <5>1
      <4>2. QED
        BY <1>1, <1>2, <4>1, BatchOf, BatchOrder
    <3>2. ASSUME NEW j \in Places, j \div BatchSize < batch
          PROVE  j < Len(answers')
      <4>1. j < Len(answers) /\ j \in Nat
        BY <1>2, <3>2 DEF BatchInd, BatchesInTurn
      <4>2. Len(answers') = Len(answers) + 1 /\ Len(answers) \in Nat
        BY <2>5
      <4>3. QED
        BY <4>1, <4>2
    <3>3. ASSUME NEW j \in Places, j \div BatchSize > batch
          PROVE  worker'[j].at = "none"
      BY <1>1, <3>3 DEF BatchInd, BatchesInTurn
    <3>4. \A j \in Places : j \div BatchSize \in Nat
      BY <1>2, BatchOf
    <3>5. CASE UNCHANGED <<batch, pool>>
      BY <1>1, <1>2, <3>1, <3>2, <3>3, <3>4, <3>5 DEF BatchesInTurn
    <3>6. CASE /\ \A j \in Batch(batch) :
                    j = i \/ \E k \in DOMAIN answers : answers[k].audio = j
               /\ batch' = batch + 1 /\ pool' = "spawning"
      <4>1. ASSUME NEW j \in Places, j \div BatchSize = batch PROVE j < Len(answers')
        <5>1. j = i \/ \E k \in 1..Len(answers) : answers[k].audio = j
          BY <2>5, <3>6, <4>1 DEF Batch
        <5>2. \A k \in 1..Len(answers) : answers[k].audio = k - 1
          BY DEF BatchInd, AnswersInOrder
        <5>3. QED
          BY <1>1, <1>2, <2>5, <5>1, <5>2
      <4>2. \A j \in Places : j \div BatchSize < batch' => j < Len(answers')
        BY <1>2, <3>2, <3>4, <3>6, <4>1
      <4>3. \A j \in Places : j < Len(answers') => j \div BatchSize < batch'
        BY <1>2, <3>1, <3>6
      <4>4. \A j \in Places : j \div BatchSize > batch' => worker'[j].at = "none"
        BY <1>2, <3>3, <3>4, <3>6
      <4>5. QED
        BY <1>1, <4>2, <4>3, <4>4 DEF BatchesInTurn
    <3>7. QED
      BY <2>4, <3>5, <3>6
  <2>9. QED
    BY <1>3, <2>6, <2>7, <2>8 DEF BatchInd
<1>6. QED
  BY <1>4, <1>5

LEMMA BatchStep == BatchInd /\ [BatchNext]_batchVars => BatchInd'
<1> SUFFICES ASSUME BatchInd, [BatchNext]_batchVars PROVE BatchInd'
  OBVIOUS
<1>1. CASE SpawnWorker \/ Return
  BY <1>1, SpawnWorkerInd, ReturnInd
<1>2. ASSUME NEW i \in Places, JoinWorker(i) PROVE BatchInd'
  BY <1>2, JoinWorkerInd
<1>3. ASSUME NEW i \in Places, WorkerStep(i) PROVE BatchInd'
  BY <1>3, QuietStepsInd, DrawAttemptInd DEF WorkerStep
<1>4. CASE UNCHANGED batchVars
  BY <1>4 DEF batchVars, BatchInd, BatchTyped, AnswersInOrder, BatchesInTurn, StreamsBehind,
              IsBehind, HasEnded, Places
<1>5. QED
  BY <1>1, <1>2, <1>3, <1>4 DEF BatchNext, MainStep

\* The active workers are all of one batch.
LEMMA BatchIndHolds == BatchInd => BatchHolds
<1> SUFFICES ASSUME BatchInd PROVE BatchHolds
  OBVIOUS
<1>1. /\ answers \in Seq(AnswerSet) /\ audios \in Nat /\ batch \in Nat /\ Places \subseteq Nat
      /\ DOMAIN answers = 1..Len(answers) /\ Len(answers) \in Nat
  BY PlacesFacts DEF BatchInd, BatchTyped
<1>2. ASSUME NEW i \in Places, worker[i].at # "none"
      PROVE  /\ i \div BatchSize \in Nat /\ i \div BatchSize <= batch
             /\ i \div BatchSize < batch => HasEnded(i)
  <2>1. i \in Nat /\ i \div BatchSize \in Nat
    BY <1>1, BatchOf
  <2>2. i \div BatchSize <= batch
    BY <1>1, <1>2, <2>1 DEF BatchInd, BatchesInTurn
  <2>3. ASSUME i \div BatchSize < batch PROVE HasEnded(i)
    <3>1. i < Len(answers)
      BY <2>3 DEF BatchInd, BatchesInTurn
    <3>2. i + 1 \in 1..Len(answers) /\ (i + 1) - 1 = i
      BY <1>1, <2>1, <3>1
    <3>3. HasEnded((i + 1) - 1)
      BY <3>2 DEF BatchInd, AnswersInOrder
    <3>4. QED
      BY <3>2, <3>3
  <2>4. QED
    BY <2>1, <2>2, <2>3
<1>3. Cardinality({i \in Places : worker[i].at \in {"window", "attempt"}}) <= BatchSize
  <2> DEFINE Active == {i \in Places : worker[i].at \in {"window", "attempt"}}
  <2>1. BatchSize \in Nat /\ BatchSize > 0
    BY BatchAssumption
  <2>2. PICK first \in Nat : first = batch * BatchSize
    BY <1>1, <2>1
  <2>3. ASSUME NEW i \in Active PROVE i \in first..(first + BatchSize - 1)
    <3>1. i \in Nat /\ ~HasEnded(i) /\ worker[i].at # "none"
      BY <1>1 DEF HasEnded
    <3>2. i \div BatchSize = batch
      BY <1>1, <1>2, <3>1
    <3>3. first <= i /\ i < first + BatchSize
      BY <2>2, <3>1, <3>2, BatchOf
    <3>4. QED
      BY <2>1, <3>1, <3>3
  <2>4. /\ IsFiniteSet(first..(first + BatchSize - 1))
        /\ Cardinality(first..(first + BatchSize - 1)) = BatchSize
    <3>1. first \in Int /\ first + BatchSize - 1 \in Int /\ first <= first + BatchSize - 1
          /\ (first + BatchSize - 1) - first + 1 = BatchSize
      BY <2>1
    <3>2. QED
      BY <3>1, FS_Interval
  <2>5. Active \subseteq first..(first + BatchSize - 1)
    BY <2>3
  <2>6. Cardinality(Active) <= Cardinality(first..(first + BatchSize - 1))
    BY <2>4, <2>5, FS_Subset
  <2>7. QED
    BY <2>4, <2>6
<1>4. Cardinality(drawn.streams) = drawn.attempts
  BY DEF BatchInd, StreamsBehind
<1>5. QED
  BY <1>1, <1>2, <1>3, <1>4 DEF BatchHolds, BatchInd, AnswersInOrder

-----------------------------------------------------------------------------
(* The kit: whichever part runs, the others stand.                         *)

LEMMA KitInit == MCInit => KitInd
<1> SUFFICES ASSUME MCInit PROVE KitInd
  OBVIOUS
<1>1. ManagerInit /\ DetectorInit /\ (BatchInit \/ NoBatchMade)
  BY DEF MCInit
<1>2. QED
  BY <1>1, ManagerInitInd, DetectorInitInd, BatchInitInd DEF KitInd

LEMMA KitStep == KitInd /\ [MCNext]_<<kitVars, part>> => KitInd'
<1> SUFFICES ASSUME KitInd, [MCNext]_<<kitVars, part>> PROVE KitInd'
  OBVIOUS
<1>1. [ManagerNext]_managerVars
  BY DEF MCNext, CallPart, ManagerPart, DetectorPart, StreamPart, BatchPart, kitVars
<1>2. [DetectorNext]_detectorVars
  BY DEF MCNext, CallPart, ManagerPart, DetectorPart, StreamPart, BatchPart, kitVars
<1>3. [BatchNext]_batchVars
  BY DEF MCNext, CallPart, ManagerPart, DetectorPart, StreamPart, BatchPart, kitVars
<1>4. QED
  BY <1>1, <1>2, <1>3, ManagerStep, DetectorStep, BatchStep DEF KitInd

\* What a kit shares is sound for every number of loads, calls, audios and
\* threads (ModelManager, SileroVad's latch, WhisperKit::transcribe_all): a
\* manager that says `loaded` has models of the pass it says; one call hears at
\* a time and none goes on with chunks a failed detector cut; answers come in
\* the order of the audios, batches do not overlap, and no two attempts draw
\* from one random stream.
THEOREM KitHolds == MCSpec => []KitIsSound
<1>1. MCInit => KitInd
  BY KitInit
<1>2. KitInd /\ [MCNext]_<<kitVars, part>> => KitInd'
  BY KitStep
<1>3. KitInd => KitIsSound
  BY ManagerIndHolds, BatchIndHolds DEF KitInd, KitIsSound, DetectorInd
<1>4. QED
  BY <1>1, <1>2, <1>3, PTL DEF MCSpec
=============================================================================
