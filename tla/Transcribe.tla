----------------------------- MODULE Transcribe -----------------------------
(***************************************************************************)
(* One call of WhisperKit::transcribe.  Audio longer than a window is cut  *)
(* into chunks along silences when the options ask for it; each chunk is   *)
(* one TranscribeTask::run, clip after clip, window after window, attempt  *)
(* after attempt.  A chunk whose run fails is dropped, and what its        *)
(* attempts did is still told.                                             *)
(***************************************************************************)
EXTENDS TaskFacts, Chunker, Selections

CONSTANTS
  Content,   \* the samples given
  Options,   \* the options a call may have
  Languages,
  Default,   \* the display language of a run that found none
  Outcomes,  \* what an attempt may come to
  Times,     \* where a window's last time may lie, from its start
  MaxSlices  \* bound: segments per window

OptionsSet ==
  [vad : BOOLEAN, clips : Seq(Int), dropBlank : BOOLEAN,
   wordTimestamps : BOOLEAN, aligns : BOOLEAN, detects : BOOLEAN,
   maxWindowSeek : SUBSET Nat, fallbacks : Nat, skipsSilence : BOOLEAN]
OutcomeSet ==
  [probe : {"failed", "masked"} \cup Languages, predicted : Optional(Languages),
   drew : BOOLEAN, stopped : BOOLEAN, swallowed : BOOLEAN,
   result : {"error", "fallback", "kept"}]

ASSUME TranscribeAssumption ==
  /\ Content \in Nat /\ Times \subseteq 0..Window /\ MaxSlices \in Nat \ {0}
  /\ \A o \in Options : \A cap \in o.maxWindowSeek : o.maxWindowSeek = {cap}
  /\ Options \subseteq OptionsSet /\ Outcomes \subseteq OutcomeSet
  /\ Default \in Languages

VARIABLES
  options,
  at,        \* "cut", "task", "clip", "attempt", "window" or "end"
  cut,       \* chunk_all's clip, where it stands in it, and what it cut
  misheard,  \* the detector failed while the call was cutting
  chunk,     \* the chunk whose run is next or under way
  task,      \* the run under way
  sink,      \* facts_sink
  schedule, dropped, results,
  returned,  \* what the call returned, once it did
  heard,     \* history: the samples a window of the call decoded
  lost,      \* history: the samples of the chunks dropped
  seen,      \* history: what the attempts did
  kept       \* history: the probe of the run's last attempt, and those kept

cutVars == <<options, cut, misheard>>
callVars == <<cutVars, chunk, schedule, dropped, results, returned, lost>>
vars == <<callVars, at, task, sink, heard, seen, kept>>

IsChunked == options.vad /\ Content > Window
Ranges == SeekClips(options.clips, Content)
Chunks == cut.chunks
Chunk == Chunks[chunk]
Samples(first, size) == {x \in 0..(Content - 1) : first <= x /\ x < first + size}

Idle ==
  [clips |-> <<>>, clip |-> 1, seek |-> 0, first |-> TRUE, size |-> 0,
   attempt |-> 0, segments |-> <<>>, base |-> 0, allocated |-> 0,
   detected |-> {}, observed |-> {}, probe |-> {}, observations |-> <<>>]

Init ==
  /\ options \in Options
  /\ at = "cut"
  /\ cut = [clip |-> 0, start |-> 0, chunks |-> <<>>]
  /\ misheard = FALSE /\ chunk = 1 /\ task = Idle
  /\ sink = ObservedClean
  /\ schedule = [known |-> TRUE, workers |-> <<>>]
  /\ dropped = {} /\ results = <<>> /\ returned = {}
  /\ heard = {} /\ lost = {}
  /\ seen = [drew |-> FALSE, stopped |-> FALSE, swallowed |-> FALSE, language |-> {}]
  /\ kept = [probe |-> {}, all |-> <<>>]

-----------------------------------------------------------------------------
(* What the call is cut into. *)

CallFails ==
  /\ at' = "end" /\ returned' = {[ok |-> FALSE]}
  /\ UNCHANGED <<cutVars, chunk, schedule, dropped, results, lost>>

Refuse ==
  /\ at = "cut" /\ ClipsRefused(options.clips)
  /\ CallFails
  /\ UNCHANGED <<task, sink, heard, seen, kept>>

BeginTasks ==
  /\ at' = "task"
  /\ UNCHANGED <<options, misheard, chunk, schedule, dropped, results, returned,
                 lost, task, sink, heard, seen, kept>>

\* The whole input is one run, which reads the clips itself.
TakeWhole ==
  /\ at = "cut" /\ ~ClipsRefused(options.clips) /\ ~IsChunked
  /\ cut' = [cut EXCEPT !.chunks = <<[offset |-> 0, length |-> Content]>>]
  /\ BeginTasks

IsCutting == at = "cut" /\ ~ClipsRefused(options.clips) /\ IsChunked
IsInClip ==
  cut.clip \in DOMAIN Ranges /\ CutsAgain(cut.start, Ranges[cut.clip].end, Content)
CutUnchanged ==
  UNCHANGED <<at, options, chunk, schedule, dropped, results, returned, lost, task,
              sink, heard, seen, kept>>

\* The detector may fail, for this call or for another that shares it.
CutChunk ==
  /\ IsCutting /\ IsInClip
  /\ \E end \in IF NeedsSplit(cut.start, Ranges[cut.clip].end)
                  THEN Splits(cut.start, Content) ELSE {Ranges[cut.clip].end} :
       /\ end > cut.start
       /\ cut' = [cut EXCEPT !.start = end, !.chunks = Append(@,
                    [offset |-> cut.start,
                     length |-> Min({end, Content}) - cut.start])]
  /\ misheard' \in {misheard, TRUE}
  /\ CutUnchanged

\* A split where the stretch begins ends the clip as its end does.
NextRange ==
  /\ IsCutting /\ cut.clip <= Len(Ranges)
  /\ IsInClip => /\ NeedsSplit(cut.start, Ranges[cut.clip].end)
                 /\ cut.start \in Splits(cut.start, Content)
  /\ cut' = [cut EXCEPT !.clip = @ + 1,
               !.start = IF cut.clip < Len(Ranges) THEN Ranges[cut.clip + 1].start ELSE 0]
  /\ misheard' \in {misheard, TRUE}
  /\ CutUnchanged

\* No transcript comes of chunks a failed detector cut.
EndCut ==
  /\ IsCutting /\ cut.clip > Len(Ranges)
  /\ IF misheard THEN CallFails /\ UNCHANGED <<task, sink, heard, seen, kept>>
     ELSE BeginTasks /\ UNCHANGED cut

-----------------------------------------------------------------------------
(* A run, and its clips. *)

Swallowed == [ObservedClean EXCEPT !.hadSwallowedError = {TRUE}]

\* The run returns an error: the call's, or that of a chunk to be dropped,
\* facts and what is known being what its attempts left.
TaskFails(facts, known) ==
  IF IsChunked
    THEN /\ dropped' = dropped \cup {chunk} /\ lost' = lost \cup Samples(Chunk.offset, Chunk.length)
         /\ sink' = MergeFacts(facts, Swallowed)
         /\ seen' = [known EXCEPT !.swallowed = TRUE]
         /\ schedule' = MergeSchedules(schedule, UnknownSchedule)
         /\ chunk' = chunk + 1 /\ at' = "task" /\ task' = Idle
         /\ UNCHANGED <<cutVars, results, returned, kept, heard>>
    ELSE /\ sink' = facts /\ seen' = known
         /\ CallFails
         /\ UNCHANGED <<task, kept, heard>>

TaskClips == SeekClips(IF IsChunked THEN <<>> ELSE options.clips, Chunk.length)

BeginTask ==
  /\ at = "task" /\ chunk <= Len(Chunks)
  /\ task' = [Idle EXCEPT !.clips = TaskClips, !.seek = TaskClips[1].start]
  /\ at' = "clip" /\ kept' = [probe |-> {}, all |-> <<>>]
  /\ UNCHANGED <<callVars, sink, heard, seen>>

Clip == task.clips[task.clip]
IsInTask == at = "clip" /\ task.clip <= Len(task.clips)
WindowSize == SegmentSize(task.seek, Clip.end, Chunk.length)

ClipIsSpent == ~OpensWindow(task.seek, Clip.end, task.first) \/ WindowSize = 0

OpenWindow ==
  /\ IsInTask /\ ~ClipIsSpent
  /\ task' = [task EXCEPT !.first = FALSE, !.size = WindowSize, !.attempt = 0,
                          !.probe = {}]
  /\ heard' = heard \cup Samples(Chunk.offset + task.seek, WindowSize)
  /\ kept' = [kept EXCEPT !.probe = {}]
  /\ at' = "attempt"
  /\ UNCHANGED <<callVars, sink, seen>>

\* The features, the encoder, or at the end the tokenizer.
BackendFails == at = "clip" /\ TaskFails(sink, seen)

NextClip ==
  /\ IsInTask /\ ClipIsSpent
  /\ task' = [task EXCEPT !.clip = @ + 1, !.first = TRUE,
               !.seek = IF task.clip < Len(task.clips)
                          THEN task.clips[task.clip + 1].start ELSE 0]
  /\ UNCHANGED <<callVars, at, sink, heard, seen, kept>>

-----------------------------------------------------------------------------
(* The attempts at a window. *)

\* A probe that sampled no language still has one to show.
IsGenuine(outcome) == options.detects /\ outcome.probe \in Languages
Probed(outcome) ==
  IF outcome.probe = "failed" THEN {}
  ELSE IF outcome.probe = "masked" THEN {Default} ELSE {outcome.probe}

\* Slip: a failed probe leaves what an earlier attempt's found.
StickyProbe(outcome) ==
  IF options.detects /\ outcome.probe # "failed" THEN Probed(outcome) ELSE task.probe

WindowProbe(outcome) == IF options.detects THEN Probed(outcome) ELSE task.probe

ProbeFailed(outcome) == options.detects /\ outcome.probe = "failed"
ObservedByProbe(outcome) ==
  IF task.observed = {} /\ IsGenuine(outcome) THEN {outcome.probe} ELSE task.observed

AttemptFacts(outcome) ==
  [Unknown EXCEPT
     !.drewFromRng = {outcome.drew}, !.earlyStopped = {outcome.stopped},
     !.hadSwallowedError = {ProbeFailed(outcome) \/ outcome.swallowed},
     !.observedLanguage = FirstObserved(ObservedByProbe(outcome), outcome.predicted)]

SinkAfter(outcome) == MergeFacts(sink, AttemptFacts(outcome))

SeenAfter(outcome) ==
  [drew |-> seen.drew \/ outcome.drew, stopped |-> seen.stopped \/ outcome.stopped,
   swallowed |-> seen.swallowed \/ ProbeFailed(outcome) \/ outcome.swallowed,
   language |-> FirstObserved(seen.language,
                  IF IsGenuine(outcome) THEN {outcome.probe} ELSE outcome.predicted)]

FallsBack(outcome) == outcome.result = "fallback" /\ task.attempt < options.fallbacks

Attempt(outcome) ==
  /\ at = "attempt"
  /\ IF outcome.result = "error" THEN TaskFails(SinkAfter(outcome), SeenAfter(outcome))
     ELSE /\ sink' = SinkAfter(outcome) /\ seen' = SeenAfter(outcome)
          /\ \E shown \in {Default} \cup outcome.predicted :
               task' = [task EXCEPT
                 !.probe = WindowProbe(outcome),
                 !.detected = LET probed == IF options.detects THEN Probed(outcome) ELSE @
                              IN  IF probed = {} THEN {shown} ELSE probed,
                 !.observed = FirstObserved(ObservedByProbe(outcome), outcome.predicted),
                 !.attempt = IF FallsBack(outcome) THEN @ + 1 ELSE @]
          /\ kept' = [kept EXCEPT !.probe = IF options.detects THEN Probed(outcome) ELSE {}]
          /\ at' = IF FallsBack(outcome) THEN "attempt" ELSE "window"
          /\ UNCHANGED <<callVars, heard>>

-----------------------------------------------------------------------------
(* What a window leaves. *)

IsUnderPadding == Monus(Clip.end, Clip.start) <= WindowPadding
IsRetimed == options.wordTimestamps /\ options.aligns

Capped(seek) ==
  IF options.maxWindowSeek = {} THEN seek
  ELSE Min({seek} \cup {task.seek + Max({cap, 1}) : cap \in options.maxWindowSeek})

LeaveWindow(found) ==
  /\ task' = [found EXCEPT !.observations = IF task.probe = {} THEN @ ELSE Append(@,
                [start |-> task.seek, size |-> task.size,
                 language |-> CHOOSE l \in task.probe : TRUE])]
  /\ kept' = [kept EXCEPT !.all = IF kept.probe = {} THEN @ ELSE Append(@,
                [start |-> task.seek, size |-> task.size,
                 language |-> CHOOSE l \in kept.probe : TRUE])]
  /\ at' = "clip"
  /\ UNCHANGED <<callVars, sink, heard, seen>>

\* The slices left of a window, by their ordinals in it.
Slices(survivors, blank) ==
  [i \in 1..Cardinality(survivors) |->
     [id |-> task.base + Nth(survivors, i) - 1, blank |-> Nth(survivors, i) \in blank]]

\* A window that decoded: its slices, or itself; the zero-length filter and
\* the clip-back remove some, and the words may move the seek further on.  One
\* whose last time is its start is opened again.
\* Bound: the ordinals of what a run keeps are of the id space, where its
\* counters saturate; windows that leave nothing go on past it.
FinishWindow ==
  /\ at = "window"
  /\ \E count \in 1..MaxSlices, advance \in {task.size} \cup Times,
        wordEnd \in {0} \cup Times :
     \E survivors \in SUBSET (1..count) :
     \E blank \in IF options.dropBlank THEN SUBSET survivors ELSE {{}} :
       /\ task.allocated + count <= MaxUsize \/ (survivors = {} /\ task.probe = {})
       /\ IsUnderPadding \/ IsRetimed \/ survivors = 1..count
       /\ wordEnd > 0 => IsRetimed /\ survivors # {}
       /\ LeaveWindow([task EXCEPT
            !.seek = Capped(task.seek + Max({advance, wordEnd})),
            !.segments = @ \o Slices(survivors, blank),
            !.base = Saturate(@ + IF options.dropBlank THEN count
                                  ELSE Cardinality(survivors)),
            !.allocated = Saturate(@ + count)])

\* Slip: a silent window is left where it is.
SkipInPlace ==
  /\ at = "window" /\ options.skipsSilence
  /\ IF IsRetimed /\ ~IsUnderPadding THEN TaskFails(sink, seen) ELSE LeaveWindow(task)

\* A silent window leaves nothing; timing its words is an error.
SkipWindow ==
  /\ at = "window" /\ options.skipsSilence
  /\ IF IsRetimed /\ ~IsUnderPadding THEN TaskFails(sink, seen)
     ELSE LeaveWindow([task EXCEPT !.seek = Capped(@ + task.size)])

WindowFails == at = "window" /\ TaskFails(sink, seen)

-----------------------------------------------------------------------------
(* What a run and the call return. *)

\* Blank segments go, and the others keep the ids they were decoded with.
DropBlankAudioSegments(segments) ==
  At(segments, {i \in DOMAIN segments : ~segments[i].blank})

TaskResult ==
  LET left == IF options.dropBlank THEN DropBlankAudioSegments(task.segments) ELSE task.segments
  IN  [ok |-> TRUE, ids |-> [i \in DOMAIN left |-> left[i].id],
       facts |-> [sink EXCEPT !.observedLanguage = task.observed,
                    !.workerSchedule = [known |-> TRUE, workers |-> <<chunk - 1>>],
                    !.decodedSpan = Exact(task.allocated)]]

FinishTask ==
  /\ at = "clip" /\ task.clip > Len(task.clips)
  /\ IF IsChunked
       THEN /\ results' = Append(results, TaskResult)
            /\ schedule' = MergeSchedules(schedule, [known |-> TRUE, workers |-> <<chunk - 1>>])
            /\ chunk' = chunk + 1 /\ at' = "task" /\ task' = Idle
            /\ UNCHANGED returned
       ELSE /\ returned' = {TaskResult} /\ at' = "end"
            /\ UNCHANGED <<results, schedule, chunk, task>>
  /\ UNCHANGED <<cutVars, dropped, lost, sink, heard, seen, kept>>

\* merge_results, with what it makes of ids and spans.  With the drop on an
\* id space that runs out is a panic.
MergeStart == [ids |-> <<>>, span |-> Exact(0), fits |-> TRUE]
Renumbered(merged, index, ids) ==
  [i \in DOMAIN ids |-> IF options.dropBlank THEN merged.span.bound + ids[i] ELSE index + i - 1]
MergeOne(merged, index, result) ==
  [ids |-> merged.ids \o Renumbered(merged, index, result.ids),
   span |-> MergeSpans(merged.span, result.facts.decodedSpan),
   fits |-> merged.fits /\ merged.span.bound + result.facts.decodedSpan.bound <= MaxUsize]
MergedUpTo[k \in 0..Len(results)] ==
  IF k = 0 THEN MergeStart ELSE MergeOne(MergedUpTo[k - 1], k - 1, results[k])
Merged == MergedUpTo[Len(results)]

CallSpan == IF dropped = {} THEN Merged.span ELSE AtLeast(Merged.span.bound)

EndCall ==
  /\ at = "task" /\ chunk > Len(Chunks)
  /\ at' = "end"
  /\ returned' = IF options.dropBlank /\ ~Merged.fits THEN {}
                 ELSE {[ok |-> TRUE, ids |-> Merged.ids,
                        facts |-> [sink EXCEPT !.workerSchedule = schedule,
                                               !.decodedSpan = CallSpan]]}
  /\ UNCHANGED <<cutVars, chunk, schedule, dropped, results, lost, task, sink,
                 heard, seen, kept>>

-----------------------------------------------------------------------------
Next ==
  \/ Refuse \/ TakeWhole \/ CutChunk \/ NextRange \/ EndCut
  \/ BeginTask \/ OpenWindow \/ NextClip \/ BackendFails
  \/ \E outcome \in Outcomes : Attempt(outcome)
  \/ FinishWindow \/ SkipWindow \/ WindowFails
  \/ FinishTask \/ EndCall

Spec == Init /\ [][Next]_vars

\* A call that has begun runs on: one thread, and every backend call returns.
Fairness == WF_vars(Next)

-----------------------------------------------------------------------------
TypeOK ==
  /\ options \in Options
  /\ at \in {"cut", "task", "clip", "attempt", "window", "end"}
  /\ cut \in [clip : Nat, start : Nat,
              chunks : Seq([offset : Nat, length : 0..Content])]
  /\ misheard \in BOOLEAN /\ chunk \in Nat
  /\ task \in [clips : Seq([start : Nat, end : Nat]), clip : Nat, seek : Nat,
               first : BOOLEAN, size : 0..Window, attempt : 0..options.fallbacks,
               segments : Seq([id : Nat, blank : BOOLEAN]),
               base : Nat, allocated : Nat,
               detected : Optional(Languages), observed : Optional(Languages),
               probe : Optional(Languages),
               observations : Seq([start : Nat, size : 1..Window, language : Languages])]
  /\ sink \in FactsOf(Languages) /\ schedule \in Schedules
  /\ dropped \subseteq DOMAIN Chunks
  /\ heard \subseteq 0..(Content - 1) /\ lost \subseteq 0..(Content - 1)

Result == CHOOSE result \in returned : TRUE
HasReturned == returned # {} /\ Result.ok

\* A call that returns a transcript has decoded every clip from its first
\* sample on, all but the padding at its end and the chunks it dropped.
EveryClipIsHeard ==
  HasReturned =>
    \A i \in DOMAIN Ranges :
      LET end == Min({Ranges[i].end, Content})
          guarded == end - IF IsChunked THEN ChunkPadding ELSE WindowPadding
      IN  /\ Ranges[i].start..(guarded - 1) \subseteq heard \cup lost
          /\ ~IsChunked /\ Ranges[i].start < end => Ranges[i].start \in heard

\* What any attempt did is told, whatever became of it, of its window and of
\* its chunk, and the first language any attempt found is the one told.
FactsOutliveErrors ==
  \A facts \in {sink} \cup {result.facts : result \in {r \in returned : r.ok}} :
    /\ facts.drewFromRng = {seen.drew}
    /\ facts.earlyStopped = {seen.stopped}
    /\ facts.hadSwallowedError = {seen.swallowed}
    /\ facts.observedLanguage = seen.language

\* With the blank-segment drop on, or of one run, ids lie below the span told
\* beside them, which is exact only when no chunk was dropped; with the drop
\* on, no two segments share an id.
IdsLieInTheSpan ==
  /\ \A result \in ToSet(results) \cup {r \in returned : r.ok} :
       /\ options.dropBlank \/ ~IsChunked =>
            \A i \in DOMAIN result.ids : result.ids[i] < result.facts.decodedSpan.bound
       /\ options.dropBlank => IsInjective(result.ids)
  /\ HasReturned /\ dropped # {} => ~Result.facts.decodedSpan.exact

\* The languages listed are those of the attempts whose text was kept.
ProbesAreThoseKept ==
  at \in {"clip", "attempt", "window"} => task.observations = kept.all

\* The state of a call holds together: the probes listed, the facts told and
\* the ids given are those of what was decoded.
TaskHolds == TypeOK /\ ProbesAreThoseKept /\ FactsOutliveErrors /\ IdsLieInTheSpan

\* A call returns, or decodes a window for ever whose last time is its start;
\* nothing else that leaves the seek where it is goes on for ever.
WindowStays == FinishWindow /\ task'.seek = task.seek
CallReturns == <>(at = "end") \/ []<><<WindowStays>>_vars

\* "`chunk_all` is a CONTIGUOUS chunker ... and nothing is ever skipped".
NothingIsSkipped ==
  IsCutting /\ cut.clip > Len(Ranges) =>
    \A i \in DOMAIN Ranges :
      Ranges[i].start..(Min({Ranges[i].end, Content}) - 1)
        \subseteq UNION {Samples(c.offset, c.length) : c \in ToSet(Chunks)}
=============================================================================
