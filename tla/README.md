# Verification of coremlit

`coremlit` runs Core ML models from Rust: a small runtime over the Core ML framework and, above it, whisper transcription, voice activity detection, speaker diarization, forced alignment, language identification, audio tagging and several embedding models. Inference and numerics belong to the framework and to external crates. What remains, and what can go wrong by *order, state and bookkeeping*, is here: streams that decode growing audio again and again, caches that survive a rejected attempt, calls that outlive the failure of their parts, windows and ranges that must leave nothing out, doors that check a model before they trust its numbers, and options that are written, saved and read back. This directory holds TLA+ models of those parts, TLC configurations that check them on small instances, and TLAPS proofs of the results that matter most. Paths below are under `coremlit/src/`.

## The system

| Component | State it keeps | Operations | Hard behaviour | What makes it correct |
|---|---|---|---|---|
| `LocalAgreement` (`audio/whisper/stream/agreement`) | watermark, confirmed and held-back words, previous hypothesis, kept results | `ingest`, `take_finalized_words`, `finalize` | tied, backward and late word starts; a prefill budget; a hypothesis that contradicts the holdback | settled words only grow, are never decoded or confirmed twice; no word is lost between watermark and holdback |
| `LocalAgreementTranscriber` (same file) | recording, end of the last ingested stride | `push_samples`, `finalize` | a decode failing in the middle of a push | strides in order, the failed one retried unchanged |
| `AudioStreamTranscriber` (`audio/whisper/stream`) | `StreamState`, energies, recording | `push_samples`, callbacks | callbacks that stop, or panic while the state is out in the pass's mutex; a voice gate over a moving suffix | confirmed segments end at the watermark; nothing heard is overlooked |
| decode loop (`decode`, `decode/filter`, `segment`) | tokens, decoder position, alignment rows | prompt, step, finalize, segment seeker | off-by-ones between cap, loop bound and row index; timestamp rules | times in pairs, rows with their tokens, no word between two windows |
| word timing (`segment`, `transcribe`) | alternative alignments, words, segments | warp, split, merge punctuation, constrain, clip back | five rules that each read what the one before wrote; a padded window's surplus | words hold their own text in order; a clip keeps one story |
| `CoreMlDecoderState` (`backend/coreml`) | key/value caches, masks, alignment accumulator | probe, step, commit, capture, reset | data of earlier windows left in place; a step that fails half-way | only what the masks show is read; each row is its token's |
| `TranscribeTask::run`, `WhisperKit::transcribe` (`transcribe`, `audio/chunker`) | seek, ids, the window's probe, a facts sink shared by chunks | clips, chunks, windows, fallback ladder, dropped chunks | errors that erase evidence; clips under the padding or past the end | every clip is heard; what attempts did is told; the call returns, or stands at a window of no advance |
| `transcribe_all` (`transcribe`) | threads over one backend | spawn, join | interleaving, failure, panic | results in order; every attempt draws from a random stream of its own |
| task facts and merge (`task_facts`, `result`) | nine facts per result | merge of chunks, batches and streams, in stages | overflow, unknown parts, contradicted spans | stages agree with one merge; ids collide nowhere |
| model manager (`model/manager`), names of models (`model`) | lifecycle state, models, timings | prewarm, load, unload, patterns, device lists | callbacks that panic, failure half-way | state and residents agree |
| Silero VAD (`audio/vad`, `silero_vad`) | recurrent state, pending frame, failure latch | push, finish, reset, a shared `voice_activity` | failure in mid-stream; two calls on one latch | frames follow the stream; a failure surfaces |
| speaker windows and extraction (`audio/speaker`) | slabs, rows, counts | four routes to an extraction, online clustering | integer geometry, resource caps, a retried write into a dirty slab | slabs are what was segmented, rows are their slot's, no phantom speaker |
| calibration (`audio/speaker/calibrate`) | builders, frozen cohorts, tokens | push, freeze, clone, side, trial | a cohort outlived by its builder; two scorings | a side leaves out its own speaker and nobody else |
| forced alignment (`audio/align`) | vocabularies, aligner sets, bound decisions | load, register, detect, decide, align | a decision used with another set, language or text | what is spelt is what was stated; a decision serves its own question |
| `long_text`, granite token index (`embeddings`) | chunks in a sweep; prefix counts and suffix sessions | chunk, attach gaps, cap, measure | a measure that is not additive; incremental counts that must be exact | every unit in a window, every window in its budget; counts are a fresh encode's |
| clips of ced, clap, lid (`audio`, `embeddings`) | windows, rows, a fold | plan, score, aggregate | tails, caps, ties and zeros | the clip is heard to its end and folded fairly |
| doors of all models, load contract (`model`, every model module) | none | load, predict | a number read off one feature sizes the tensor of another | what opens never fails for its model's shape; what fits opens |
| options (everywhere) | 28 types | setters, serde, planned Core ML messages | unchecked mutation, silent defaults, an asked message that is not sent | what is saved reads back; what is refused is refused everywhere |

A stream's driver calls the task; the task calls the chunker, the decode loop and the backend; results are merged by `result`; facts travel beside them. The other pipelines meet only at the runtime's doors and share its load contract. `PROJECT.json` lists every component with what is and is not modelled, and every hazard with the properties that watch it.

## Modules and the code

Instants and samples are natural numbers, word texts and languages are model values, an optional value is a set of at most one member, and a slip (a definition marked so) is a plausible mistake in the definition after it: each property is shown to fail when one of them is put in its place.

### Streams

**Selections, LocalAgreement** (`stream/agreement`). One action, `Ingest`, per result, with a branch per early return of `ingest`; `Finalize`. A word is its text, start, end and number of tokens. `Instant` is the f32 grid late in a stream: several samples share a representable instant, and `PastTheSettledInstant` follows the code through both roundings, to the next float and to the next sample. `SplitAtAStrictBoundary` and `BudgetedSplit` are the two passes by which the split backs off from ties without exceeding the prefill. NaN starts are excluded.

**SettledTranscript.** What an eager stream promises its reader: settled words only grow, and nothing is settled before the frontier. `PromiseKept` says that `LocalAgreement` implements it (`STSpec`), and that `AudioStream` implements the weaker promise a transcript settled by runs of segments can give (`RunSpec`, both by `INSTANCE ... WITH`): a run starts from the frontier on and leaves it at its end, further on. Within a run, segments may be empty, reversed or overlap; the code does not check them. Starts are rounded to hundredths of a second when words are timed, which is `Slack`.

**AgreementDriver** extends the engine with `push_samples`: a push, the stride loop, a decode that succeeds or fails, the return.

**AudioStream** (`stream/mod.rs`). Every assignment of a pass that an observer can see is an action, with the callback after it, which may stop the stream or panic; the guard that puts the state back is modelled as it runs on every exit. Energies are loud or quiet frames. `is_voice_detected` floors an f32 quotient: `Considered` is within one of the exact one (`QuotientAssumption`), being one frame short of 1.3, 2.1, 2.6 and 3.1 seconds among others, and off otherwise only past 17 minutes of new audio; where it falls short, a loud frame that begins less than a frame after the last pass is overlooked until the next push (`Shortfall`). A pass returns any segments that start from its instant on, up to rounding (`PassAssumption`): the segment seeker makes empty and reversed ones, and the filter of empty ones runs only when words are timed. A run that does not move the watermark is therefore in neither list, and `PassIsShown` says that the watermark then stays, so that its audio is decoded again.

### Windows and words

**WindowDecode** (`decode`, `segment`). The prompt of `prefill_tokens`, then one step per action; `Left` is what the logit filters leave to sample; `Segments` and `SeekBy` are the segment seeker over the final tokens. The decoder may return any token the filters leave. `no_speech_prob` is always zero in the code, and here.

**WordTimings, ClipBack** (`segment`, `transcribe`, `backend/coreml`). `WordTimings` holds the operators: the warping of a window's tokens onto its frames and the words read off it, their merging with the punctuation beside them, and the rules that move their times. `ClipBack` runs them over a decoded window: attribution of words to segments, `clip_back_to_window`, the derivation of visible words. A text is a sequence of character classes; times are integers of which two make a hundredth of a second; the f32 rounding of a time and the slack `window_samples` allows for it are left out, and weights are whole numbers. `ClipTellsOneStory` says that kept tokens, times and words of a clip agree; `WarpIsHeaviest` compares the dynamic program with all monotone paths; with `WordsFollowTheText` they are the run's `AlignmentHolds`.

**DecoderState, AutoregressiveDecoder** (`backend/coreml`, `segment`). `CoreMlDecoderState` between the task that probes, decodes, falls back and opens the next window, and an external model that attends to the slots the padding mask exposes. A step is the code's sequence of writes, and may fail between any two of them. `AutoregressiveDecoder` is a decoder that forgets between passes: it reads the tokens of its pass and its audio, and nothing else. `PassIsAutoregressive` says that the shared state implements it. `DecoderState` ends with the gather that turns the rows a pass committed into the matrix the words are aligned by: a loop over runs of cells, between surfaces whose rows are padded to a pitch, compared cell by cell with what Swift reads (`GatherIsSwifts`).

### Calls

**Chunker, Transcribe** (`audio/chunker`, `transcribe`). One whole call. `CutChunk` and `NextRange` are `chunk_all`; the detector may fail at any of them, for this call or for another that shares it. `OpenWindow`, `Attempt`, `FinishWindow`, `SkipWindow` and `NextClip` are the loop of `run` and the ladder of `decode_with_fallback`; `TaskFails` is an error anywhere, which fails an unchunked call and drops a chunk of a chunked one. What an attempt comes to is `Outcomes`; what a window leaves is any number of slices of which a filter may remove some. Ids are a `usize`: a window that would run out of them is out of the model, and a merge that does so panics, so that `EndCall` returns nothing. A last time may be zero (`Times`): such a window is opened again, and if the model keeps answering so, for ever, which is what the run `window_advances` shows about the decode loop. Windows that leave nothing, as when word timing filters an empty segment, repeat in the model as in the code; of those that leave segments, each of which takes ordinals, the model has as many as the bound on ordinals lets it.

**TaskFacts, ResultMerge** (`task_facts`, `result`). The merge law of each fact, and `merge_results` as an operator on an accumulator; children are merged at once (`whole`) and in any grouping (`group`, `staged`). An empty group is never merged, whose unknown facts would absorb the others'; ids with the drop off are not claimed equal in stages (they are the port's `result_index + segment_index`).

**BatchPool** (`transcribe_all`): batches of threads, their windows and attempts in any interleaving, the joins in order, failures, and a panic that is told on. **ModelManager** (`model/manager`, `model`): the manager under callbacks that may panic at any transition, `WhisperKit::new` over it, and `glob_match`, the bundle names and the device lists against plain definitions of what they mean. **SharedDetector** (`audio/vad`): one detector under two calls, with the lock per frame and the two reads of the failure count. **VadStream** (`audio/vad/backend`): the streaming backend over blocks of any size, with failures in `push` and `finish`. **MCWhisperKit** runs a call or one of these parts.

### Doors and inputs

**LoadContract, Doors** (`model/contract`, and the load and predict functions of the whisper, Silero, lid, ced, identity, speaker, aligner, CLAP, SigLIP, granite and face modules). A model is its description: features with types, shapes and shape constraints. A door reads some numbers before its contract is checked and sizes tensors with them afterwards. `OpenDoorsAnswer` says that a model that passed never makes a prediction fail by its shape; `FittingModelsOpen`, that the contract refuses nothing it need not. The faces of a call are cut into the artifact's batches, and the aligner's frames are those of real samples.

**LongClips** (`lid`, `ced`, `clap` windows and aggregation): plans under every tail policy and cap, the rows of windows folded per class or over languages. **LongText** (`long_text`): `attach_gaps` as a sweep over chunks under an arbitrary measure of ranges, the cap, the encodings, an encoder that fails. **TokenIndex** (`granite/token_index` with `suffix_session` and `bpe_mirror`): the pre-tokens of the Split pattern over character classes, byte-pair merging with its recorded seams, the counts of prefixes and the live sessions; every count is compared with a fresh encode of the range. **MCInputs** runs one of these at a time.

### Speakers and alignment

**SpeakerWindows, Extraction** (`speaker/window`, `extract`, `source`, `segment`, `embed`, `cluster`): the chunk and frame grids, the fused loop, the split loop a caller drives and repeats after a failure, the thirty-second source, parts of a caller's own, and the online clustering. **Calibration** (`speaker/calibrate`): tokens, builders that are cloned and go on growing, frozen cohorts, sides and trials.

**Spelling, AlignmentSets** (`align/vocab`, `acoustic`, `aligner`, `registry`): the table an aligner spells with under every statement of the model's contract, and its tokenizer document as another crate parses it; sets built from registered aligners, detections, decisions, and what an alignment then does. **Settings** (`options` of every module): setters and their assertions, documents with omitted and misspelt members, and the messages a load plans on a system that answers to any subset of them. **MCDecoderState** runs the decoder state, alignment or settings.

## Runs

| Run | Instance | Properties |
|---|---|---|
| `agreement_backoff` | three words with starts in any order and tie, budget two | `HoldbackOfferable`, `NoAvoidableStrand`, `HoldbackEmptiesOnlyOverBudget`: the split backs off from ties without stranding a word it could spare |
| `agreement_driver` | three samples to an instant, two texts, agreement of two, budget one; strides of two samples, pushes of 0, 1, 4, failing decodes | `DriverInv` (strides in order, nothing left behind, the holdback within the prefill budget, types), `SettledBehindWatermark`, `TranscriptEndsWithHypothesis`, `AdvanceIsSound`, `RetryAsksTheSame`, `PushTerminates`, `PromiseKept` |
| `stream` | pushes of 3 and 5 samples up to 15, two samples a frame, up to three segments a pass in any order, empty, reversed, overlapping, past the recording; a quotient short at some durations and over at another; failures and panics at each assignment | `SessionHolds`, `PushTellsTheTruth`, `MarksMoveWithTheirAudio`, `PromiseKept` |
| `window_decode` | every token sequence the rules leave in windows of up to five samples, prompts, prefixes, stops and failures; windows of one or two segments with every placing of their text; words of every grouping and punctuation | `DecodeHolds`, `NothingFallsBetweenWindows`, `AlignmentHolds` |
| `window_advances` (violation) | the decode loop alone | `WindowAdvances`, see findings |
| `result_merge` | up to three children in all groupings, an id space of six | `MergeHolds`, `StagingIsInvisible`, `PromisesWhatItsChildrenDo` |
| `transcribe` | seven samples, a window of four, nine sets of options, four outcomes per attempt, last times of 0, 2, 3 or the window's end, three ordinals a run; or a manager, patterns, a shared detector, a stream, a batch of three on two threads | `TaskHolds`, `EveryClipIsHeard`, `KitIsSound`, `WalksAreExact`, `EveryCallEnds` |
| `transcribe_skips` (violation) | a chunked call that nothing fails | `NothingIsSkipped`, see findings |
| `decoder_state` | two tokens, two audios, four slots, failures between any two writes; or matrices of up to four rows with pitches up to five, aligner sets, or settings | `DecoderInv`, `RowsAreOwn`, `PassIsAutoregressive`, `GatherIsSwifts`, `AlignersHold`, `SettingsHold` |
| `doors` | models that fit every door and models that deviate in a feature, a shared number, a verdict, an extra input or a state; or clips, texts, token indexes | `OpenDoorsAnswer`, `FittingModelsOpen`, `FacesAndFramesHold`, `InputsAreMeasured`, `TextIsWhole` |
| `speaker` | recordings of one to three chunks on four routes, two slots, four frames; or cohorts of up to three entries | `ExtractionsHold`, `NoPhantomSpeaker`, `SidesKeepApart` |
| `scorings_agree` (violation) | cohorts alone | `SidesOfOneCohortAgree`, see findings |

Components that share nothing share a run: a variable `part` chooses one at the start and only its actions then step, so the instance is the sum of its parts, not their product.

**Bounds, and why they are enough.** A property of the agreement needs two rounds to disagree and a third to repeat; a tie needs two words, and backing off over it a third. A stream needs a pass, an interrupted pass and another. A merge in stages first differs from one merge at three children. Seven samples make three chunks of which the last is left over, or two windows and a sliver; two segments a window make one that a filter removes and one that it leaves. A stale cache needs a pass, a failed or rejected one, and a shorter one after it, which four slots hold. A batch of two leaves a third audio for a second batch. Gaps that go left, right and alone need three chunks and an uneven measure. A side of a cohort differs from a trial's other side with two speakers and three entries. Token texts go up to seven characters with tables of up to four merges over one or two letters, in every order of their ranks; longer tables only repeat those competitions. Settings take up to two setters and documents up to two members: the pairs of members that constrain each other are all pairs. Every bound on a counter (`MaxKept`, `MaxWords`, `MaxBuffer`, `MaxStashed`, `MaxSegments`, `MaxSlices`, `MaxChildren`, `MaxPasses`, `MaxSamples`, `MaxStreams`, `MaxAudios`, `MaxSets`, `MaxRegistered`, `MaxSettings`, `MaxEntries`, `MaxTokens`, `MaxRetries`) is a constant that guards an action or an enumerated set. Deadlock is not checked: finished calls, full buffers and ended windows stop.

**Fairness.** A driver's call, once made, runs, and its decode returns, with a result or an error (`DriverFairness`). A transcription call is one thread all of whose backend calls return (`WF_vars(Next)`): its options and audio are given at the start, and it waits for nobody. That does not make it end: `CallReturns` says that it returns, or decodes for ever a window whose last time is its start, and that nothing else which leaves the seek in place goes on for ever. That a decode ends, which `DriverFairness` assumes, has the same exception. In a batch every thread runs on (`BatchFairness`): the call's own blocks in joins only, and each worker's audio and ladder are finite. No fairness is assumed of pushes.

## Findings

- `window_advances`: the prompt's `<|0.00|>` is no sample to the timestamp rules and is a time to the segment seeker. A window whose only pair is that one and a sampled `<|0.00|>` moves the seek by nothing, and is decoded again.
- `transcribe_skips`: what is left of a clip after a split, when no longer than the padding, is in no chunk, where a comment says that nothing is skipped.
- `scorings_agree`: `ScoringMismatch` is documented as unreachable through one calibration; a library that files one speaker under one scoring only and another under another reaches it.

Met while reading, without a run of their own:

- Agreement: rounds that agree and confirm nothing can follow one another without bound, when a short hypothesis repeats and every split is at zero (`stream/agreement/mod.rs:1783`), where `:1582` says the delay is "bounded by the prefill budget, on ANY input".
- Streams: the first update of a pass is compared with an earlier pass's text and fallback count, or with the placeholder (`stream/mod.rs:730` against `:27-30`).
- Decode: prompt tokens on a multilingual model turn the timestamp rules off for a whole window (`decode/filter` finds the task token among the first three tokens only); the blank filter is built with the prefilled index zero and so never applies after a prompt; a prompt longer than the loop's bound (`decode/mod.rs:452`) makes the result the prompt itself.
- Words: a prepended mark that is merged into a timestamp's word takes the timestamp's probability; `merge_punctuations`'s doc (`segment/mod.rs:500-507`) says more than its code does.
- Results: `transcribe_all` promises distinct window ids across workers, and offset plus windows less fallbacks gives worker 0's second window the id of worker 1's first (`transcribe/mod.rs:2592-2595`, `:265-267` against `:1502`); `drop_blank_audio_segments` says that a merge renumbers unconditionally, and with the drop on it keeps the holes.
- VAD: a frame that fails in `push`, or in `finish`, leaves a whole frame pending, where `vad/backend.rs:79-82` says "Always shorter than one frame between calls". The failed frame's samples are heard again by the next push, so the frames still follow the stream.
- Models: `glob_match` (`model/mod.rs:405`) compares characters before it tests for `*`, so a literal `*` in the text is eaten by a pattern's; names hold none.
- Speakers: the split route checks no step against the options, where the fused one does; a comment in `speaker/source` says that an omitted `Option` member without `default` is a hard error, which is not how serde's derive treats `Option`.
- Language identification: the doc of `SlideBack` (about `lid/window/mod.rs:141-146`) understates the overlap of the last window.
- Alignment: `ReservedSetMismatch` and `MisroutedResolution` are out of reach of the public functions; they are defences.
- Options: `AlignerOptions.min_speech_coverage`, `AudioStreamOptions.silence_threshold` and `EmaRenormalizedOptions.alpha` are floats without the guard against non-finite values that their neighbours have; a NaN is saved as null and refused on reading.

## Proofs

*LocalAgreement* (`LocalAgreement_proofs`, over `Selections_proofs`), for every vocabulary, budget, agreement count and tick size. The inductive invariant `IndInv` is the type invariant, `SettledBehindWatermark` and `HoldbackOfferable`. The second and third are not inductive alone: an advance computes the new watermark from the first held-back start, so that it clears the words just settled only because the split ended at a strict boundary, and the earlier ones only because the words compared were all at or past the old watermark. `SplitFacts` and `WatermarkFacts` carry that argument; `PastTheSettledInstantFacts` is the arithmetic of the two roundings. From the invariant follow `SettledIsBehindTheWatermark`, the refinement `EngineKeepsThePromise`, and `HoldbackEmptiesOnlyOverTheBudget`.

*Advances* (the same module), from the same invariant. `SplitCases` says where an advance cuts: at or past the floor the budget sets, short of the agreed prefix only at a strict boundary, and at its end only when no cut from the floor on is one; `LegalCutSparesAll` that a cut at a strict boundary strands nothing, whatever the anchor. So an advance that strands a word cut at the end, and every cut the budget allows would strand one at any watermark (`StrandsAreUnavoidable`). A cut at or past the floor leaves a holdback whose tokens fit the prefill: the floor is the first cut whose holdback does (`FloorFacts`), and a shorter holdback has no more of them (`ShorterFits`), its tokens being counted as marks in a finite set (`MarksAreCounted`) so that it needs no sum. With the rounds that keep the holdback or drop it this is the invariant of `HoldbacksFit`. `AdvancesAreSound` is the progress of an advance, and `HypothesisEndsTheTranscript` needs an invariant of its own, `EndInv`: what finalize would publish is some head and then the newest hypothesis, and there is no holdback before a first worded result.

*AgreementDriver* (the same module), for every stride length, every set of pushes and every decode. `DriverRunsTheEngine` says that a behaviour of the driver is one of the engine, so all that is proved above holds of the driven one (`DrivenEngineIsSound`). `StridesAreKept` and `RetriesAskTheSame` need `RequestIsCurrent`: a request for the stride that is next was made from the watermark and the holdback as they are, because only an ingest moves them and an ingest takes the next stride with it. `DriverHolds` adds the types and that the holdback a decode is prefilled with fits the budget.

*AudioStream* (`AudioStream_proofs`), for every frame size, voice gate, sequence of pushes and outcome of a pass, with a panic at any assignment. The invariant is the shape of the state, the cursors (`Cursors`: the published energies are the measured ones; the audio passed lies in the buffer; a pass leaves a fresh state behind) and the marks (`Marks`: a pass in flight starts at the watermark, its segments start from there on, up to rounding, and a watermark that has moved ends the segments about to be confirmed, past where the pass began). The last is what the others are for: the frontier of the promise stays where the pass started until the second of the two assignments, so that a panic between them, which moves the watermark past segments that are in no list, still leaves a frontier that has not retreated. `OneAssignmentAtATime` says which action changes which field, wherever the state is kept, and does most of the work. From the invariant follow `SessionsHold`, `MarksMove`, the refinement `SessionKeepsThePromise` and `PushesTellTheTruth`: the last needs that the examined frames reach from the first one recorded since the last pass, or the one after it where the quotient falls short, to the last one with a second after it (`FramesExamined`), and that a run which moved the watermark is in the confirmed list, appended or found there (`ConfirmedIsShown`). Nothing is assumed of the order, the lengths or the ends of segments.

*WindowDecode* (`WindowDecode_proofs`), for every vocabulary, context, prompt and set of options, and whatever the model predicts, fails at or is stopped at. `DecodeInd` says that the tokens past the prompt are the ones predicted, in order, that none of them ends the text, and that their number follows the loop's index; so a committed row is no later than the index, its token is the one after it, and the end of text, which only finalization appends, has no row of its own. The pairing of times is inductive because of where the rules begin: past the prompt and past a task token, so that a token pushed either extends what they have already seen (`PairingIsKept`, for any token that `PairedLeft` leaves) or is where they begin (`BeginOfAppend`); a time put in the prompt's last place lies before that. `DecodingHolds` follows. `SliceFacts` says where a result is cut, by its two endings, which exclude each other: the last cut is behind every pair, and behind every time if it was added for a lone last one. Hence every slice has a time (`SlicesHoldTimes`: a slice to the very end starts with the second time of a pair), and the seek reads a time before any word behind the last cut (`WordsComeBack`): `WindowsMeet`. Assumed: the special tokens have ids of their own, behind the words' and before the times', and an option's tokens are tokens. Sequences are filtered by their sets of indices (`Selections`), which the provers can reason about.

*Transcribe* (`WhisperKit_proofs`, first half), for every length of audio, window and padding, every set of options, what the attempts come to, every verdict of the detector and a failure at any step. The invariant is built in layers, each kept by every action from itself and the layers below. `Shape` and `Control` type the call and say what each position of it implies. `FactsAgree`: the sink, and the observed facts of the run under way, promise exactly what the attempts did, so that an error that leaves by any exit leaves them behind. `ProbesAgree`: the window's probe and the language it fixes are those of its first attempt. `IdsAgree`: the ids of a run rise below `task.allocated`, and with the drop of blank audio those of a merged result rise below its span (a merge whose ids leave the id space panics and returns nothing); over the results it is an induction on how many have been merged (`MergedUpTo`, a recursive function). `HeardWhole` is about one run: the clips behind were heard up to the padding of their ends, and the clip under way up to where the run stands, because a window is opened where the last one left off and moves on by no more than it holds. `HeardCut` carries it to a chunked call: what a chunk holds was heard or is in a dropped chunk, the chunks cover the clips, and a chunk, being no longer than a window, is heard whole by its first; a split falls where it begins only at the last sample of a clip, which is where it is needed that a window is longer than one sample and the padding at least one. `TaskHoldsTogether` and `ClipsAreHeard` follow. Nothing is assumed of a model's answer but that a last time lies in its window; it may be zero, since what is proved is of the windows that were decoded. An id needs a place in the id space only if a segment is left to have it (`HasIds`): windows that leave nothing saturate the counters (`NoIds`).

*WhisperKit* (the same module), what a kit shares, for every number of passes, callers, frames, audios, threads and windows: `KitHolds`. Whichever part runs, the others stand, so the invariant is one of each part. The manager (`ManagerInd`): a call under way says which models it has brought up, and the durations it took are of its pass; `loaded` says the pass its models are of; a kit says which passes it has made; and unless a callback panicked, a free manager is not busy. That a callback which panics leaves no `loaded` without models is then a matter of where the state is written. The detector (`DetectorInd`): as long as a caller is between its two reads, the count it read is behind the detector's exactly if a frame failed since, so that a caller whose own frame failed cannot read the same count again, whatever others do between; and once the count has moved there is an error to read. The batch (`BatchInd`): answers are joined in order and batch by batch (`BatchesInTurn`), so the active workers are all of one batch and at most `BatchSize`; and every stream drawn lies behind where its worker stands (`StreamsBehind`), so the next draw is from a new one.

*ResultMerge* (`ResultMerge_proofs`), for any children and any id space. The invariant says that every accumulator is sound (its ids lie below its base, its span is its base), that the stage followed by the group agrees with the whole field by field, and that the facts promise what their children do. `MergeFacts` is associative, and `Agree` is preserved by `Take`, `CloseGroup` and `Restage` because of it. `MergeIsSound`, `StagesMergeAlike` and `PromisesKept` are its corollaries.

*DecoderState* (`Models_proofs`), for any cache size, sample length, vocabulary and audio. `DecoderInv` says that between passes the masks are fresh, and in a pass the exposed slots are those before its position and hold the keys and values of its tokens over its audio; `RowsAreOwn` adds that committed and captured rows are their token's. Each is inductive once the staging between two writes of a failing step is described too: what a failed step leaves is data under a masked slot, and the reset that follows puts back masks only. `PassesAreAutoregressive` is the refinement: every step maps to a step of the decoder that forgets, or to a stutter.

The gather (the same module), for any number of rows and columns on either side and any pitches. The invariant `GatherInd` has where the loop stands in its row, and that the cells behind are what Swift reads and the others zero. A run stays on one row of the source because it is cut where that row's pitch ends, and a quotient does not change as long as the remainder fits (`OnTheSameRow`); when a row is left with cells to go, what would be read there is past the copy, or past the source's last row since quotients only grow (`NothingIsLeft`). A pitch that does not hold the columns starts nothing. `RowsAreGathered`, and `RowsAreGatheredInTheRun` for the run's specification.

*Spelling* and *AlignmentSets* (the same module), for any list of pairs and any statement of the contract, any aligners, languages, texts and lengths, and whatever a model predicts, in particular for tables longer than a run's three. A table that `FromJson` takes has as many ids as places and misses none, so each place is one token's (`EachPlaceOnce`, by the sizes of the two sets). What the seam reserves beyond the declaration is the blank, the delimiter or the unknown, each of which is declared or spelt by no letter; what it drops, a special that spells nothing, is reserved anyway or refuses the load (`WhatIsDeclaredIsReserved`); a column of neither is a letter's (`ALetterIsRead`). Hence `TablesSpellWhatTheyDeclare`. Of the registry, sets are only ever added, so that what was read of a text follows the route of its set when it is used as it did when it was made (`Follows`): a resolution that passes `CheckResolution` is never found misrouted one level down, and the check in the aligner is a defence. What an alignment answers is the first of eight complaints that holds, in the code's order; `FirstComplaint` reads such a list, and each kind of answer then follows from the complaints that come before it (`AlignWithFacts`): words, that the seam accepted the rows, which are as many as the chunk's real samples make (`FramesAreTheWindows`, the division of the padded window); a refusal, that a position was refused. `DecisionsAreApplied` and `AlignersKeepTheirWord` follow. Assumed: a receptive field and a stride are not zero.

*Settings* (the same module), for the twenty-eight types of options and any number of setters called. The argument is about a member. It is *sound* if what a missing member stands for is what it holds at first, what is read of it is what it may hold, and every value it may hold is one of three: left out, and then a missing member stands for that value and no other; written, and then read back, or not a number and refused; or neither, and then not a number. It is guarded if nothing is written that is not a number. Joining sound members (`GoodTogether`) keeps both, so every member of every kind is sound, and guarded in all kinds but three (`KindsAreSound`). The invariant `SettingsInd` adds to the sends what a page and a reading hold: the page of one's own settings states the members that are not left out, with what they hold (`OwnPageSaysItAll`), and a reading is that of the page. The two numbers of a language plan are sound one by one and fit only together, so that they are set together and checked together on reading. A load stops at the first message that the system does not answer to, and asks about a strategy only after its hints, so that what it asked is a beginning of what it wants (`WantedFacts`). `SettingsAreKept` follows, and `SettingsAreKeptInTheRun` for the run's specification.

*LoadContract* and *Doors* (the same module), for any description a framework can report, any size of call and any constants of the doors. A contract that passes says of each feature that it is there, of its type and verdict, and that every axis fits its clause, so that a number read from an axis is what the clause pins it to (`Fixed1` to `Fixed4` and the lemma of each door: a language model's axis may be flexible, a face model's output may have two forms). `DoorInv` has what was read of each model that passed (`OpeningInv`: a later read never changes an earlier number), that an accepted call is of the size of its tensors (`Heard`), and where the faces of a call stand (`FacesInv`: those embedded are the first ones, each in its place, and none is one that cannot be). Every prediction of an accepted call then comes to "ok": its tensors are sized with the numbers read, and each is within the shape the model takes and of the size the code looks up after (`PredictionsRun`); that loops cut their input into batches that fit is arithmetic (`ChunkIsARun`, `NormalisedIsARun`, `BatchesOfACall`), and so is that an aligner's frames lie within the model's (`FramesWithin`). `DoorsThatOpenAnswer` and `FacesAndFramesStay` follow. The converse, that nothing that fits is refused (`FittingModelsOpen`), is checked on the enumerated models only. Assumed (`DoorsAssumption`): shapes are of naturals, a shape has as many ranges as axes, a fixed axis is its shape's, context lengths and special tokens are naturals, and a receptive field and a stride are not zero.

*LongText* (the same module), for any text, options and lists the chunker comes to. What is done by the time the sweep holds a chunk is said of a number, where that chunk starts: the pieces reach every unit below it, abut one another and end there if no overlap was asked for, and are each within their budget (`Tiles`); the chunks to come are in order, each within the window or a single unit (`Ordered`). `TilesGrow` is the step: a piece that starts where the others end carries them to its own end. A gap that goes left lengthens the piece that is added, one that goes right moves the start of the chunk the sweep takes up next, and one on its own is a second piece, measured against the model's window before it is added; after the last chunk the place reached is the end of the text (`SweptAt`). From then on the pieces do not change, and a window's count is its chunk's because no piece exceeds the model's window. `TextsStayWhole` follows. Nothing is assumed of counts adding up. Assumed (`LongTextAssumption`): every range has a count, which is a natural, a single unit's is within the model's window (the exception `chunk_long`'s doc names: "one `char` encodes to at most a handful of ids"), and the chunker's lists are of ranges.

*Extraction* (`Extraction_proofs`), for every set of calls, every grid and whatever the segmenter hears. The invariant `ExtractionInd` says of each chunk how far it has come: a chunk still to do is untold, one that is segmented holds the segmenter's columns, and one that is embedded has the columns and rows of what was heard in it less the slots that were dropped (`EmbeddedAs`); a loop that goes over thirty-second windows does the bounded chunks of a window at a turn, and the shares of two windows have no chunk in common (`SharesAreApart`). That a retry changes nothing (`RetryStep`) is because the columns a failed call zeroes are those of slots that never spoke. It also says that a grid is its call's own, so that of what a caller's own parts are checked for, seven things in the code's order, only the size of the output and the cover of the last chunk can be wrong with a source's (`SourcesAreRarelyRefused`). `ExtractionsAreSound` and `ExtractionsHoldOfTheRun` follow; the second adds the grid (`GridsAreWhole`), which is division: each sample is in the chunk its quotient by the step names or in the last one, thirty-second windows hop over whole chunks (`HopsAreWindows`), and rounding to the nearest frame keeps order (`RoundingKeepsOrder`), so that the last chunk's last frame is the greatest. Assumed of a call: the segmenter says what `multilabel` can, a split caller has a grid (its step is not zero), and a caller's parts have the shapes their lengths say.

The clustering (the same module), for every number of chunks and slots and every decision of the clusterer. `PhantomInd` adds that slots still to do have no label, that the labels given are exactly those of the speakers made so far, and that the count and the reconstruction put each chunk's first frame on one output frame: of a source's grid because it starts at zero, of a caller's because it was checked (`WholeGridsAreAligned`, `PartsTakenAreAligned`). A frame's count is a mean of what its cells say; each says no more than there are labels over the frame in all, and a mean rounded to even is no more than the most of its terms (`TotalsAreBounded`, `MeansAreBounded`): `NobodyIsAPhantom`. The total of a set of cells is the size of a set of marks, so that it needs no sum. *Calibration* (the same module), for every number of builders, profiles and cohorts: a frozen cohort is never written again, a library knows whoever it holds a profile of, and a side tells which cohort and space it is of, so that a trial that answers has two sides of one (`SidesStayApart`).

Assumed: the named assumptions on constants, which every run evaluates. Only model-checked: liveness (`PushTerminates`, `EveryCallEnds`); the walks of `WalksAreExact`, which fold over sequences, about which the provers know nothing; the algorithms that are recursive functions over a text, a plan or a table (warping and the words cut from it in `AlignmentHolds`, token counts and the plans of clips in `InputsAreMeasured`, the clip sweep of `ClipTellsOneStory`), whose correctness for every input is induction over data; and `FittingModelsOpen`, which says of enumerated models that no door refuses them.

## Not modelled

- Inference, sampling probabilities, compression ratios, mel spectra and image preprocessing; the overflow checks of `TensorElements` and the finiteness checks around a face's geometry; the f64 quotients of the speaker grids; the f32 rounding of word times and of lid's scores, and the mass tolerance of its rows.
- External crates: `windit`'s chunker and plans (that a dropped tail is always a chunk of its own rests on it), `diaric`'s clustering and statistics, `asry`'s preparation and trellis, the tokenizers crate; the Core ML framework. They are choices over what the source relies on.
- In the token index: characters of several bytes, contractions of two letters or with folded case, the template's two tokens, which every count has, and the offsets of a character the byte coverage guard splits. In alignment: parse errors of the table's JSON, more than one odd feature per chunk.
- Timings, progress callbacks, formatting, logging, errors' wording, fingerprints for display, result writers, provenance, the mock backend, tensor views. Test oracles, conversion scripts, benches and examples are no part of the library.

## Order of work

The agreement engine, its promise and its driver; the audio stream; the window decode; facts and merge; the chunked call; the decoder state and its abstract decoder; what a kit shares; the doors; windows of clips and texts; the token index; extraction and calibration; alignment; word timing; settings. What is left of the plan is proof: word timing and the plans of `LongClips`.
