------------------------------ MODULE Settings ------------------------------
(***************************************************************************)
(* Options: what their setters keep, what a document of them says, what    *)
(* reads back; and what a load asks of the system it finds.  One type of   *)
(* options is followed at a time.                                          *)
(*                                                                         *)
(* A value is a number: of tenths or hundredths where the code holds a     *)
(* fraction, 0 and 1 for a flag, a variant's place for an enumeration.     *)
(***************************************************************************)
EXTENDS Integers, Sequences, FiniteSets

CONSTANT MaxSettings  \* bound: setters called on one value
ASSUME MaxSettingsAssumption == MaxSettings \in Nat

Unset == -1000
NaN == 1001
Infinity == 1002
NonFinite == {NaN, Infinity}
Flag == {0, 1}

-----------------------------------------------------------------------------
(* A member: what it is at first, what a caller or a document may offer,   *)
(* what its setter takes, what is written, left out, read, and stands for  *)
(* a member left out.                                                      *)

Member(initially, offered) ==
  [initially |-> initially, offered |-> offered, taken |-> offered, written |-> offered,
   omitted |-> {}, read |-> offered, absent |-> {initially}]
\* Left out where it says nothing.
Sparse(member) == [member EXCEPT !.omitted = {member.initially}]
Required(member) == [member EXCEPT !.absent = {}]
\* The setter asserts what the document is held to.
Checked(member, good) == [member EXCEPT !.taken = @ \cap good, !.read = @ \cap good]
CheckedBothWays(member, good) == [Checked(member, good) EXCEPT !.written = @ \cap good]
\* Neither written nor read unless it is a number.
FiniteFloat(member) == [member EXCEPT !.written = @ \ NonFinite, !.read = @ \ NonFinite]
FiniteOption(member) == [member EXCEPT !.written = @ \ NonFinite, !.read = @ \ NonFinite]
FiniteList(member) == [member EXCEPT !.written = @ \ NonFinite, !.read = @ \ NonFinite]

\* Members of two kinds together.
f & g == [x \in DOMAIN f \cup DOMAIN g |-> IF x \in DOMAIN f THEN f[x] ELSE g[x]]

\* A number no JSON document can state is written as null.
InJson(value) == IF value \in NonFinite THEN Unset ELSE value

-----------------------------------------------------------------------------
(* The options of whisper.                                                 *)

Tasks == {0, 1}
Strategies == {0, 1}
Groupings == {0, 1}
Gathers == {0, 1}

Basics ==
  [task |-> Member(0, Tasks), language |-> Sparse(Member(0, {0, 1})),
   temperature |-> FiniteFloat(Member(0, {0, 10, NaN})),
   temperature_increment_on_fallback |-> FiniteFloat(Member(2, {0, 2, Infinity})),
   temperature_fallback_count |-> Member(5, {0, 5}), sample_length |-> Member(224, {0, 224}),
   top_k |-> Member(5, {1, 5})]
Seed == [seed |-> Sparse(Member(Unset, {Unset, 0, 7}))]
Prefill == [use_prefill_prompt |-> Member(1, Flag)]
\* No setter takes the choice back.
DetectLanguage == [detect_language |-> [Sparse(Member(Unset, {Unset} \cup Flag)) EXCEPT !.taken = Flag]]
TextFlags ==
  [skip_special_tokens |-> Member(0, Flag), without_timestamps |-> Member(0, Flag),
   word_timestamps |-> Member(0, Flag)]
Seeking ==
  [max_initial_timestamp |-> FiniteOption(Sparse(Member(Unset, {Unset, 0, 10, NaN}))),
   max_window_seek |-> Sparse(Member(Unset, {Unset, 0, 8})),
   clip_timestamps |-> FiniteList(Sparse(Member(0, {0, 10, Infinity}))),
   window_clip_time |-> FiniteFloat(Member(10, {0, 10, NaN}))]
TokenLists ==
  [prompt_tokens |-> Sparse(Member(0, {0, 1})), prefix_tokens |-> Sparse(Member(0, {0, 1})),
   suppress_blank |-> Member(0, Flag), suppress_tokens |-> Sparse(Member(0, {0, 1}))]
\* Slip: a threshold that is off is left out, like the other options.
SparseThresholds ==
  [compression_ratio_threshold |-> FiniteOption([Member(24, {Unset, 24, NaN}) EXCEPT !.omitted = {Unset}]),
   logprob_threshold |-> FiniteOption(Member(-10, {Unset, -10, NaN})),
   first_token_logprob_threshold |-> FiniteOption(Member(-15, {Unset, -15, NaN}))]
\* On by default, and written also when off.
Thresholds ==
  [compression_ratio_threshold |-> FiniteOption(Member(24, {Unset, 24, NaN})),
   logprob_threshold |-> FiniteOption(Member(-10, {Unset, -10, NaN})),
   first_token_logprob_threshold |-> FiniteOption(Member(-15, {Unset, -15, NaN}))]
NoSpeech == [no_speech_threshold |-> FiniteOption(Member(6, {Unset, 6, Infinity}))]
\* The type of the count has no zero.
Working ==
  [concurrent_worker_count |-> Checked(Member(16, {0, 1, 16}), {1, 16}),
   chunking_strategy |-> Member(0, Strategies), verbose |-> Member(0, Flag)]
DropBlankAudio == [drop_blank_audio |-> Member(1, Flag)]
WordPlacing == [word_grouping |-> Member(1, Groupings), alignment_gather |-> Member(1, Gathers)]

DecodingOptions ==
  Basics & Seed & Prefill & DetectLanguage & TextFlags & Seeking & TokenLists
    & Thresholds & NoSpeech & Working & DropBlankAudio & WordPlacing

-----------------------------------------------------------------------------
(* Where models may run, and what else a load asks for.                    *)

CpuOnly == 0
CpuAndGpu == 1
CpuAndNeuralEngine == 2
AllUnits == 3
Misnamed == 4  \* a name no unit has
\* Named in a document, each by its own name.
Units == {CpuOnly, CpuAndGpu, CpuAndNeuralEngine, AllUnits}
Placed(unit) == Checked(Member(unit, Units \cup {Misnamed}), Units)
Alone(unit) == [compute |-> Placed(unit)]
LoadOptions ==
  [compute |-> Required(Placed(AllUnits)), low_precision_gpu_accumulation |-> Member(0, Flag),
   specialization |-> Member(0, {0, 1})]
WhisperComputeOptions ==
  [mel |-> Placed(CpuAndGpu), encoder |-> Placed(CpuAndNeuralEngine), decoder |-> Placed(CpuAndNeuralEngine)]
KitOptions ==
  [model_folder |-> Required(Member(0, {0, 1})), tokenizer_folder |-> Required(Member(0, {0, 1})),
   compute |-> Member(0, {0, 1}), prewarm |-> Member(0, Flag), load |-> Member(1, Flag)]
AudioStreamOptions ==
  [required_segments_for_confirmation |-> Member(2, {0, 2}), silence_threshold |-> Member(3, {0, 3, NaN}),
   compression_check_window |-> Member(60, {0, 60}), use_vad |-> Member(1, Flag)]


VadModelOptions == Alone(AllUnits)
IdentifierOptions == Alone(AllUnits)
ClassifierOptions == Alone(AllUnits)
EmbedderOptions == Alone(CpuAndGpu)
EmbedModelOptions == Alone(AllUnits)
SegmentModelOptions == Alone(AllUnits)
TextEncoderOptions == Alone(CpuAndGpu)
AudioEncoderOptions == Alone(AllUnits)
FaceEmbedderOptions == Alone(AllUnits)
GraniteTextOptions == Alone(AllUnits)
SiglipTextOptions == Alone(CpuAndGpu)
ImageEmbedderOptions == Alone(CpuAndGpu)

-----------------------------------------------------------------------------
(* How a clip or a text is cut.                                            *)

\* Samples in thousands: the longest window of each plan, and past it.
Positive == {1, 160, 480}
PositiveUpTo(longest) == {n \in Positive : n <= longest}
Pad == -1  \* else the shortest tail that is kept
Tails == {Pad, 0, 1, 160, 480, 481}
Windows == [max_windows |-> Checked(Member(100000, {0, 1, 100000}), {1, 100000})]
CedWindowPlan ==
  Windows & [hop_samples |-> Checked(Member(160, {0, 1, 160, 161}), PositiveUpTo(160)),
              tail |-> Checked(Member(Pad, Tails), {Pad} \cup PositiveUpTo(160))]
ClapWindowPlan ==
  Windows & [hop_samples |-> Checked(Member(480, {0, 1, 480, 481}), PositiveUpTo(480)),
              tail |-> Checked(Member(Pad, Tails), {Pad} \cup PositiveUpTo(480))]
SlideBack == 0
\* The hop lies in the window: the two are set together.
LidWindowPlan ==
  Windows & [window_samples |-> Checked(Member(160, {0, 1, 160, 480, 481}), PositiveUpTo(480)),
              hop_samples |-> Checked(Member(160, {0, 1, 160, 480}), PositiveUpTo(480)),
              tail |-> Member(SlideBack, {SlideBack, 1, 2})]
\* The onset lies above silence and up to certainty.
SpeakerWindowOptions ==
  [step_samples |-> Checked(Member(16, {0, 1, 16, 160, 161}), {1, 16, 160}),
   onset |-> Checked(Member(50, {0, 50, 100, 101, NaN}), {50, 100})]
LongTextOptions ==
  [window_options |-> Member(0, {0, 1}),
   max_input_bytes |-> [Member(Unset, {Unset, 0, 8}) EXCEPT !.taken = {0, 8}]]

-----------------------------------------------------------------------------
(* Speakers and alignment.                                                 *)

SpeakerComputeOptions == [segmenter |-> Placed(AllUnits), embedder |-> Placed(AllUnits)]
SpeakerOptions == SpeakerWindowOptions & SpeakerComputeOptions & [source |-> Member(0, {0, 1})]
ArgmaxComputeOptions ==
  [segmenter |-> Placed(AllUnits), preprocessor |-> Placed(AllUnits), embedder |-> Placed(AllUnits)]
ArgmaxOptions == SpeakerWindowOptions & ArgmaxComputeOptions & [variant |-> Member(0, {0, 1})]
Overriding(values) == [Sparse(Member(Unset, {Unset} \cup values)) EXCEPT !.taken = values]
FluidAudioArtifactConfig ==
  [segmenter |-> Overriding({0, 1}), embedder |-> Overriding({0, 1}),
   segmenter_compute |-> Overriding(Units), embedder_compute |-> Overriding(Units)]

NotNegative(member) == CheckedBothWays(member, (member.offered \cap Nat) \ NonFinite)
OfflineOptions ==
  [threshold |-> FiniteFloat(Member(60, {-1, 60, NaN})), fa |-> FiniteFloat(Member(7, {7, Infinity})),
   fb |-> FiniteFloat(Member(80, {80, NaN})), max_iters |-> Member(20, {0, 20}),
   min_duration_off |-> NotNegative(Member(0, {-1, 0, 50, NaN, Infinity}))]
CosineDistance(member) == CheckedBothWays(member, {d \in member.offered : 0 <= d /\ d <= 200})
Distances == {-1, 0, 40, 45, 60, 65, 200, 201, NaN, Infinity}
OnlineOptions ==
  [speaker_threshold |-> CosineDistance(Member(65, Distances)),
   embedding_threshold |-> CosineDistance(Member(45, Distances)),
   min_speech_duration |-> NotNegative(Member(100, {-1, 0, 100, NaN, Infinity}))]

AlignerOptions ==
  [min_speech_coverage |-> Member(50, {0, 50, 200, NaN}), max_intra_silent_run |-> Member(2, {0, 2}),
   compute |-> Placed(CpuOnly)]
EmaRenormalizedOptions == [alpha |-> Required(Member(50, {0, 50, 200, NaN}))]

-----------------------------------------------------------------------------

Kinds ==
  [decoding |-> DecodingOptions, whisper_compute |-> WhisperComputeOptions, kit |-> KitOptions,
   audio_stream |-> AudioStreamOptions, load |-> LoadOptions, vad |-> VadModelOptions,
   identifier |-> IdentifierOptions, classifier |-> ClassifierOptions, embedder |-> EmbedderOptions,
   speaker_embed |-> EmbedModelOptions, speaker_segment |-> SegmentModelOptions,
   clap_text |-> TextEncoderOptions, clap_audio |-> AudioEncoderOptions, face |-> FaceEmbedderOptions,
   granite |-> GraniteTextOptions, siglip_text |-> SiglipTextOptions, siglip_image |-> ImageEmbedderOptions,
   ced_windows |-> CedWindowPlan, clap_windows |-> ClapWindowPlan, lid_windows |-> LidWindowPlan,
   long_text |-> LongTextOptions, speaker |-> SpeakerOptions, argmax |-> ArgmaxOptions,
   fluid_audio |-> FluidAudioArtifactConfig, offline |-> OfflineOptions, online |-> OnlineOptions,
   aligner |-> AlignerOptions, smoothing |-> EmaRenormalizedOptions]
\* Those that refuse a document with a member they do not have.
Strict == {"load", "ced_windows", "clap_windows", "lid_windows", "long_text", "fluid_audio"}

VARIABLES
  kind,      \* the options followed
  settings,  \* what they hold
  edits,     \* setters called
  page,      \* a document of them: who wrote it, its members, whether one is misspelt
  reread,    \* what reading it gave
  sends      \* what the last load asked the system, and sent it

settingsVars == <<kind, settings, edits, page, reread, sends>>
Options == Kinds[kind]
Members == DOMAIN Options

Together == IF kind = "lid_windows" THEN {"window_samples", "hop_samples"} ELSE {}
Fits(held) == kind = "lid_windows" => held.hop_samples <= held.window_samples

New == [m \in Members |-> Options[m].initially]
NoPage == [from |-> "nobody", members |-> <<>>, stray |-> FALSE]
Unread == [how |-> "unread", settings |-> <<>>]
NoSends == [how |-> "none", asked |-> <<>>, sent |-> {}, function |-> FALSE, answers |-> {}]

SettingsInit ==
  /\ kind \in DOMAIN Kinds
  /\ settings = New
  /\ edits = 0 /\ page = NoPage /\ reread = Unread /\ sends = NoSends

Set(m, value) ==
  /\ edits < MaxSettings /\ page = NoPage /\ sends = NoSends
  /\ m \notin Together
  /\ value \in Options[m].taken
  /\ settings' = [settings EXCEPT ![m] = value]
  /\ edits' = edits + 1
  /\ UNCHANGED <<kind, page, reread, sends>>

SetGeometry(window, hop) ==
  /\ kind = "lid_windows" /\ edits < MaxSettings /\ page = NoPage
  /\ window \in Options.window_samples.taken /\ hop \in Options.hop_samples.taken
  /\ LET changed == [settings EXCEPT !.window_samples = window, !.hop_samples = hop]
     IN Fits(changed) /\ settings' = changed
  /\ edits' = edits + 1
  /\ UNCHANGED <<kind, page, reread, sends>>

\* Two thresholds off one, a fifth above and a fifth below: each must lie in range.
FromClusteringThreshold(base) ==
  /\ kind = "online" /\ edits = 0 /\ page = NoPage
  /\ base \notin NonFinite
  /\ (base * 12) \div 10 \in 0 .. 200 /\ (base * 8) \div 10 \in 0 .. 200
  /\ settings' = [New EXCEPT !.speaker_threshold = (base * 12) \div 10,
                            !.embedding_threshold = (base * 8) \div 10]
  /\ edits' = 1
  /\ UNCHANGED <<kind, page, reread, sends>>

Stated == {m \in Members : settings[m] \notin Options[m].omitted}
Save ==
  /\ page = NoPage /\ sends = NoSends
  /\ page' = IF \A m \in Stated : settings[m] \in Options[m].written
             THEN [from |-> "own", members |-> [m \in Stated |-> InJson(settings[m])], stray |-> FALSE]
             ELSE [NoPage EXCEPT !.from = "refused"]
  /\ UNCHANGED <<kind, settings, edits, reread, sends>>

\* Written by hand: one member or two, and one that no options have.
Given ==
  /\ page = NoPage /\ sends = NoSends /\ edits = 0
  /\ \E a, b \in Members, stray \in BOOLEAN :
     \E x \in Options[a].offered \ NonFinite, y \in Options[b].offered \ NonFinite :
       page' = [from |-> "another", members |-> [m \in {a, b} |-> IF m = a THEN x ELSE y], stray |-> stray]
  /\ UNCHANGED <<kind, settings, edits, reread, sends>>

Read(members) ==
  [m \in Members |-> IF m \in DOMAIN members THEN members[m] ELSE CHOOSE v \in Options[m].absent : TRUE]
Readable ==
  /\ page.stray => kind \notin Strict
  /\ \A m \in Members :
       IF m \in DOMAIN page.members THEN page.members[m] \in Options[m].read ELSE Options[m].absent # {}
  /\ Fits(Read(page.members))
Reread ==
  /\ page.from \in {"own", "another"} /\ reread = Unread
  /\ reread' = IF Readable THEN [how |-> "read", settings |-> Read(page.members)]
               ELSE [Unread EXCEPT !.how = "refused"]
  /\ UNCHANGED <<kind, settings, edits, page, sends>>

-----------------------------------------------------------------------------
(* A load, on whatever system it finds: it asks whether the system answers *)
(* to a message before it plans to send it.                                *)

Messages ==
  {"setFunctionName", "setAllowLowPrecisionAccumulationOnGPU", "setOptimizationHints", "setSpecializationStrategy"}
\* In the order they are asked about.
Wanted(function) ==
  (IF function THEN <<"setFunctionName">> ELSE <<>>)
    \o (IF settings.low_precision_gpu_accumulation = 1 THEN <<"setAllowLowPrecisionAccumulationOnGPU">> ELSE <<>>)
    \o (IF settings.specialization = 1 THEN <<"setOptimizationHints", "setSpecializationStrategy">> ELSE <<>>)
Unanswered(wanted, answers) == {i \in DOMAIN wanted : wanted[i] \notin answers}
Configure(function, answers) ==
  /\ kind = "load" /\ page = NoPage /\ sends = NoSends
  /\ LET wanted == Wanted(function)
         unanswered == Unanswered(wanted, answers)
         first == CHOOSE i \in unanswered : \A j \in unanswered : i <= j
     IN sends' =
          IF unanswered = {}
          THEN [how |-> "sent", asked |-> wanted, sent |-> {wanted[i] : i \in DOMAIN wanted},
                function |-> function, answers |-> answers]
          ELSE [how |-> IF wanted[first] = "setFunctionName" THEN "FunctionsUnsupported" ELSE "OptionUnsupported",
                asked |-> SubSeq(wanted, 1, first), sent |-> {}, function |-> function, answers |-> answers]
  /\ UNCHANGED <<kind, settings, edits, page, reread>>

SettingsNext ==
  \/ \E m \in Members : \E value \in Options[m].offered : Set(m, value)
  \/ \E window \in {0, 1, 160, 480, 481}, hop \in {0, 1, 160, 480} : SetGeometry(window, hop)
  \/ \E base \in {-1, 0, 50, 200, NaN} : FromClusteringThreshold(base)
  \/ Save \/ Given \/ Reread
  \/ \E function \in BOOLEAN, answers \in SUBSET Messages : Configure(function, answers)

-----------------------------------------------------------------------------
(* Properties.                                                             *)

HoldsNonFinite == \E m \in Members : settings[m] \in NonFinite
\* Floats neither side of a document guards.
Unguarded == {"aligner", "audio_stream", "smoothing"}

\* What was saved reads back as what it was, or nothing does; only a number
\* no document can state is refused, and before it is written down.
ReadsBack ==
  /\ page.from = "own" /\ reread.how = "read" => reread.settings = settings
  /\ page.from = "own" /\ reread.how = "refused" => HoldsNonFinite /\ kind \in Unguarded
  /\ page.from = "refused" => HoldsNonFinite

\* Options read from anybody's document are such as the setters could have
\* made, and a misspelt member did not pass for one left out.
AsTheSettersTake ==
  reread.how = "read" =>
    /\ \A m \in Members : reread.settings[m] \in Options[m].taken \cup {Options[m].initially}
    /\ Fits(reread.settings)
    /\ page.stray => kind \notin Strict

\* A load sends what was asked for, all of it or nothing, and sends no
\* message the system does not answer to; what asks for nothing asks nothing.
SendsWhatItAsked ==
  LET chosen == settings.low_precision_gpu_accumulation + settings.specialization
      asked == {sends.asked[i] : i \in DOMAIN sends.asked}
  IN kind = "load" =>
       /\ sends.sent \subseteq asked \cap sends.answers
       /\ sends.how = "sent" =>
            /\ ("setSpecializationStrategy" \in sends.sent) = (settings.specialization = 1)
            /\ ("setAllowLowPrecisionAccumulationOnGPU" \in sends.sent) = (settings.low_precision_gpu_accumulation = 1)
       /\ "setSpecializationStrategy" \in asked => "setOptimizationHints" \in sends.answers
       /\ chosen = 0 /\ ~sends.function => sends.how \in {"none", "sent"} /\ asked = {}

\* Options say what they were set to wherever they are carried: the promise a
\* transcript's provenance rests on.
SettingsHold == ReadsBack /\ AsTheSettersTake /\ SendsWhatItAsked
=============================================================================
