------------------------------- MODULE Doors -------------------------------
(***************************************************************************)
(* The doors of the crate: each opens on one loaded model (whisper's on    *)
(* three), checks it against a contract, some numbers of which it reads    *)
(* off the model first, and from then on predicts with tensors it          *)
(* allocates from the numbers it read.                                     *)
(*                                                                         *)
(* A door reads a number before its check to state it of other features,   *)
(* so what it allocates later rests on clauses of several features of      *)
(* several models; the faces of one call are cut into the artifact's       *)
(* batches.                                                                *)
(***************************************************************************)
EXTENDS LoadContract, Selections, FiniteSetsExt

CONSTANTS
  MaxTokenContext,   \* steps the decode loop is written against
  Vocab,             \* ids of the tokenizer whisper is given
  Receptive, Stride, \* the aligner's acoustic geometry, in samples
  MaxLogProbWidth,   \* widest head whose normalization can be judged
  Width,             \* the face manifest's embedding width
  SpecialTokens,     \* tokens the given tokenizer adds to a text
  CallSizes,         \* door -> sizes of the calls made of it
  Loadable           \* door -> the models it may find: part -> description

DoorNames == {"whisper", "identity", "lid", "ced", "segment", "embed", "align", "clap_audio",
              "clap_text", "siglip_image", "siglip_text", "face"}
Parts(d) == IF d = "whisper" THEN <<"mel", "encoder", "decoder">> ELSE <<"model">>

\* An acoustic geometry has no zero, and what the framework reports of a
\* feature is a description of it.
ASSUME DoorsAssumption ==
  /\ Receptive \in Nat \ {0} /\ Stride \in Nat \ {0}
  /\ MaxTokenContext \in Nat /\ SpecialTokens \in Nat
  /\ DOMAIN Loadable \subseteq DoorNames
  /\ \A d \in DOMAIN Loadable :
       /\ CallSizes[d] \subseteq Nat
       /\ \A loaded \in Loadable[d] : \A i \in DOMAIN Parts(d) : Described(loaded[Parts(d)[i]])

VARIABLES
  door,    \* which door is opened
  models,  \* part -> description of the model loaded for it
  stage,   \* "opening", "refused", "open", "predicting"
  dims,    \* the numbers read so far: name -> number
  turn,    \* part that is checked or predicts next, or the chunk of faces
  call,    \* what was asked
  answer,  \* what the opening or the last call came to, and for what
  embeddings \* faces embedded so far, in order

doorVars == <<door, models, stage, dims, turn, call, answer, embeddings>>

Absent == -1
F(name, type, ds) == FeatureContract(name, type, ds)
E(n) == Exactly(n)

-----------------------------------------------------------------------------
(* The sizes a door is written for.                                        *)

IdentitySamples == 96000
IdentityMels == 72
IdentityFrames == 401
IdentityDim == 192
MinFrames == 10
MaxFrames == 3001
LidMels == 60
NumLanguages == 107
CedSamples == 160000
CedMels == 64
CedFrames == 1001
NumClasses == 527
SegmentSamples == 160000
PowersetClasses == 7
EmbedSlots == 3
SpeakerDim == 256
ClapSamples == 480000
ClapMels == 64
ClapFrames == 1001
ClapDim == 512
TextMaxTokens == 512
PatchDim == 768
SiglipDim == 768
FaceSide == 112

-----------------------------------------------------------------------------
(* Reading one axis of a declaration, checked or not.                      *)

AxisOf(features, name, axis) ==
  IF name \in DOMAIN features /\ axis \in DOMAIN features[name].shape
  THEN features[name].shape[axis] ELSE Absent
InputDim(description, name, axis) == AxisOf(description.inputs, name, axis)
OutputDim(description, name, axis) == AxisOf(description.outputs, name, axis)

\* The form of the face graph: with a batch axis or without, and whether its
\* rows come batched or flat.  No form fits any other rank.
InputForm(shape) ==
  CASE Len(shape) = 3 -> [axes |-> 0, batch |-> 1]
    [] Len(shape) = 4 /\ shape[1] > 0 -> [axes |-> 1, batch |-> shape[1]]
    [] OTHER -> [axes |-> 0, batch |-> Absent]
OutputForm(shape, batch) ==
  IF Len(shape) = 2 \/ (Len(shape) = 1 /\ batch = 1) THEN Len(shape) ELSE Absent

\* The numbers read before the check, because the contract states them.
EarlyRead(part, description) ==
  CASE part = "decoder" ->
         [heads |-> IF OutputDim(description, "alignment", 1) = Absent THEN 0 ELSE 1,
          K |-> InputDim(description, "key_cache", 2), C |-> InputDim(description, "key_cache", 4)]
    [] door = "siglip_image" ->
         [P |-> IF /\ "pixel_values" \in DOMAIN description.inputs
                   /\ Len(description.inputs["pixel_values"].shape) = 3
                   /\ description.inputs["pixel_values"].shape[2] > 0
                THEN InputDim(description, "pixel_values", 2) ELSE Absent]
    [] door = "face" ->
         LET form == IF "face" \in DOMAIN description.inputs
                     THEN InputForm(description.inputs["face"].shape)
                     ELSE InputForm(<<>>)
             out == IF "features" \in DOMAIN description.outputs /\ form.batch # Absent
                    THEN OutputForm(description.outputs["features"].shape, form.batch)
                    ELSE Absent
         IN [axes |-> form.axes, batch |-> form.batch, rows |-> out]
    [] OTHER -> <<>>

\* The numbers read once the check has passed.
ReadBack(part, description) ==
  CASE part = "mel" ->
         [S |-> InputDim(description, "audio", 1), M |-> OutputDim(description, "mel", 2),
          T |-> OutputDim(description, "mel", 4)]
    [] part = "encoder" ->
         [E |-> OutputDim(description, "embeds", 2), A |-> OutputDim(description, "embeds", 4)]
    [] door = "segment" -> [frames |-> OutputDim(description, "segments", 2)]
    [] door = "embed" -> [frames |-> InputDim(description, "mask", 2)]
    [] door = "siglip_text" -> [tokens |-> InputDim(description, "input_ids", 2)]
    [] door = "align" ->
         [window |-> InputDim(description, "waveform", 2),
          frames |-> OutputDim(description, "emissions", 2),
          width |-> OutputDim(description, "emissions", 3)]
    [] OTHER -> <<>>

-----------------------------------------------------------------------------
(* The contracts, over the numbers read so far.                            *)

MelContract == Contract(
  <<F("audio", "f16", <<AnyFixed>>)>>,
  <<F("mel", "f16", <<E(1), AnyFixed, E(1), AnyFixed>>)>>)

EncoderContract(d) == Contract(
  <<F("mel", "f16", <<E(1), E(d["M"]), E(1), E(d["T"])>>)>>,
  <<F("embeds", "f16", <<E(1), AnyFixed, E(1), AnyFixed>>)>>)

DecoderContractOfAnyContext(d) == Contract(   \* slip: the context is read, not asked for
  << F("input_ids", "i32", <<E(1)>>),
     F("cache_length", "i32", <<E(1)>>),
     F("key_cache", "f16", <<E(1), AnyFixed, E(1), AnyFixed>>),
     F("value_cache", "f16", <<E(1), E(d["K"]), E(1), E(d["C"])>>),
     F("update_mask", "f16", <<E(1), E(d["C"])>>),
     F("embeds", "f16", <<E(1), E(d["E"]), E(1), E(d["A"])>>),
     F("padding_mask", "f16", <<E(1), E(d["C"])>>) >>,
  << F("logits", "f16", <<E(1), E(1), E(Vocab)>>),
     F("key_updates", "f16", <<E(1), E(d["K"]), E(1), E(1)>>),
     F("value_updates", "f16", <<E(1), E(d["K"]), E(1), E(1)>>) >>
  \o IF d["heads"] = 1 THEN <<F("alignment", "f16", <<E(1), E(d["A"])>>)>> ELSE <<>>)

DecoderContract(d) == Contract(
  << F("input_ids", "i32", <<E(1)>>),
     F("cache_length", "i32", <<E(1)>>),
     F("key_cache", "f16", <<E(1), AnyFixed, E(1), AtLeast(MaxTokenContext)>>),
     F("value_cache", "f16", <<E(1), E(d["K"]), E(1), E(d["C"])>>),
     F("update_mask", "f16", <<E(1), E(d["C"])>>),
     F("embeds", "f16", <<E(1), E(d["E"]), E(1), E(d["A"])>>),
     F("padding_mask", "f16", <<E(1), E(d["C"])>>) >>,
  << F("logits", "f16", <<E(1), E(1), E(Vocab)>>),
     F("key_updates", "f16", <<E(1), E(d["K"]), E(1), E(1)>>),
     F("value_updates", "f16", <<E(1), E(d["K"]), E(1), E(1)>>) >>
  \o IF d["heads"] = 1 THEN <<F("alignment", "f16", <<E(1), E(d["A"])>>)>> ELSE <<>>)

IdentityContract == Contract(
  <<F("mel", "f32", <<E(1), E(IdentityMels), E(IdentityFrames)>>)>>,
  <<F("embedding", "f32", <<E(1), E(IdentityDim)>>)>>)

LidContract == Contract(
  <<F("mel_features", "f32", <<E(1), RangeDim(MinFrames, MaxFrames), E(LidMels)>>)>>,
  <<F("log_probabilities", "f32", <<E(1), E(NumLanguages)>>)>>)

CedContract == Contract(
  <<F("mel", "f32", <<E(1), E(CedMels), E(CedFrames)>>)>>,
  <<F("logits", "f32", <<E(1), E(NumClasses)>>)>>)

SegmentContract == Contract(
  <<F("audio", "f32", <<E(1), E(1), E(SegmentSamples)>>)>>,
  <<F("segments", "f32", <<E(1), AnyFixed, E(PowersetClasses)>>)>>)

EmbedContract == Contract(
  <<F("waveform", "f32", <<E(EmbedSlots), E(SegmentSamples)>>),
    F("mask", "f32", <<E(EmbedSlots), AnyFixed>>)>>,
  <<F("embedding", "f32", <<E(EmbedSlots), E(SpeakerDim)>>)>>)

AlignContract == Contract(
  <<F("waveform", "f32", <<E(1), AtLeast(Receptive)>>)>>,
  <<F("emissions", "f32", <<E(1), AnyFixed, AnyFixed>>)>>)

ClapAudioContract == Contract(
  <<F("input_features", "f32", <<E(1), E(1), E(ClapFrames), E(ClapMels)>>)>>,
  <<F("audio_embeds", "f32", <<E(1), E(ClapDim)>>)>>)

ClapTextContract == Contract(
  <<F("input_ids", "i32", <<E(1), E(TextMaxTokens)>>),
    F("attention_mask", "i32", <<E(1), E(TextMaxTokens)>>)>>,
  <<F("text_embeds", "f32", <<E(1), E(ClapDim)>>)>>)

SiglipImageContract(d) == Contract(
  <<F("pixel_values", "f32", <<E(1), AnyFixed, E(PatchDim)>>),
    F("position_embeddings", "f32", <<E(1), E(d["P"]), E(PatchDim)>>),
    F("attention_mask", "f32", <<E(1), E(d["P"])>>)>>,
  <<F("image_features", "f32", <<E(1), E(SiglipDim)>>)>>)

SiglipTextContract == Contract(
  <<F("input_ids", "i32", <<E(1), AnyFixed>>)>>, <<F("text_features", "f32", <<E(1), E(SiglipDim)>>)>>)

FaceContract(d) == Contract(
  <<F("face", "f32",
      (IF d["axes"] = 1 THEN <<AnyFixed>> ELSE <<>>) \o <<E(3), E(FaceSide), E(FaceSide)>>)>>,
  <<F("features", "f32",
      IF d["rows"] = 1 THEN <<E(Width)>> ELSE <<E(d["batch"]), E(Width)>>)>>)

ContractOf(part, d) ==
  CASE part = "mel" -> MelContract
    [] part = "encoder" -> EncoderContract(d)
    [] part = "decoder" -> DecoderContract(d)
    [] door = "identity" -> IdentityContract [] door = "lid" -> LidContract
    [] door = "ced" -> CedContract [] door = "segment" -> SegmentContract
    [] door = "embed" -> EmbedContract [] door = "align" -> AlignContract
    [] door = "clap_audio" -> ClapAudioContract [] door = "clap_text" -> ClapTextContract
    [] door = "siglip_image" -> SiglipImageContract(d)
    [] door = "siglip_text" -> SiglipTextContract
    [] door = "face" -> FaceContract(d)

-----------------------------------------------------------------------------
(* Opening.                                                                *)

\* Frames of so many samples: those whose receptive field lies within them.
Frames(samples) == IF samples < Receptive THEN 0 ELSE (samples - Receptive) \div Stride + 1

\* What a door checks of its own beside the contract, before and after it.
Beforehand ==
  CASE door = "clap_text" -> IF SpecialTokens >= TextMaxTokens THEN "SpecialTokenOverhead" ELSE "ok"
    [] door = "face" -> IF Width = 0 THEN "ZeroEmbeddingWidth" ELSE "ok"
    [] OTHER -> "ok"
Afterwards(d) ==
  CASE door = "align" ->
         IF Frames(d["window"]) # d["frames"] THEN "FrameCountMismatch"
         ELSE IF d["width"] > MaxLogProbWidth THEN "UnprovableNormalization" ELSE "ok"
    [] door = "siglip_text" ->
         IF SpecialTokens >= d["tokens"] THEN "SpecialTokenOverhead" ELSE "ok"
    [] OTHER -> "ok"

Plain(what) == [what |-> what, at |-> 0]
Refuse(why) ==
  /\ stage' = "refused" /\ answer' = Plain(why)
  /\ UNCHANGED <<door, models, dims, turn, call, embeddings>>

\* Check the next part, read its numbers, and open once every part is in.
OpenPart ==
  /\ stage = "opening"
  /\ LET part == Parts(door)[turn]
         model == models[part]
         early == EarlyRead(part, model)
         d == early ++ dims
         verdict == CheckLoadContract(model, ContractOf(part, d))
         all == ReadBack(part, model) ++ d
     IN IF Beforehand # "ok" THEN Refuse(Beforehand)
        ELSE IF \E n \in DOMAIN early : early[n] = Absent THEN Refuse("MissingFeature")
        ELSE IF verdict # "ok" THEN Refuse(Rendered(verdict))
        ELSE IF Afterwards(all) # "ok" THEN Refuse(Afterwards(all))
        ELSE /\ dims' = all
             /\ IF turn = Len(Parts(door)) THEN stage' = "open" /\ turn' = 0
                ELSE stage' = stage /\ turn' = turn + 1
             /\ UNCHANGED <<door, models, call, answer, embeddings>>

-----------------------------------------------------------------------------
(* Calling.  A call has a size, in samples, frames, tokens, patches or     *)
(* faces as its door counts, and may hold a value that is not finite.      *)

\* The aligner is handed its real samples padded to the receptive field; a
\* face is bad when its row of the output cannot be normalised.
Calls ==
  [size : CallSizes[door], clean : BOOLEAN, real : {0}, bad : {{}}]
  \cup IF door = "align"
       THEN {[size |-> Max({n, Receptive}), clean |-> TRUE, real |-> n, bad |-> {}] :
               n \in CallSizes[door]}
       ELSE IF door = "face"
       THEN UNION {[size : {n}, clean : {TRUE}, real : {0}, bad : SUBSET (1 .. n)] :
                     n \in CallSizes[door]}
       ELSE {}

Tensor(type, shape) == [type |-> type, shape |-> shape]

\* A door's own look at what it is given: how much of it, then its values.
AudioInput(n) == IF n = dims["S"] THEN "ok" ELSE "AudioLength"
IdentityWindow(n) == IF n = IdentitySamples THEN "ok" ELSE "WindowLength"
SegmentWindow(n) == IF n = SegmentSamples THEN "ok" ELSE "InputLength"
FrameRange(n) == IF n \in MinFrames .. MaxFrames THEN "ok" ELSE "FrameCountOutOfRange"
CedWindow(n) == IF n = 0 THEN "EmptyAudio" ELSE IF n > CedSamples THEN "AudioTooLong" ELSE "ok"
ClapWindow(n) == IF n = 0 THEN "EmptyAudio" ELSE IF n > ClapSamples THEN "AudioTooLong" ELSE "ok"
AlignWindow(n) == IF n > dims["window"] THEN "InputTooLong" ELSE "ok"
PatchBudget(n) == IF n = dims["P"] THEN "ok" ELSE "PatchBudgetMismatch"
SizeHolds(c) ==
  CASE door = "whisper" -> AudioInput(c.size)
    [] door = "identity" -> IdentityWindow(c.size)
    [] door = "segment" -> SegmentWindow(c.size)
    [] door = "lid" -> FrameRange(c.size)
    [] door = "ced" -> CedWindow(c.size)
    [] door = "clap_audio" -> ClapWindow(c.size)
    [] door = "align" -> AlignWindow(c.size)
    [] door = "siglip_image" -> PatchBudget(c.size)
    [] door \in {"siglip_text", "clap_text"} -> IF c.size = 0 THEN "EmptyText" ELSE "ok"
    [] OTHER -> "ok"
Accepts(c) == IF SizeHolds(c) = "ok" /\ ~c.clean THEN "NonFiniteInput" ELSE SizeHolds(c)

\* The faces of a call and those of one chunk, by their place in the call.
Faces == [i \in 1 .. call.size |-> i]
Chunk(k) == {i \in 1 .. call.size : i > (k - 1) * dims["batch"] /\ i <= k * dims["batch"]}
Turns == CASE door = "whisper" -> 3
           [] door = "face" -> (call.size + dims["batch"] - 1) \div dims["batch"]
           [] OTHER -> 1

\* Tokens of a text, truncated to leave room for the special ones beside it.
TokensIn(window) == Min({call.size, window - SpecialTokens}) + SpecialTokens

\* What is sent for a turn, and what is read of it and as what.
WhisperSent ==
  CASE turn = 1 -> [audio |-> Tensor("f32", <<call.size>>)]
    [] turn = 2 -> [mel |-> Tensor("f16", <<1, dims["M"], 1, dims["T"]>>)]
    [] turn = 3 ->
         [input_ids |-> Tensor("i32", <<1>>), cache_length |-> Tensor("i32", <<1>>),
          key_cache |-> Tensor("f16", <<1, dims["K"], 1, dims["C"]>>),
          value_cache |-> Tensor("f16", <<1, dims["K"], 1, dims["C"]>>),
          update_mask |-> Tensor("f16", <<1, dims["C"]>>),
          embeds |-> Tensor("f16", <<1, dims["E"], 1, dims["A"]>>),
          padding_mask |-> Tensor("f16", <<1, dims["C"]>>)]
WhisperWanted ==
  CASE turn = 1 -> [mel |-> Tensor("f16", <<1, dims["M"], 1, dims["T"]>>)]
    [] turn = 2 -> [embeds |-> Tensor("f16", <<1, dims["E"], 1, dims["A"]>>)]
    [] turn = 3 ->
         [logits |-> Tensor("f16", <<1, 1, Vocab>>),
          key_updates |-> Tensor("f16", <<1, dims["K"], 1, 1>>),
          value_updates |-> Tensor("f16", <<1, dims["K"], 1, 1>>)]
         ++ IF dims["heads"] = 1 THEN [alignment |-> Tensor("f16", <<1, dims["A"]>>)] ELSE <<>>

EmbedSent == [waveform |-> Tensor("f32", <<EmbedSlots, SegmentSamples>>),
              mask |-> Tensor("f32", <<EmbedSlots, dims["frames"]>>)]
PatchesSent == [pixel_values |-> Tensor("f32", <<1, call.size, PatchDim>>),
                position_embeddings |-> Tensor("f32", <<1, call.size, PatchDim>>),
                attention_mask |-> Tensor("f32", <<1, call.size>>)]
FacesSent == [face |-> Tensor("f32", (IF dims["axes"] = 1 THEN <<dims["batch"]>> ELSE <<>>)
                                     \o <<3, FaceSide, FaceSide>>)]
FacesWanted == [features |-> Tensor("f32",
                 IF dims["rows"] = 1 THEN <<Width>> ELSE <<dims["batch"], Width>>)]
ClapTextSent == [input_ids |-> Tensor("i32", <<1, TextMaxTokens>>),
                 attention_mask |-> Tensor("i32", <<1, TextMaxTokens>>)]

\* The tensors of the doors whose calls do not say their size.
ModelSent ==
  CASE door = "identity" -> [mel |-> Tensor("f32", <<1, IdentityMels, IdentityFrames>>)]
    [] door = "ced" -> [mel |-> Tensor("f32", <<1, CedMels, CedFrames>>)]
    [] door = "segment" -> [audio |-> Tensor("f32", <<1, 1, SegmentSamples>>)]
    [] door = "embed" -> EmbedSent
    [] door = "align" -> [waveform |-> Tensor("f32", <<1, dims["window"]>>)]
    [] door = "clap_audio" -> [input_features |-> Tensor("f32", <<1, 1, ClapFrames, ClapMels>>)]
    [] door = "clap_text" -> ClapTextSent
    [] door = "siglip_text" -> [input_ids |-> Tensor("i32", <<1, dims["tokens"]>>)]
    [] door = "face" -> FacesSent
Sent ==
  CASE door = "whisper" -> WhisperSent
    [] door = "lid" -> [mel_features |-> Tensor("f32", <<1, call.size, LidMels>>)]
    [] door = "siglip_image" -> PatchesSent
    [] OTHER -> ModelSent

ModelRead ==
  CASE door = "identity" -> [embedding |-> Tensor("f32", <<1, IdentityDim>>)]
    [] door = "lid" -> [log_probabilities |-> Tensor("f32", <<1, NumLanguages>>)]
    [] door = "ced" -> [logits |-> Tensor("f32", <<1, NumClasses>>)]
    [] door = "segment" -> [segments |-> Tensor("f32", <<1, dims["frames"], PowersetClasses>>)]
    [] door = "embed" -> [embedding |-> Tensor("f32", <<EmbedSlots, SpeakerDim>>)]
    [] door = "align" -> [emissions |-> Tensor("f32", <<1, dims["frames"], dims["width"]>>)]
    [] door = "clap_audio" -> [audio_embeds |-> Tensor("f32", <<1, ClapDim>>)]
    [] door = "clap_text" -> [text_embeds |-> Tensor("f32", <<1, ClapDim>>)]
    [] door = "siglip_image" -> [image_features |-> Tensor("f32", <<1, SiglipDim>>)]
    [] door = "siglip_text" -> [text_features |-> Tensor("f32", <<1, SiglipDim>>)]
    [] door = "face" -> FacesWanted
Expected == IF door = "whisper" THEN WhisperWanted ELSE ModelRead

\* The decode loop feeds the positions below MaxTokenContext - 1 and writes a
\* slot of the caches at each, and of both masks one further if there is one.
LoopsFit ==
  CASE door = "whisper" -> MaxTokenContext - 2 < dims["C"]
    [] door = "siglip_text" -> TokensIn(dims["tokens"]) \in SpecialTokens + 1 .. dims["tokens"]
    [] OTHER -> TRUE

Ask ==
  /\ stage = "open"
  /\ \E c \in Calls :
       /\ call' = c
       /\ embeddings' = <<>>
       /\ answer' = Plain(IF Accepts(c) = "ok" THEN "none" ELSE Accepts(c))
       /\ stage' = IF Accepts(c) = "ok" THEN "predicting" ELSE "open"
       /\ turn' = IF Accepts(c) = "ok" THEN 1 ELSE 0
  /\ UNCHANGED <<door, models, dims>>

\* The faces of a chunk, up to the first that cannot be normalised.
Normalised(k) ==
  LET bad == Chunk(k) \cap call.bad
  IN IF bad = {} THEN Chunk(k) ELSE {i \in Chunk(k) : \A b \in bad : i < b}

\* The place, among the faces of the call, of the one whose row failed.
FailedInItsChunk(embedded) == Cardinality(embedded) + 1   \* slip: counted from the chunk
FailedAt(embedded) == (turn - 1) * dims["batch"] + Cardinality(embedded) + 1

\* One prediction of a call, with any outcome the graph may have.
Predict ==
  /\ stage = "predicting" /\ turn <= Turns
  /\ \E outcome \in Outcomes(models[Parts(door)[Min({turn, Len(Parts(door))})]], Sent, Expected) :
       LET embedded == IF door = "face" /\ outcome = "ok" THEN Normalised(turn) ELSE {}
           spoilt == door = "face" /\ outcome = "ok" /\ embedded # Chunk(turn)
       IN /\ embeddings' = embeddings \o At(Faces, embedded)
          /\ IF outcome # "ok" \/ spoilt \/ ~LoopsFit
             THEN /\ answer' = IF outcome # "ok" THEN Plain(outcome)
                               ELSE IF spoilt
                               THEN [what |-> "NonFiniteOutput", at |-> FailedAt(embedded)]
                               ELSE Plain("IndexOutOfBounds")
                  /\ stage' = "open" /\ turn' = 0
             ELSE /\ turn' = turn + 1 /\ UNCHANGED <<answer, stage>>
  /\ UNCHANGED <<door, models, dims, call>>

\* Frames the aligner keeps of a padded window: those of the real samples, one
\* at least unless there are none, and no more than it was given.
KeptFrames ==
  IF call.real = 0 THEN 0 ELSE Min({Frames(Max({call.real, Receptive})), dims["frames"]})

Answer ==
  /\ stage = "predicting" /\ turn > Turns
  /\ answer' = [what |-> "ok", at |-> IF door = "align" THEN KeptFrames ELSE 0]
  /\ stage' = "open" /\ turn' = 0
  /\ UNCHANGED <<door, models, dims, call, embeddings>>

-----------------------------------------------------------------------------
\* A door and the description of each of its parts.
Loaded(d, m) ==
  /\ door = d /\ models = m
  /\ stage = "opening" /\ turn = 1 /\ dims = <<>>
  /\ call = [size |-> 0, clean |-> TRUE, real |-> 0, bad |-> {}]
  /\ answer = Plain("none") /\ embeddings = <<>>

DoorInit == \E d \in DOMAIN Loadable : \E loaded \in Loadable[d] : Loaded(d, loaded)
DoorNext == OpenPart \/ Ask \/ Predict \/ Answer
DoorSpec == DoorInit /\ [][DoorNext]_doorVars

-----------------------------------------------------------------------------
(* Properties.                                                             *)

Broken == {"Native", "MissingOutput", "NotMultiArray", "OutputShape", "IndexOutOfBounds"}

\* A door that opened never fails for the shape of its model: every tensor it
\* builds from the numbers it read is one the graph takes, every output it
\* reads is there as it reads it, and the loops written against a constant fit
\* in what the model declares (CoreMlBackend::new, and each door's load).
OpenDoorsAnswer == answer.what \notin Broken

\* The faces of a call come back in their order, one row each, however the
\* artifact's batch cuts them, and an error names the caller's own face
\* (FaceEmbedder::embed, predict_chunk).
FacesKeepTheirRows ==
  door = "face" /\ stage # "opening" =>
    /\ \A i \in DOMAIN embeddings : embeddings[i] = i
    /\ answer.what = "ok" => Len(embeddings) = call.size
    /\ answer.what = "NonFiniteOutput" =>
         answer.at \in call.bad /\ call.bad \cap 1 .. answer.at - 1 = {}

\* The aligner keeps the frames of the real samples: every one that hears
\* nothing but audio, and none that hears the padding, save the one frame of
\* an audio shorter than a frame (Encoder::emissions_raw, truncated_frame_count).
KeptFramesAreReal ==
  LET heardTo(frame) == (frame - 1) * Stride + Receptive
  IN door = "align" /\ answer.what = "ok" =>
       /\ (answer.at = 0) = (call.real = 0)
       /\ answer.at > 1 => heardTo(answer.at) <= call.real
       /\ call.real > 0 => heardTo(answer.at + 1) > call.real

\* What is cut to a model's batch or padded to its window comes back as what
\* the caller gave: faces in their places, frames of real samples.
FacesAndFramesHold == FacesKeepTheirRows /\ KeptFramesAreReal
=============================================================================
