------------------------------ MODULE MCInputs ------------------------------
(***************************************************************************)
(* The doors of the crate, and what is cut up before it reaches them: clips *)
(* longer than a model's window, folded again into one row, and texts       *)
(* longer than an embedder's, by an index of their tokens.                  *)
(***************************************************************************)
EXTENDS Doors, LongClips, LongText, TokenIndex

-----------------------------------------------------------------------------
(* Every door over models that fit it and models that deviate from one in  *)
(* a feature, a number, an input nobody names or a state.                  *)

Sizes == [whisper |-> {1, 2}, identity |-> {95999, 96000}, lid |-> {9, 10, 3001, 3002},
          ced |-> {0, 1, 160001}, segment |-> {159999, 160000}, embed |-> {0, 5},
          align |-> 0 .. 8, clap_audio |-> {0, 7, 480001}, clap_text |-> {0, 3, 600},
          siglip_image |-> {1, 2}, siglip_text |-> {0, 1, 9}, face |-> 0 .. 5]

-----------------------------------------------------------------------------
Fixed(type, shape) == FeatureInfo(type, shape, FALSE, "enumerated", <<shape>>, Pinned(shape))
Model(inputs, outputs) == [inputs |-> inputs, outputs |-> outputs, states |-> {}]
f16(shape) == Fixed("f16", shape)
f32(shape) == Fixed("f32", shape)
i32(shape) == Fixed("i32", shape)

\* The numbers of a whisper triple: each part states those it shares with the
\* part before, as M1, E1 and so on.
Numbers == {"S", "M", "M1", "T", "T1", "E", "E1", "A", "A1", "K", "K1", "C", "C1", "V"}
Agreeing == [n \in Numbers |-> IF n \in {"C", "C1"} THEN 3 ELSE IF n = "V" THEN Vocab ELSE 2]
Agree(n) == /\ n["M"] = n["M1"] /\ n["T"] = n["T1"] /\ n["E"] = n["E1"] /\ n["A"] = n["A1"]
            /\ n["K"] = n["K1"] /\ n["C"] = n["C1"] /\ n["C"] >= MaxTokenContext
            /\ n["V"] = Vocab /\ \A m \in Numbers : n[m] > 0
Variants == {[Agreeing EXCEPT ![m] = a, ![n] = b] : m \in Numbers, n \in Numbers, a \in 0 .. 4, b \in 0 .. 4}
Triple(n, aligned) ==
  [mel |-> Model([audio |-> f16(<<n["S"]>>)], [mel |-> f16(<<1, n["M"], 1, n["T"]>>)]),
   encoder |-> Model([mel |-> f16(<<1, n["M1"], 1, n["T1"]>>)],
                    [embeds |-> f16(<<1, n["E"], 1, n["A"]>>)]),
   decoder |-> Model(
       [input_ids |-> i32(<<1>>), cache_length |-> i32(<<1>>),
        key_cache |-> f16(<<1, n["K"], 1, n["C"]>>), value_cache |-> f16(<<1, n["K1"], 1, n["C1"]>>),
        update_mask |-> f16(<<1, n["C1"]>>), embeds |-> f16(<<1, n["E1"], 1, n["A1"]>>),
        padding_mask |-> f16(<<1, n["C"]>>)],
       [logits |-> f16(<<1, 1, n["V"]>>), key_updates |-> f16(<<1, n["K"], 1, 1>>),
        value_updates |-> f16(<<1, n["K1"], 1, 1>>)]
       ++ IF aligned THEN [alignment |-> f16(<<1, n["A1"]>>)] ELSE <<>>)]

One(inputs, outputs) == {[model |-> Model(inputs, outputs)]}
Lid(lo, hi) == FeatureInfo("f32", <<1, 500, 60>>, FALSE, "range", <<>>,
                           <<AxisRange(1, 1), AxisRange(lo, hi - lo + 1), AxisRange(60, 1)>>)
Face(n, form) == (IF form = "batched" THEN <<n>> ELSE <<>>) \o <<3, 112, 112>>

\* Models that fit, one or more per door.
Fitting(d) ==
  CASE d = "whisper" -> {Triple(n, a) : n \in {m \in Variants : Agree(m)}, a \in BOOLEAN}
    [] d = "identity" -> One([mel |-> f32(<<1, 72, 401>>)], [embedding |-> f32(<<1, 192>>)])
    [] d = "lid" -> One([mel_features |-> Lid(10, 3001)], [log_probabilities |-> f32(<<1, 107>>)])
    [] d = "ced" -> One([mel |-> f32(<<1, 64, 1001>>)], [logits |-> f32(<<1, 527>>)])
    [] d = "segment" -> One([audio |-> f32(<<1, 1, 160000>>)], [segments |-> f32(<<1, 9, 7>>)])
    [] d = "embed" -> One([waveform |-> f32(<<3, 160000>>), mask |-> f32(<<3, 9>>)],
                          [embedding |-> f32(<<3, 256>>)])
    [] d = "align" -> UNION {One([waveform |-> f32(<<1, w>>)], [emissions |-> f32(<<1, Frames(w), v>>)]) :
                               w \in Receptive .. 8, v \in 1 .. MaxLogProbWidth}
    [] d = "clap_audio" -> One([input_features |-> f32(<<1, 1, 1001, 64>>)], [audio_embeds |-> f32(<<1, 512>>)])
    [] d = "clap_text" -> One([input_ids |-> i32(<<1, 512>>), attention_mask |-> i32(<<1, 512>>)],
                              [text_embeds |-> f32(<<1, 512>>)])
    [] d = "siglip_image" -> UNION {One(
          [pixel_values |-> f32(<<1, p, 768>>), position_embeddings |-> f32(<<1, p, 768>>),
           attention_mask |-> f32(<<1, p>>)], [image_features |-> f32(<<1, 768>>)]) : p \in 1 .. 3}
    [] d = "siglip_text" -> UNION {One([input_ids |-> i32(<<1, t>>)], [text_features |-> f32(<<1, 768>>)]) :
                                     t \in SpecialTokens + 1 .. SpecialTokens + 3}
    [] d = "face" ->
         UNION {One([face |-> f32(Face(n, "batched"))], [features |-> f32(<<n, Width>>)]) : n \in 1 .. 3}
         \cup One([face |-> f32(Face(1, "flat"))], [features |-> f32(<<Width>>)])
         \cup One([face |-> f32(Face(1, "flat"))], [features |-> f32(<<1, Width>>)])

-----------------------------------------------------------------------------
(* Deviations.                                                             *)

\* Another declaration of one feature.
Others(info) ==
  LET s == info.shape
      sized(a, n) == [s EXCEPT ![a] = n]
  IN {[info EXCEPT !.type = t] : t \in {"f16", "f32", "i32"}}
     \cup {FeatureInfo("none", <<>>, info.optional, "none", <<>>, <<>>)}
     \cup {Fixed(info.type, sized(a, n)) : a \in DOMAIN s, n \in {0, 1, 4}}
     \cup {Fixed(info.type, Append(s, 1)), Fixed(info.type, Tail(s))}
     \cup {FeatureInfo(info.type, s, FALSE, code, <<s>>, Pinned(s)) : code \in {"range", "unspecified"}}
     \cup {FeatureInfo(info.type, s, FALSE, "enumerated", shapes, Pinned(s)) :
             shapes \in {<<>>, <<s, sized(1, 9)>>, <<sized(1, 9)>>}}
     \cup {FeatureInfo(info.type, s, FALSE, "range", <<>>, [Pinned(s) EXCEPT ![a] = AxisRange(1, 9)]) :
             a \in DOMAIN s}
     \cup IF info.verdict = "range" THEN {Lid(10, 3000), Lid(9, 3001), Lid(10, 3002)} ELSE {}

\* What leaves a model fit: an optional input, named or not, and an output of
\* any kind that nobody reads.
Harmless(m) ==
  {m} \cup {[m EXCEPT !.inputs[n].optional = TRUE] : n \in DOMAIN m.inputs}
      \cup {[m EXCEPT !.inputs = @ ++ [extra |-> [f32(<<1>>) EXCEPT !.optional = TRUE]]],
            [m EXCEPT !.outputs = @ ++ [extra |-> FeatureInfo("none", <<>>, FALSE, "none", <<>>, <<>>)]]}

Deviating(m) ==
  UNION {{[m EXCEPT !.inputs[n] = o] : o \in Others(m.inputs[n])} : n \in DOMAIN m.inputs}
  \cup UNION {{[m EXCEPT !.outputs[n] = o] : o \in Others(m.outputs[n])} : n \in DOMAIN m.outputs}
  \cup {[m EXCEPT !.inputs = [k \in DOMAIN @ \ {n} |-> @[k]]] : n \in DOMAIN m.inputs}
  \cup {[m EXCEPT !.outputs = [k \in DOMAIN @ \ {n} |-> @[k]]] : n \in DOMAIN m.outputs}
  \cup {[m EXCEPT !.outputs[n].optional = TRUE] : n \in DOMAIN m.outputs}
  \cup {[m EXCEPT !.inputs = @ ++ [extra |-> f32(<<1>>)]], [m EXCEPT !.states = {"memory"}]}

Kept(d) == UNION {UNION {{[ms EXCEPT ![p] = h] : h \in Harmless(ms[p])} : p \in DOMAIN ms} : ms \in Fitting(d)}
Base(d) == IF d = "whisper" THEN {Triple(Agreeing, TRUE), Triple(Agreeing, FALSE)} ELSE Fitting(d)
Spoilt(d) ==
  UNION {UNION {{[ms EXCEPT ![p] = v] : v \in Deviating(ms[p])} : p \in DOMAIN ms} : ms \in Base(d)}
  \cup IF d = "whisper" THEN {Triple(n, a) : n \in Variants, a \in BOOLEAN} ELSE {}

FittingModels == [d \in DOMAIN Sizes |-> Kept(d)]
AnyModels == [d \in DOMAIN Sizes |-> Kept(d) \cup Spoilt(d)]

\* A contract asks for what its door needs and nothing else: a model that
\* agrees with its other parts opens whatever it chose where it may choose - a
\* longer context, another batch, no alignment head, an input it may go
\* without, an output nobody reads (FeatureContract, Dim::AtLeast).
FittingModelsOpen == stage = "refused" => models \notin FittingModels[door]
-----------------------------------------------------------------------------
(* Small texts, and small merge tables in every order of their ranks.      *)

Classes == {"A", "a", "s", "o", "m", "9", " ", "t", "n", "/", "'", ".", "0", "<"}
Texts(cs, n) == [1 .. n -> cs]
Singles == {<<c>> : c \in Classes}
Products(m) == {m[i][1] \o m[i][2] : i \in DOMAIN m}
\* Pairs whose count tells a pre-token from its halves.
Pair(l, r) == <<<<l>>, <<r>>>>
Pairs == << Pair(" ", " "), Pair("9", "9"), Pair("'", "s"), Pair("a", "'"), Pair(" ", "a"), Pair(" ", "n"),
            Pair("n", "n"), Pair("'", "a"), Pair("/", "n"), Pair("s", "a"), Pair("a", "a") >>

\* Tables each of whose entries joins characters or what the table makes.
Entries(cs, n) ==
  LET toks == UNION {[1 .. k -> cs] : k \in 1 .. n - 1}
  IN {<<l, r>> : l \in toks, r \in toks} \ {e \in toks \X toks : Len(e[1]) + Len(e[2]) > n}
Closed(m) == \A i \in DOMAIN m, j \in {1, 2} : Len(m[i][j]) = 1 \/ m[i][j] \in Products(m)
Tables(es, n) ==
  UNION {{m \in [1 .. k -> es] : (\A i, j \in 1 .. k : m[i] = m[j] => i = j) /\ Closed(m)} : k \in 1 .. n}

SomeClasses == {"a", "s", "m", "9", " ", "n", "/", "'"}
AnyText(t) == Indexed(t, Pairs, Singles \cup Products(Pairs))
AnyTable(t, m) == Indexed(t, m, Singles \cup Products(m))
\* A letter a table was not asked about before it is the first of its texts.
Starting(c, n) == {t \in Texts({"a", "o"}, n) : t[1] = c}

TextOfAnyKind ==
  \/ \E n \in 1 .. 3 : \E t \in Texts(Classes, n) : AnyText(t)
  \/ \E t \in Texts(SomeClasses, 4) : AnyText(t)
  \/ \E t \in Texts({"a", "'", "s", " "}, 5) \cup Texts({"a", " ", "n", "/"}, 5) \cup Texts({"9", "a"}, 7) : AnyText(t)
WordOfAnyTable ==
  \/ \E m \in Tables(Entries({"a"}, 4), 3), n \in 3 .. 7 : AnyTable([i \in 1 .. n |-> "a"], m)
  \/ \E m \in Tables(Entries({"a", "o"}, 3), 3), t \in Starting("a", 5) : AnyTable(t, m)

AA == Pair("a", "a")
AO == Pair("a", "o")
AAO == <<<<"a", "a">>, <<"o">>>>
AAA == <<<<"a", "a">>, <<"a">>>>
A_AO == <<<<"a">>, <<"a", "o">>>>
O_AA == <<<<"o">>, <<"a", "a">>>>
Orders(es) == {m \in [1 .. Cardinality(es) -> es] : Range(m) = es}
\* Merges that compete for one letter, in every order.
WordOfRivals ==
  \E es \in {{AO, A_AO, AA, AAA}, {AA, AO, AAO, O_AA}} : \E m \in Orders(es), t \in Texts({"a", "o"}, 6) : AnyTable(t, m)

\* A lane asked for one range after another: no letter case, and a word.
LaneTables == {<<AA>>, <<AO, AA>>, <<AAO, AA, AO>>}
LaneTexts == {t \in Starting("a", 7) : t[3] = "a" /\ t[5] = "a" /\ t[6] = "a" /\ t[7] = "o"} \cup {<<"a", "a", "A", "a", "o", "a", "a">>}
LaneStart == \E m \in LaneTables, t \in LaneTexts, vocab \in {{}, {<<"a", "o", "a", "a">>}} :
               Indexed(t, m, Singles \cup Products(m) \cup vocab)
Lasting == body \in LaneTexts

TokensInit == TextOfAnyKind \/ WordOfAnyTable \/ WordOfRivals \/ LaneStart
TokensNext == (BuildIndex \/ Lasting) /\ TokenNext
-----------------------------------------------------------------------------
VARIABLE part
inputVars == <<part, doorVars, longVars, textVars, tokenVars>>

-----------------------------------------------------------------------------
(* Clips.                                                                  *)

NoTail == [kind |-> "Pad", min |-> 0]
Plan(window, hop, tail, max) == [window |-> window, hop |-> hop, tail |-> tail, max |-> max]
TagTails == {NoTail} \cup [kind : {"DropBelowMin"}, min : 0 .. WindowSamples + 1]
LidTails == [kind : {"SlideBack", "Partial", "Drop"}, min : {0}]
TagPlans == {Plan(WindowSamples, h, t, m) : h \in 0 .. WindowSamples + 1, t \in TagTails, m \in {0, 2, 20}}
LidPlans == {Plan(w, h, t, m) : w \in 1 .. MaxSamples + 1, h \in 0 .. MaxSamples, t \in LidTails, m \in {0, 2, 20}}
Plans(family) == IF family = "lid" THEN LidPlans ELSE TagPlans
Poolings(family) ==
  IF family = "lid" THEN {"MeanLogProbability", "MeanProbability", "Max", "Vote"} ELSE {"Mean", "Max"}

SomeRow == [c \in Cols |-> c]
RowsOf(n) == [Cols -> 0 .. n]
AskedClip(family, asked, p, total, k, pooling, rows_, bad) ==
  [family |-> family, call |-> asked, plan |-> p, total |-> total, k |-> k,
   pooling |-> pooling, rows |-> rows_, bad |-> bad]

\* Every plan over every length, one row for all.
APlannedClip ==
  \E family \in {"tag", "clap", "lid"} : \E p \in Plans(family),
     asked \in IF family = "clap" THEN {"windows"} ELSE {"windows", "long"},
     total \in {0, 1, 4, 6, 9, 11}, bad \in {0, 6} :
       Called(AskedClip(family, asked, p, total, 0, "Max", {SomeRow, SpoiltRow}, bad))
\* A plan of each kind with every row the model may answer with.
AScoredClip ==
  \E family \in {"tag", "lid"} :
     \E p \in IF family = "lid"
              THEN {Plan(4, 4, [kind |-> "Partial",
                                min |-> 0], 20), Plan(3, 3, [kind |-> "SlideBack", min |-> 0], 20)}
              ELSE {Plan(WindowSamples, WindowSamples, NoTail, 20)},
        total \in {4, 6, 8}, k \in {2, Columns + 1}, pooling \in Poolings(family) :
          Called(AskedClip(family, "long", p, total, k, pooling, RowsOf(2), 0))
AMadeUpClip ==
  \E n \in 0 .. 2, k \in {1, Columns}, pooling \in Poolings("lid") :
    Called(AskedClip("lid", "hand", Plan(4, 4, [kind |-> "Drop",
                                                min |-> 0], 20), n, k, pooling, RowsOf(2), 0))

-----------------------------------------------------------------------------
(* Texts: units of one or two tokens, some pairs of which are one token    *)
(* fewer together, and two tokens of a special kind beside every text.     *)

Units == 4
Ranges == {<<a, b>> \in (0 .. Units) \X (0 .. Units) : a < b}
Tokens(costs, joins) ==
  [r \in Ranges |-> 1 + FoldFunctionOnSet(LAMBDA x, y : x + y, 0, costs, r[1] + 1 .. r[2])
                      - Cardinality(joins \cap (r[1] + 1 .. r[2] - 1))]
Lists == {cs \in UNION {[1 .. n -> {ByteRange(r[1], r[2]) : r \in Ranges}] : n \in 0 .. 3} :
           \A i \in 1 .. Len(cs) - 1 : cs[i].start < cs[i + 1].start /\ cs[i].end < cs[i + 1].end}
SomeTexts ==
  {[units |-> Units, tokens |-> Tokens(costs, joins), fails |-> fails, window |-> w,
    overlap |-> o, cap |-> cap, bytes |-> 0] :
     costs \in [1 .. Units -> {1, 2}], joins \in SUBSET (1 .. Units - 1),
     fails \in {{}, {<<0, 2>>}, {<<1, 3>>}}, w \in {3, 4}, o \in {0, 1}, cap \in {0, 2}}
  \cup {[units |-> n, tokens |-> [r \in Ranges |-> r[2] - r[1]], fails |-> {}, window |-> w,
         overlap |-> o, cap |-> 0, bytes |-> bytes] :
          n \in {0, 1, Units}, w \in 0 .. TokenCeiling + 1, o \in {0, 3}, bytes \in {0, 3}}

-----------------------------------------------------------------------------
ASomeDoor == Loaded("identity", CHOOSE ms \in Kept("identity") : TRUE)
ASomeClip == clip = AskedClip("lid", "hand", NoTail, 0, 0, "Max", {}, 0) /\ spans = <<>> /\ heard = <<>> /\ fold = EmptyFold /\ told = Answered("none")
ASomeText == Texted([units |-> 0, overlap |-> 0, cap |-> 0])
ASomeIndex == Indexed(<<>>, <<>>, {})

InputsInit ==
  \/ part = "doors" /\ DoorInit /\ ASomeClip /\ ASomeText /\ ASomeIndex
  \/ part = "clips" /\ ASomeDoor /\ ASomeText /\ ASomeIndex
     /\ (APlannedClip \/ AScoredClip \/ AMadeUpClip)
  \/ part = "texts" /\ ASomeDoor /\ ASomeClip /\ TextInit /\ ASomeIndex
  \/ part = "tokens" /\ ASomeDoor /\ ASomeClip /\ ASomeText /\ TokensInit
InputsNext ==
  /\ UNCHANGED part
  /\ \/ part = "doors" /\ DoorNext /\ UNCHANGED <<longVars, textVars, tokenVars>>
     \/ part = "clips" /\ LongNext /\ UNCHANGED <<doorVars, textVars, tokenVars>>
     \/ part = "texts" /\ TextNext /\ UNCHANGED <<doorVars, longVars, tokenVars>>
     \/ part = "tokens" /\ TokensNext /\ UNCHANGED <<doorVars, longVars, textVars>>
\* What is longer than a window is heard from end to end and answered for
\* fairly, and a text is cut by counts that are its encoder's own (WindowPlan,
\* fold_windows, granite/token_index).
InputsAreMeasured == ClipsAreHeard /\ MeasuresAreExact

InputsSpec == InputsInit /\ [][InputsNext]_inputVars
=============================================================================
