------------------------------ MODULE MCWindow ------------------------------
(***************************************************************************)
(* A window is decoded; windows of one or two segments of up to seven      *)
(* tokens are cut and timed.                                               *)
(***************************************************************************)
EXTENDS WindowDecode, ClipBack

\* What is decoded: a word, the whitespace token, two languages, some times.
CONSTANTS SampleLength

MCWords == {0, 1}
MCLanguages == {4, 5}
MCTaskTokens == {6, 7}

Plain ==
  [usePrefillPrompt |-> TRUE, language |-> 4, task |-> 6,
   withoutTimestamps |-> FALSE, promptTokens |-> <<>>, prefixTokens |-> <<>>,
   suppressBlank |-> FALSE, suppressTokens |-> {},
   firstTokenThreshold |-> FALSE, sampleLength |-> SampleLength]

\* Long windows of a plain run, with and without a prefix.
RuleOptions == {Plain, [Plain EXCEPT !.task = 7, !.prefixTokens = <<1>>]}

\* Short ones with prompts, prefixes, and none; stopping, failing, unaligned.
TroubledOptions ==
  {[Plain EXCEPT !.sampleLength = 6, !.firstTokenThreshold = TRUE],
   [Plain EXCEPT !.sampleLength = 7, !.withoutTimestamps = TRUE,
                 !.promptTokens = <<1>>],
   [Plain EXCEPT !.sampleLength = 6, !.prefixTokens = <<1, 8>>],
   [Plain EXCEPT !.sampleLength = 4, !.usePrefillPrompt = FALSE,
                 !.suppressTokens = {1}]}

MCOptions == RuleOptions \cup TroubledOptions
PlainOptions == {Plain}

Text(id, text) == [kind |-> "text", at |-> id, text |-> text]
Time(at) == [kind |-> "time", at |-> at, text |-> <<"<">>]
Frames == 6
Segment(seq, start, end) ==
  [tokens |-> seq, logged |-> seq, start |-> start * Step, end |-> end * Step, words |-> <<>>]

Rising(n, frames) == {s \in [1 .. n -> frames] : \A k \in 2 .. n : s[k - 1] <= s[k]}
\* The times of n tokens: each ends where the next starts.
TimesOf(ends) == [starts |-> <<0>> \o [k \in 1 .. Len(ends) - 1 |-> ends[k] * Step],
                  ends |-> [k \in DOMAIN ends |-> ends[k] * Step]]
Singles(n) == [k \in 1 .. n |-> 1]

Spoken == <<"S", "a">>
Pair(x, y, z) == << Segment(<<Time(0), Text(1, x), Text(2, y), Time(2)>>, 0, 2),
                    Segment(<<Time(2), Text(3, z), Time(5)>>, 2, 5) >>
Lump(x, y, z) == << Segment(<<Time(0), Text(1, x), Text(2, y), Time(3), Text(3, z)>>, 0, 6) >>
Bare(x, y, z) == << Segment(<<Text(1, x), Text(2, y), Text(3, z)>>, 0, 6) >>
Backward(x, y, z) == << Segment(<<Time(4), Text(1, x), Text(2, y), Time(1), Text(3, z), Time(2)>>, 4, 2) >>
Shapes == {"pair", "lump", "bare", "backward"}
Shape(name, x, y, z) == CASE name = "pair" -> Pair(x, y, z) [] name = "lump" -> Lump(x, y, z)
                          [] name = "bare" -> Bare(x, y, z) [] name = "backward" -> Backward(x, y, z)
TextPlaces(seq) == SetToSortSeq({k \in DOMAIN seq : seq[k].kind = "text"}, <)
Groupings(n) == {<<>>, Singles(n)} \cup IF n = 7 THEN {<<1, 2, 1, 1, 1, 1>>, <<1, 1, 4, 1>>, <<2, 5>>, <<7>>}
                                  ELSE {<<1, n - 1>>, <<n - 1, 1>>}

WindowOf(segments, clipped, clip, rowed, fine, hears, groups, times, start) ==
  [segments |-> segments, clipped |-> clipped, clip |-> clip, rowed |-> rowed, fine |-> fine,
   heard |-> hears, groups |-> groups, times |-> times, start |-> start, weights |-> <<>>]

\* What a clip keeps: every way the alignment may place three text tokens.
ClipInit ==
  \E name \in Shapes, clip \in {5, 8, 14} :
    LET segments == Shape(name, Spoken, Spoken, Spoken)
        flat == FlatTokens(segments)
    IN \E rowed \in {TextPlaces(flat), SubSeq(TextPlaces(flat), 1, 2), <<>>} :
       \E ends \in Rising(Len(rowed), {1, 2, 4}), fine \in {Singles(Len(rowed))} \cup
            IF Len(rowed) = 3 THEN {<<2, 1>>, <<3>>} ELSE {} :
       \E groups \in Groupings(Len(flat)) :
         Decoded(WindowOf(segments, TRUE, clip, rowed, fine,
                        IF rowed = <<>> THEN [starts |-> <<>>, ends |-> <<>>] ELSE TimesOf(ends),
                        groups, TimesOf([k \in DOMAIN flat |-> k - 1]), 1))

\* How words are merged and timed.
Texts == {Spoken, <<"a">>, <<".">>, <<"S", "(">>}
WordInit ==
  \E name \in {"pair", "lump"}, clip \in {0, 12, 14}, x \in Texts, y \in Texts, z \in {Spoken, <<".">>} :
    LET segments == Shape(name, x, y, z)
        flat == FlatTokens(segments)
        rowed == TextPlaces(flat)
    IN \E groups \in Groupings(Len(flat)), ends \in Rising(Len(flat), {0, 2, 5}) :
         Decoded(WindowOf(segments, clip > 0, clip, rowed, Singles(3),
                        TimesOf(<<1, 2, 3>>), groups, TimesOf(ends), 1))

\* A first word, or two, too long after a pause; the other words are short.
PauseInit ==
  \E clipped \in BOOLEAN, a \in 0 .. 7, b \in 0 .. 5, c \in 0 .. 2, x \in Texts, y \in {Spoken, <<".">>}, begin \in 0 .. 2 :
    LET segments == Pair(x, y, Spoken)
    IN Decoded(WindowOf(segments, clipped, 20, <<2, 3, 6>>, Singles(3), TimesOf(<<1, 2, 3>>), Singles(7),
                      TimesOf(<<begin, begin + a, begin + a + b, begin + a + b + 1, begin + a + b + 1 + c,
                                begin + a + b + 2 + c, begin + a + b + 3 + c>>), 1))

\* Three tokens warped onto four frames.
WarpInit ==
  \E weights \in [1 .. 3 -> [1 .. 4 -> 0 .. 1]], clipped \in BOOLEAN :
    LET times == TokenTimes(Path(weights))
        scaled == [starts |-> [k \in 1 .. 3 |-> times.starts[k] * Step],
                   ends |-> [k \in 1 .. 3 |-> times.ends[k] * Step]]
    IN Decoded([WindowOf(Bare(Spoken, Spoken, Spoken), clipped, 8, <<1, 2, 3>>, Singles(3), scaled,
                       Singles(3), scaled, 1) EXCEPT !.weights = weights])

\* A window is decoded, or one is cut and timed.
VARIABLE part
Nothing == WindowOf(<<>>, FALSE, 0, <<>>, <<>>, <<>>, <<>>, <<>>, 0)
NoCut == window = Nothing /\ stage = "none" /\ attribution = <<>> /\ kept = <<>> /\ shown = <<>>
NoDecode == Init /\ options = Plain
MCInit ==
  \/ part = "decode" /\ Init /\ NoCut
  \/ part = "words" /\ NoDecode /\ (ClipInit \/ WordInit \/ PauseInit \/ WarpInit)
MCNext ==
  /\ \/ part = "decode" /\ Next /\ UNCHANGED clipVars
     \/ part = "words" /\ ClipNext /\ UNCHANGED vars
  /\ UNCHANGED part
MCSpec == MCInit /\ [][MCNext]_<<vars, clipVars, part>>
\* Decoding alone.
DecodeSpec == (part = "decode" /\ MCInit) /\ [][MCNext]_<<vars, clipVars, part>>

\* What is warped, cut back and timed is one window: its words are those of the
\* text that stays, where the alignment heard them.
AlignmentHolds == WarpIsHeaviest /\ ClipTellsOneStory /\ WordsFollowTheText
=============================================================================
