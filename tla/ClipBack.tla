------------------------------ MODULE ClipBack ------------------------------
(***************************************************************************)
(* clip_back_to_window: a clip shorter than the model's window is padded,  *)
(* decoded, and its segments are clipped back to the samples it has.  What *)
(* stays is what a raw word of the alignment places, or a timestamp inside *)
(* the clip closes; the timestamps that stay are restated to say it.       *)
(*                                                                         *)
(* Times are counted from the window's start, in units of which a time     *)
(* token has Step; the rounding of a time kept as f32 seconds              *)
(* (window_samples) is left out.  A text is the sequence of its tokens.    *)
(***************************************************************************)
EXTENDS WordTimings

CONSTANT Step   \* units of a time token: SAMPLES_PER_TIME_TOKEN

ASSUME StepAssumption == Step \in Nat \ {0}

VARIABLES
  window,   \* what was decoded: its segments, its clip, its two alignments
  stage,    \* "decoded", "attributed", "clipped", "timed"
  attribution, \* segment -> its raw words
  kept,     \* the segments the clip keeps
  shown     \* the segments a reader sees

clipVars == <<window, stage, attribution, kept, shown>>

IsStamp(token) == token.kind = "time"

\* A raw word: the tokens first..last of its segment and its span of time.
RawWord(first, last, start, end) == [first |-> first, last |-> last, start |-> start, end |-> end]

Clamp(time, clip) == Max({0, Min({time, clip})})
StepOf(time, clip) == Clamp(time, clip) \div Step

\* A span lies in the padding when it starts at or after the clip's end and
\* reaches past it.
InPadding(span, clip) == span.start >= clip /\ span.end > clip

\* The last timestamp inside the clip that closes text; none after the first
\* one past the clip's end is trusted.
ClosedInside(tokens, clip) ==
  LET closes(i) == /\ IsStamp(tokens[i])
                   /\ \A j \in 1 .. i : IsStamp(tokens[j]) => tokens[j].at * Step <= clip
                   /\ \E j \in 1 .. i : IsText(tokens[j])
  IN Max({0} \cup {i \in DOMAIN tokens : closes(i)})

\* Raw words kept: those before the first in the padding.
Kept(raw, clip) == Min({k \in DOMAIN raw : InPadding(raw[k], clip)} \cup {Len(raw) + 1}) - 1

\* Slip: what the last word kept places is enough, whatever follows it.
CutAtPlaced(tokens, raw, clip) ==
  LET keep == Kept(raw, clip)
      placed == IF keep = 0 THEN 0 ELSE Min({raw[keep].last, Len(tokens)})
      bound == Max({placed, ClosedInside(tokens, clip)})
  IN IF raw = <<>> THEN ClosedInside(tokens, clip) ELSE bound

\* The last token text may stay at: placed by a word or closed by a timestamp,
\* and before the first word in the padding.
Cut(tokens, raw, clip) ==
  LET keep == Kept(raw, clip)
      placed == IF keep = 0 THEN 0 ELSE Min({raw[keep].last, Len(tokens)})
      bound == Max({placed, ClosedInside(tokens, clip)})
  IN IF raw = <<>> THEN ClosedInside(tokens, clip)
     ELSE IF keep = Len(raw) THEN bound
     ELSE Min({raw[keep + 1].first - 1, Len(tokens), bound})

\* The bounds a segment keeps, from its own or, when they lie in the padding
\* or out of order, from the raw words it keeps.
Reversed(segment) == segment.end < segment.start
BoundsOf(segment, raw, clip) ==
  LET keep == Kept(raw, clip)
      states == keep > 0 /\ (InPadding(segment, clip) \/ Reversed(segment))
  IN [start |-> Clamp(IF states THEN raw[1].start ELSE segment.start, clip),
      end |-> Clamp(IF states THEN raw[keep].end ELSE segment.end, clip)]

TextsKept(segment, raw, clip) ==
  {i \in DOMAIN segment.tokens : IsText(segment.tokens[i]) /\ i <= Cut(segment.tokens, raw, clip)}

\* A segment goes with its last text token, or when nothing places its text.
Goes(segment, raw, clip) ==
  \/ TextsKept(segment, raw, clip) = {}
  \/ Reversed(segment) /\ Kept(raw, clip) = 0
  \/ raw = <<>> /\ LET bounds == BoundsOf(segment, raw, clip) IN bounds.end <= bounds.start

\* What becomes of a segment's timestamps: the one opening the kept text says
\* its start, the one closing it its end, and another stays only inside them.
Opens(segment, texts, i) ==
  /\ \A j \in DOMAIN segment.tokens : IsStamp(segment.tokens[j]) => i <= j
  /\ i < Min(texts)
Closes(segment, texts, i) ==
  /\ \A j \in DOMAIN segment.tokens : IsStamp(segment.tokens[j]) => j <= i
  /\ i > Max(texts)
Restated(segment, raw, clip, i) ==
  LET token == segment.tokens[i]
      texts == TextsKept(segment, raw, clip)
      bounds == BoundsOf(segment, raw, clip)
  IN IF ~IsStamp(token) THEN token
     ELSE IF Opens(segment, texts, i) THEN [token EXCEPT !.at = StepOf(bounds.start, clip)]
     ELSE IF Closes(segment, texts, i) THEN [token EXCEPT !.at = StepOf(bounds.end, clip)]
     ELSE token
Stays(segment, raw, clip, i) ==
  LET token == segment.tokens[i]
      texts == TextsKept(segment, raw, clip)
      bounds == BoundsOf(segment, raw, clip)
  IN IF IsText(token) THEN i \in texts
     ELSE IsStamp(token) =>
            \/ Opens(segment, texts, i) \/ Closes(segment, texts, i)
            \/ token.at \in StepOf(bounds.start, clip) .. StepOf(bounds.end, clip)

\* A kept segment with where its tokens stood among the window's; its
\* log probabilities keep the tokens the model sampled.
ClippedSegment(segment, raw, clip, base) ==
  LET stay == SetToSortSeq({i \in DOMAIN segment.tokens : Stays(segment, raw, clip, i)}, <)
      bounds == BoundsOf(segment, raw, clip)
  IN [tokens |-> [k \in DOMAIN stay |-> Restated(segment, raw, clip, stay[k])],
      logged |-> [k \in DOMAIN stay |-> segment.logged[stay[k]]],
      start |-> bounds.start, end |-> bounds.end,
      words |-> <<>>,
      positions |-> [k \in DOMAIN stay |-> base + stay[k]]]

ClipBackToWindow(segments, words, clip) ==
  LET own(s) == IF s \in DOMAIN words THEN words[s] ELSE <<>>
      staying == SetToSortSeq({s \in DOMAIN segments : ~Goes(segments[s], own(s), clip)}, <)
  IN [k \in DOMAIN staying |->
        ClippedSegment(segments[staying[k]], own(staying[k]), clip, Before(segments, staying[k]))]

-----------------------------------------------------------------------------
(* TranscribeTask::run, from a decoded window to its segments: a window is *)
(* clipped back exactly when its samples are fewer than the model's.       *)

\* A decoded window: fine is the fine-grained grouping of the tokens that
\* have a row and heard their times; groups and times are what the visible
\* words are grouped and timed by, which are the times of the weights' warping
\* where weights are given; start is where the window begins.
Decoded(w) ==
  /\ window = w /\ stage = "decoded"
  /\ attribution = <<>> /\ kept = <<>> /\ shown = <<>>

\* Words are asked for and there is an alignment to time them by.
IsTimed == window.groups # <<>>

ShowUntimed ==
  /\ ~IsTimed
  /\ \/ stage = "decoded" /\ ~window.clipped /\ shown' = window.segments
     \/ stage = "clipped" /\ shown' = kept
  /\ stage' = "timed" /\ UNCHANGED <<window, attribution, kept>>

\* Segments of no length are dropped, but only here.
ShowUnclipped ==
  /\ stage = "decoded" /\ ~window.clipped /\ IsTimed
  /\ shown' = SelectSeq(AddWordTimestamps([s \in DOMAIN window.segments |->
                           [window.segments[s] EXCEPT !.start = @ + window.start, !.end = @ + window.start]],
                          window.groups, window.times, window.start, window.start),
                        LAMBDA t : t.end > t.start)
  /\ stage' = "timed" /\ UNCHANGED <<window, attribution, kept>>

AttributeWindow ==
  /\ stage = "decoded" /\ window.clipped
  /\ attribution' = OwnRawWords(window.segments, TextUnits(FlatTokens(window.segments), window.rowed,
                                                   window.fine, window.heard))
  /\ stage' = "attributed" /\ UNCHANGED <<window, kept, shown>>

ClipBack ==
  /\ stage = "attributed"
  /\ kept' = ClipBackToWindow(window.segments, attribution, window.clip)
  /\ stage' = "clipped" /\ UNCHANGED <<window, attribution, shown>>

Derive ==
  /\ stage = "clipped" /\ IsTimed
  /\ shown' = IF kept = <<>> THEN <<>>
              ELSE DeriveVisibleWords(window.segments,
                     [k \in DOMAIN kept |-> [kept[k] EXCEPT !.start = @ + window.start,
                                                            !.end = @ + window.start]],
                     window.groups, window.times, window.start, window.start)
  /\ stage' = "timed" /\ UNCHANGED <<window, attribution, kept>>

ClipNext == ShowUntimed \/ ShowUnclipped \/ AttributeWindow \/ ClipBack \/ Derive

-----------------------------------------------------------------------------
(* Properties.                                                             *)

\* The kept tokens with where they stand in the window.
KeptAt(s) == {kept[s].positions[k] : k \in DOMAIN kept[s].positions}
WindowTokens == FlatTokens(window.segments)
TextAt(s) == {p \in KeptAt(s) : IsText(WindowTokens[p])}

\* The words of the alignment a segment keeps, by their places in the window,
\* and those in the padding or after one that is.
Places(s, k) == Before(window.segments, s) + attribution[s][k].first ..
                Before(window.segments, s) + attribution[s][k].last
HeardWords(s) == {k \in DOMAIN attribution[s] : \A j \in 1 .. k : ~InPadding(attribution[s][j], window.clip)}
HeardAt == UNION {UNION {Places(s, k) : k \in HeardWords(s)} : s \in DOMAIN attribution}
PaddingAt == UNION {UNION {Places(s, k) : k \in DOMAIN attribution[s] \ HeardWords(s)} : s \in DOMAIN attribution}

\* Text is kept where the alignment hears it inside the clip and never where
\* it hears padding; text no word places stays only before a timestamp inside
\* the clip.
KeptIsHeard ==
  LET text == UNION {TextAt(s) : s \in DOMAIN kept}
      closes(p) == /\ IsStamp(WindowTokens[p]) /\ WindowTokens[p].at * Step <= window.clip
  IN /\ HeardAt \subseteq text
     /\ text \cap PaddingAt = {}
     /\ \A p \in text \ HeardAt : \/ \E q \in p .. Len(WindowTokens) : closes(q)
                                  \/ \E q \in HeardAt : q > p

\* Bounds lie in the clip in order, timestamps between them, opening at the
\* start and closing at the end.
TimesAreInside ==
  \A s \in DOMAIN kept :
    LET t == kept[s].tokens
        from == kept[s].start \div Step
        to == kept[s].end \div Step
    IN /\ 0 <= kept[s].start /\ kept[s].start <= kept[s].end /\ kept[s].end <= window.clip
       /\ \A k \in DOMAIN t : IsStamp(t[k]) => from <= t[k].at /\ t[k].at <= to
       /\ IsStamp(t[1]) => t[1].at = from
       /\ IsStamp(Last(t)) => Last(t).at = to

\* Tokens stay in order and each with the log probability of what the model
\* sampled where it stood, which a restated timestamp's is not.
TokensStayThemselves ==
  /\ \A s \in DOMAIN kept : \A k \in DOMAIN kept[s].tokens :
       /\ kept[s].logged[k] = WindowTokens[kept[s].positions[k]]
       /\ IsText(kept[s].tokens[k]) => kept[s].tokens[k] = kept[s].logged[k]
  /\ \A s, z \in DOMAIN kept : \A k \in DOMAIN kept[s].positions, j \in DOMAIN kept[z].positions :
       s < z \/ (s = z /\ k < j) => kept[s].positions[k] < kept[z].positions[j]

\* What the clip keeps tells one story: its text is what is heard inside the
\* clip, its bounds and timestamps say the same span, inside the clip
\* (clip_back_to_window).
ClipTellsOneStory ==
  stage \in {"clipped", "timed"} /\ window.clipped =>
    KeptIsHeard /\ TimesAreInside /\ TokensStayThemselves

TokensIn(words) == FlattenSeq([k \in DOMAIN words |-> TextTokens(words[k].tokens)])
IsSpoken(token) == \E k \in DOMAIN token.text : token.text[k] = "a"
\* Every token of left is one of right's, in the same order.
InOrderOf(left, right) ==
  \E at \in [DOMAIN left -> DOMAIN right] :
    \A k \in DOMAIN left : left[k] = right[at[k]] /\ (k > 1 => at[k - 1] < at[k])

WordsInOrder(segment) ==
  LET w == segment.words
  IN /\ \A k \in DOMAIN w : w[k].start <= w[k].end
     /\ \A k \in 2 .. Len(w) : w[k - 1].end <= w[k].start

\* A clipped segment's words hold its own text in order, all of it when it is
\* all spoken, between its bounds, and are weighed by tokens it kept as the
\* model sampled them (derive_visible_words).
ClippedWordsAreItsOwn ==
  \A s \in DOMAIN shown :
    LET words == shown[s].words
        text == TextTokens(kept[s].tokens)
    IN /\ InOrderOf(TokensIn(words), text)
       /\ Len(window.groups) > 1 /\ (\A k \in DOMAIN text : IsSpoken(text[k])) => TokensIn(words) = text
       /\ \A k \in DOMAIN words :
            /\ shown[s].start <= words[k].start /\ words[k].end <= shown[s].end
            /\ (\E j \in DOMAIN words[k].tokens : IsSpoken(words[k].tokens[j])) => words[k].weighed # {}
            /\ \A p \in words[k].weighed :
                 \E j \in DOMAIN kept[s].positions :
                   kept[s].positions[j] = p /\ kept[s].tokens[j] = WindowTokens[p]

\* Whether clipped or not, a window's words hold its text in order and no
\* token twice, and the words of a segment do not overlap
\* (add_word_timestamps).
WordsFollowTheText ==
  stage = "timed" /\ IsTimed =>
    /\ InOrderOf(FlattenSeq([s \in DOMAIN shown |-> TokensIn(shown[s].words)]), TextTokens(WindowTokens))
    /\ \A s \in DOMAIN shown : WordsInOrder(shown[s])
    /\ window.clipped => ClippedWordsAreItsOwn

\* Every way from the first cell to the last that never goes back, and the
\* weights it goes over.
Ways(matrix) ==
  LET way[i \in 0 .. Len(matrix), j \in 0 .. Len(matrix[1])] ==
        IF i = 0 \/ j = 0 THEN {}
        ELSE IF i = 1 /\ j = 1 THEN {<<[text |-> 1, time |-> 0]>>}
        ELSE {Append(w, [text |-> i, time |-> j - 1]) : w \in way[i - 1, j - 1] \cup way[i - 1, j] \cup way[i, j - 1]}
  IN way[Len(matrix), Len(matrix[1])]
Weight(matrix, path) ==
  FoldLeft(LAMBDA n, cell : n + matrix[cell.text][cell.time + 1], 0, path)

\* The warping goes over every token and frame in order, the heaviest way
\* there is, and gives each token one start and one end, none before another
\* (dynamic_time_warping, find_alignment).
WarpIsHeaviest ==
  stage = "decoded" /\ window.weights # <<>> =>
    LET path == Path(window.weights)
    IN /\ path \in Ways(window.weights)
       /\ \A way \in Ways(window.weights) : Weight(window.weights, way) <= Weight(window.weights, path)
       /\ Len(window.times.starts) = Len(window.weights) /\ Len(window.times.ends) = Len(window.weights)
       /\ \A k \in 2 .. Len(window.weights) :
            /\ window.times.starts[k] = window.times.ends[k - 1]
            /\ window.times.starts[k] <= window.times.ends[k]
=============================================================================
