----------------------------- MODULE WordTimings -----------------------------
(***************************************************************************)
(* Words and their times: the warping of a window's tokens onto its frames *)
(* (dynamic_time_warping), the words read off it (find_alignment), merged  *)
(* with the punctuation beside them, timed within their segments, and,     *)
(* where a clip was cut back, made the words of what survived.             *)
(*                                                                         *)
(* Times are integers: Cs units make a hundredth of a second, to which a   *)
(* word's times are rounded.  A text is a sequence of classes of           *)
(* characters: "S" a space, "." and "?" marks a word is followed by, "("   *)
(* one it is preceded by, "'" either, "a" a letter, "<" a special token.   *)
(***************************************************************************)
EXTENDS Integers, FiniteSets, SequencesExt, FiniteSetsExt

CONSTANTS
  Cs,           \* units of a hundredth of a second
  MedianCap,    \* longest median duration: 0.7 s
  HalfSecond    \* what a word may stand out of its segment: 0.5 s

ASSUME UnitsAssumption == Cs \in Nat \ {0} /\ Cs % 2 = 0 /\ MedianCap \in Nat /\ HalfSecond \in Nat

-----------------------------------------------------------------------------
(* dynamic_time_warping, over a matrix of rows (tokens) and columns        *)
(* (frames).  The border but its corner costs without end, so only the     *)
(* first row is entered from its left and the first column from above.     *)

\* 0 diagonal, 1 up, 2 left: a strict least of all, else left.
Direction(d, u, l) == IF d < u /\ d < l THEN 0 ELSE IF u < d /\ u < l THEN 1 ELSE 2

Endless == 1000
Cost(matrix) ==
  LET rows == Len(matrix)
      cols == Len(matrix[1])
      c[i \in 0 .. rows, j \in 0 .. cols] ==
        IF i = 0 \/ j = 0 THEN (IF i = j THEN 0 ELSE Endless)
        ELSE Min({c[i - 1, j - 1], c[i - 1, j], c[i, j - 1]}) - matrix[i][j]
  IN c

\* The way back from the last cell, in the order of the text.
Path(matrix) ==
  LET cost == Cost(matrix)
      trace(i, j) == IF i = 0 THEN 2 ELSE IF j = 0 THEN 1
                     ELSE Direction(cost[i - 1, j - 1], cost[i - 1, j], cost[i, j - 1])
      way[i \in 0 .. Len(matrix), j \in 0 .. Len(matrix[1])] ==
        IF i = 0 /\ j = 0 THEN <<>>
        ELSE LET step == trace(i, j)
                 before == IF step = 0 THEN way[i - 1, j - 1]
                           ELSE IF step = 1 THEN way[i - 1, j] ELSE way[i, j - 1]
             IN Append(before, [text |-> i, time |-> j - 1])
  IN way[Len(matrix), Len(matrix[1])]

\* A token starts, and the one before it ends, where the path enters its row.
TokenTimes(path) ==
  LET enters == SetToSortSeq({k \in 2 .. Len(path) : path[k].text # path[k - 1].text}, <)
      times == [k \in DOMAIN enters |-> path[enters[k]].time]
  IN [starts |-> <<0>> \o times, ends |-> Append(times, path[Len(path)].time)]

-----------------------------------------------------------------------------
(* Words.  A token is known by its kind, a text token by its text too; a   *)
(* word keeps the positions its probability is weighed by, and whether it  *)
(* is one's own, taken over from the word it was cut from, or none.        *)

Word(text, tokens, start, end, weighed) ==
  [text |-> text, tokens |-> tokens, start |-> start, end |-> end, weighed |-> weighed]
Duration(word) == word.end - word.start
IsText(token) == token.kind = "text"
TextTokens(tokens) == SelectSeq(tokens, IsText)
TextOf(tokens) == FlattenSeq([k \in DOMAIN tokens |-> tokens[k].text])

\* The words of the grouped tokens; a single word is none.
FindAlignment(tokens, groups, times) ==
  LET before(g) == FoldLeft(+, 0, SubSeq(groups, 1, g - 1))
  IN IF Len(groups) <= 1 THEN <<>>
     ELSE [g \in DOMAIN groups |->
            LET from == before(g) + 1
                to == before(g) + groups[g]
                own == SubSeq(tokens, from, to)
            IN [from |-> from, to |-> to,
                word |-> Word(TextOf(own), own, times.starts[from], times.ends[to], from .. to)]]

\* Half the positive durations are no longer than the median; it is capped,
\* and twice it is the longest a word may be.
Median(words) ==
  LET lasting == SelectSeq(words, LAMBDA w : Duration(w) > 0)
      sorted == SortSeq([k \in DOMAIN lasting |-> Duration(lasting[k])], <)
  IN IF lasting = <<>> THEN 0 ELSE Min({MedianCap, sorted[Len(sorted) \div 2 + 1]})
MaxDuration(words) == 2 * Median(words)

EndsSentence(word) == word.text \in {<<".">>, <<"?">>}
\* A mark too long ends early, a word after a mark too long starts late; the
\* first word is never looked at.
TruncateLongWords(words, max) ==
  LET cut(k) == IF k = 1 \/ Duration(words[k]) <= max THEN words[k]
                ELSE IF EndsSentence(words[k]) THEN [words[k] EXCEPT !.end = words[k].start + max]
                ELSE IF EndsSentence(words[k - 1])
                THEN [words[k] EXCEPT !.start = words[k].end - max] ELSE words[k]
  IN [k \in DOMAIN words |-> cut(k)]

-----------------------------------------------------------------------------
(* merge_punctuations: two passes over pairs of neighbours as they stood   *)
(* before the pass, the second over what the first leaves.                 *)

Trimmed(text) == SelectSeq(text, LAMBDA c : c # "S")
IsPrepended(text) == text \in {<<"(">>, <<"'">>}
IsAppended(text) == text \in {<<".">>, <<"?">>, <<"'">>}
StartsWithSpace(text) == text # <<>> /\ text[1] = "S"
EndsWithSpace(text) == text # <<>> /\ Last(text) = "S"
ReplacingLast(words, word) == IF words = <<>> THEN <<word>> ELSE Append(Front(words), word)
Joined(left, right, timed) ==
  Word(left.text \o right.text, left.tokens \o right.tokens, timed.start, timed.end, timed.weighed)

PrependPass(words) ==
  LET joins(k) == /\ StartsWithSpace(words[k - 1].text)
                  /\ IsPrepended(Trimmed(words[k - 1].text))
      pass(done, k) == IF joins(k)
                       THEN ReplacingLast(done, Joined(words[k - 1], words[k], words[k]))
                       ELSE Append(done, words[k])
      first == IF IsPrepended(Trimmed(words[1].text)) THEN <<>> ELSE <<words[1]>>
  IN FoldLeft(pass, first, [k \in 1 .. Len(words) - 1 |-> k + 1])

AppendPass(words) ==
  LET joins(k) == ~EndsWithSpace(words[k - 1].text) /\ IsAppended(Trimmed(words[k].text))
      pass(done, k) == IF joins(k)
                       THEN ReplacingLast(done, Joined(words[k - 1], words[k], words[k - 1]))
                       ELSE Append(done, words[k])
  IN IF words = <<>> THEN <<>>
     ELSE FoldLeft(pass, <<words[1]>>, [k \in 1 .. Len(words) - 1 |-> k + 1])

MergePunctuations(words) ==
  IF words = <<>> THEN <<>>
  ELSE SelectSeq(AppendPass(PrependPass(words)),
                 LAMBDA w : w.text # <<>> /\ ~IsAppended(w.text) /\ ~IsPrepended(w.text))

-----------------------------------------------------------------------------
(* update_segment_with_word_timings: a segment takes words until their     *)
(* text tokens are as many as its own, and is timed by them.               *)

\* To the nearest hundredth, a half away from zero.
Rounded(time) ==
  IF time >= 0 THEN ((2 * time + Cs) \div (2 * Cs)) * Cs ELSE -(((Cs - 2 * time) \div (2 * Cs)) * Cs)

\* Words looked at: those before the budget of text tokens is spent.
Consumed(segment, words) ==
  LET budget == Len(TextTokens(segment.tokens))
      saved(c) == FoldLeft(LAMBDA n, w : n + Len(TextTokens(w.tokens)), 0, SubSeq(words, 1, c))
  IN Min({c \in 0 .. Len(words) : saved(c) >= budget} \cup {Len(words)})

\* A word much shorter than the median takes half a median of the pause before
\* it, up to the end of the word before or of the segment before (None: -1).
PulledBack(start, end, before, median) ==
  IF 4 * (end - start) < median /\ before # -1 /\ start > before
  THEN Rounded(start - Min({start - before, median \div 2})) ELSE start

TakenWords(segment, words, before, offset, median) ==
  LET taken == SelectSeq(SubSeq(words, 1, Consumed(segment, words)),
                         LAMBDA w : TextTokens(w.tokens) # <<>>)
      end(k) == Rounded(offset + taken[k].end)
      start(k) == PulledBack(Rounded(offset + taken[k].start), end(k),
                             IF k = 1 THEN before ELSE end(k - 1), median)
      own(k) == TextTokens(taken[k].tokens)
      text(k) == IF Len(own(k)) < Len(taken[k].tokens) THEN TextOf(own(k)) ELSE taken[k].text
  IN [k \in DOMAIN taken |-> Word(text(k), own(k), start(k), end(k), taken[k].weighed)]

\* After a long pause the first words, too long, are cut at a boundary.
AfterPause(words, lastSpeech, median, max) ==
  LET two == Len(words) > 1
      tooLong == \/ Duration(words[1]) > max
                 \/ two /\ words[2].end - words[1].start > 2 * max
      boundary == Max({words[2].end \div 2, words[2].end - max})
      split == IF two /\ Duration(words[2]) > max
               THEN [words EXCEPT ![1].end = boundary, ![2].start = boundary] ELSE words
  IN IF words[1].end - lastSpeech > 4 * median /\ tooLong
     THEN [split EXCEPT ![1].start = Max({lastSpeech, split[1].end - max})] ELSE words

\* Either the segment takes its first word's start, or the word, far before
\* the segment, is brought to it; so with the last word's end.
HeldAtStart(segment, words, median) ==
  LET w == words[1]
  IN IF segment.start < w.end /\ segment.start - HalfSecond > w.start
     THEN [start |-> segment.start,
           words |-> [words EXCEPT ![1].start = Max({0, Min({w.end - median, segment.start})})]]
     ELSE [start |-> w.start, words |-> words]
HeldAtEnd(segment, words, median) ==
  LET w == Last(words)
  IN IF segment.end > w.start /\ segment.end + HalfSecond < w.end
     THEN [end |-> segment.end,
           words |-> [words EXCEPT ![Len(words)].end = Max({w.start + median, segment.end})]]
     ELSE [end |-> w.end, words |-> words]

\* The segment, and where its speech ends.
Bounded(segment, opened, closed) ==
  [segment |-> [segment EXCEPT !.start = opened.start, !.end = closed.end, !.words = closed.words],
   lastSpeech |-> closed.end]
Opened(segment, opened, median) == Bounded(segment, opened, HeldAtEnd(segment, opened.words, median))
Constrained(segment, taken, lastSpeech, median, max) ==
  IF taken = <<>> THEN [segment |-> [segment EXCEPT !.words = <<>>], lastSpeech |-> lastSpeech]
  ELSE Opened(segment, HeldAtStart(segment, AfterPause(taken, lastSpeech, median, max), median), median)
UpdateSegment(segment, words, before, offset, lastSpeech, median, max) ==
  Constrained(segment, TakenWords(segment, words, before, offset, median), lastSpeech, median, max)

EndBefore(segments) == IF segments = <<>> THEN -1 ELSE Last(segments).end

\* A window that is not clipped: its segments share one cursor over its words.
UpdateSegments(segments, words, offset, lastSpeech, median, max) ==
  LET moved(done, consumed, updated) ==
        [segments |-> Append(done.segments, updated.segment), cursor |-> done.cursor + consumed,
         lastSpeech |-> updated.lastSpeech]
      left(done) == SubSeq(words, done.cursor + 1, Len(words))
      next(done, segment) ==
        moved(done, Consumed(segment, left(done)),
              UpdateSegment(segment, left(done), EndBefore(done.segments), offset, done.lastSpeech, median, max))
  IN FoldLeft(next, [segments |-> <<>>, cursor |-> 0, lastSpeech |-> lastSpeech], segments).segments

FlatTokens(segments) == FlattenSeq([s \in DOMAIN segments |-> segments[s].tokens])

AddWordTimestamps(segments, groups, times, offset, lastSpeech) ==
  LET found == FindAlignment(FlatTokens(segments), groups, times)
      words == [g \in DOMAIN found |-> found[g].word]
      merged == MergePunctuations(TruncateLongWords(words, MaxDuration(words)))
  IN UpdateSegments(segments, merged, offset, lastSpeech, Median(words), MaxDuration(words))

-----------------------------------------------------------------------------
(* derive_visible_words: the window is aligned as it stood, and each word  *)
(* keeps the tokens its segment kept.                                      *)

\* The tokens a kept segment holds of a word, by their place among its own.
Held(segment, found) ==
  SelectSeq([k \in DOMAIN segment.positions |-> k],
            LAMBDA k : segment.positions[k] \in found.from .. found.to)

\* The part of a word a segment kept: the word itself when it kept it whole,
\* else its kept tokens, timed and weighed as those; a restated timestamp
\* weighs nothing.
PartOf(segment, found, window, times) ==
  LET held == Held(segment, found)
      tokens == [h \in DOMAIN held |-> segment.tokens[held[h]]]
      at == [h \in DOMAIN held |-> segment.positions[held[h]]]
      restated == {h \in DOMAIN held : tokens[h] # window.tokens[at[h]]}
      own == {at[h] : h \in {g \in DOMAIN held \ restated : window.logged[at[g]] = window.tokens[at[g]]}}
  IN IF tokens = found.word.tokens THEN found.word
     ELSE Word(TextOf(tokens), tokens, times.starts[at[1]], times.ends[Last(at)],
               IF own # {} THEN own ELSE IF restated # {} THEN {} ELSE found.word.weighed)

\* Every surviving word with the segment holding it, in the window's order: a
\* word two segments hold is cut where they meet.
Surviving(kept, founds, window, times) ==
  FlattenSeq([g \in DOMAIN founds |->
    LET holders == SelectSeq([s \in DOMAIN kept |-> s], LAMBDA s : Held(kept[s], founds[g]) # <<>>)
    IN [h \in DOMAIN holders |->
          [owner |-> holders[h], word |-> PartOf(kept[holders[h]], founds[g], window, times)]]])

SegmentWords(surviving, segments, max) ==
  LET words == TruncateLongWords([k \in DOMAIN surviving |-> surviving[k].word], max)
  IN [s \in 1 .. segments |->
        LET own == SelectSeq([k \in DOMAIN words |-> k], LAMBDA k : surviving[k].owner = s)
        IN [k \in DOMAIN own |-> words[own[k]]]]

\* A segment keeps the bounds it was given and holds its words inside them.
HeldInside(word, segment) ==
  LET held(time) == Min({Max({time, segment.start}), segment.end})
  IN [word EXCEPT !.start = held(word.start), !.end = held(word.end)]

DerivePerSegment(segments, own, offset, lastSpeech, median, max) ==
  LET shown(done, given, words) ==
        [segments |-> Append(done.segments, [given EXCEPT !.words = words]),
         lastSpeech |-> IF words = <<>> THEN done.lastSpeech ELSE given.end]
      inside(given, words) == [k \in DOMAIN words |-> HeldInside(words[k], given)]
      next(done, s) ==
        shown(done, segments[s],
              inside(segments[s],
                     UpdateSegment(segments[s], MergePunctuations(own[s]), EndBefore(done.segments), offset,
                                   done.lastSpeech, median, max).segment.words))
  IN FoldLeft(next, [segments |-> <<>>, lastSpeech |-> lastSpeech],
              [s \in DOMAIN segments |-> s]).segments

DeriveVisibleWords(segments, kept, groups, times, offset, lastSpeech) ==
  LET window == [tokens |-> FlatTokens(segments),
                 logged |-> FlattenSeq([s \in DOMAIN segments |-> segments[s].logged])]
      founds == FindAlignment(window.tokens, groups, times)
      words == [g \in DOMAIN founds |-> founds[g].word]
      own == SegmentWords(Surviving(kept, founds, window, times), Len(kept), MaxDuration(words))
  IN DerivePerSegment(kept, own, offset, lastSpeech, Median(words), MaxDuration(words))

-----------------------------------------------------------------------------
(* The raw words that decide what a clip keeps: fine-grained groups of the *)
(* tokens that have a row, special tokens split off, gaps not bridged.     *)

\* Runs of text tokens within a group whose places in the window are next to
\* one another; rowed: those places, and groups: how many each group has.
TextUnits(tokens, rowed, groups, times) ==
  LET before(g) == FoldLeft(+, 0, SubSeq(groups, 1, g - 1))
      text(k) == IsText(tokens[rowed[k]])
      follows(k) == text(k - 1) /\ rowed[k] = rowed[k - 1] + 1
      runs(g) == {<<f, t>> \in (before(g) + 1 .. before(g) + groups[g]) \X (1 .. Len(rowed)) :
                    /\ f <= t /\ t <= before(g) + groups[g]
                    /\ \A k \in f .. t : text(k) /\ (k > f => follows(k))
                    /\ f > before(g) + 1 => ~(text(f) /\ follows(f))
                    /\ t < before(g) + groups[g] => ~(text(t + 1) /\ follows(t + 1))}
      all == SetToSortSeq(UNION {runs(g) : g \in DOMAIN groups}, LAMBDA a, b : a[1] < b[1])
  IN [u \in DOMAIN all |-> [first |-> rowed[all[u][1]], last |-> rowed[all[u][2]],
                            start |-> times.starts[all[u][1]], end |-> times.ends[all[u][2]]]]

\* A raw word is its first token's segment's, and spans that segment's tokens.
Before(segments, s) == FoldLeft(LAMBDA n, t : n + Len(t.tokens), 0, SubSeq(segments, 1, s - 1))
OwnRawWords(segments, units) ==
  LET owns(s, u) == u.first - Before(segments, s) \in 1 .. Len(segments[s].tokens)
  IN [s \in DOMAIN segments |->
        LET own == SelectSeq(units, LAMBDA u : owns(s, u))
        IN [k \in DOMAIN own |-> [own[k] EXCEPT !.first = @ - Before(segments, s),
                                                !.last = @ - Before(segments, s)]]]
=============================================================================
