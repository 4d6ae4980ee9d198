----------------------------- MODULE LongClips -----------------------------
(***************************************************************************)
(* A clip longer than a model's window: cut into windows (audio tagging    *)
(* and CLAP by one plan, language identification by another), each window  *)
(* given to the model, and the rows of the windows folded into one, either *)
(* per class (tagging) or into one distribution over languages.            *)
(*                                                                         *)
(* Probabilities are integers on a common scale, a row's own scale being a *)
(* constant factor; a zero is the log of minus infinity.  A fold keeps a   *)
(* numerator per column and one denominator, so it is exact: the f32 and   *)
(* f64 rounding, the running shift of the log-sum-exp (which cancels) and  *)
(* the mass tolerance are left out.                                        *)
(***************************************************************************)
EXTENDS Integers, Sequences, FiniteSets, FiniteSetsExt, SequencesExt

CONSTANTS
  WindowSamples,            \* the tagging window, in samples
  MinSamples, MaxSamples,   \* lengths the language model takes
  Columns                   \* classes, or languages, from 1 on

ASSUME LongClipsAssumption ==
  /\ WindowSamples \in Nat \ {0}
  /\ MinSamples \in Nat \ {0} /\ MaxSamples \in Nat /\ MinSamples <= MaxSamples
  /\ Columns \in Nat \ {0}

VARIABLES
  clip,    \* what was asked: family, call, plan, total, k, pooling, rows, bad
  spans,   \* the windows planned
  heard,   \* rows the windows answered with, in order
  fold,    \* the accumulator
  told     \* "asked", "planned", "ok", or an error

longVars == <<clip, spans, heard, fold, told>>

Span(start, len) == [start |-> start, len |-> len]
CeilDiv(n, d) == (n + d - 1) \div d

-----------------------------------------------------------------------------
(* Plans.                                                                  *)

\* What the setters assert and deserialization refuses.
CheckWindow(family, w) ==
  IF family = "lid" THEN w \in MinSamples .. MaxSamples ELSE w = WindowSamples
CheckHop(hop, window) == hop \in 1 .. window
CheckTail(tail) == tail.kind = "DropBelowMin" => tail.min \in 1 .. WindowSamples
Admissible(family, p) ==
  CheckWindow(family, p.window) /\ CheckHop(p.hop, p.window) /\ CheckTail(p.tail) /\ p.max > 0

\* The planner of the windit crate: windows a hop apart up to the first that
\* reaches the end, which is kept if it is long enough.
WinditSpans(window, hop, keep, total) ==
  LET last == IF total <= window THEN 0 ELSE CeilDiv(total - window, hop)
      len(i) == Min({window, total - i * hop})
      kept == IF len(last) >= keep THEN last + 1 ELSE last
  IN [i \in 1 .. kept |-> Span((i - 1) * hop, len(i - 1))]

\* Tagging and CLAP: windows go on a hop apart to the end of the clip, each
\* shorter than the one before.
MinKeep(p) == IF p.tail.kind = "Pad" THEN 1 ELSE p.tail.min
PlannedTags(p, total) ==
  IF total = 0 THEN 0 ELSE IF total <= WindowSamples THEN 1
  ELSE IF p.tail.kind = "Pad" THEN CeilDiv(total, p.hop) ELSE (total - p.tail.min) \div p.hop + 1
TagSpans(p, total) ==
  LET first == CeilDiv(total - WindowSamples, p.hop) * p.hop
      more == (total - first - 1) \div p.hop
      tails == [i \in 1 .. more |-> Span(first + i * p.hop, total - first - i * p.hop)]
  IN IF total = 0 THEN <<>> ELSE IF total <= WindowSamples THEN <<Span(0, total)>>
     ELSE WinditSpans(WindowSamples, p.hop, MinKeep(p), total)
          \o SelectSeq(tails, LAMBDA s : s.len >= MinKeep(p))

\* Languages: the full windows, and one more for what they leave at the end.
LastFullStart(p, total) == ((total - p.window) \div p.hop) * p.hop
Uncovered(p, total) == LastFullStart(p, total) + p.window < total
PlannedLids(p, total) ==
  LET left == total - LastFullStart(p, total) - p.hop
      tail == /\ Uncovered(p, total)
              /\ \/ p.tail.kind = "SlideBack"
                 \/ p.tail.kind = "Partial" /\ left >= MinSamples
  IN IF total = 0 THEN 0 ELSE IF total <= p.window THEN 1
     ELSE (total - p.window) \div p.hop + 1 + (IF tail THEN 1 ELSE 0)
LidTail(p, total) ==
  LET start == LastFullStart(p, total) + p.hop
  IN CASE ~Uncovered(p, total) -> <<>>
       [] p.tail.kind = "SlideBack" -> <<Span(total - p.window, p.window)>>
       [] p.tail.kind = "Partial" ->
            IF total - start >= MinSamples THEN <<Span(start, total - start)>> ELSE <<>>
       [] OTHER -> <<>>
LidSpans(p, total) ==
  IF total = 0 THEN <<>> ELSE IF total <= p.window THEN <<Span(0, total)>>
  ELSE WinditSpans(p.window, p.hop, p.window, total) \o LidTail(p, total)

PlannedWindows(family, p, total) ==
  IF family = "lid" THEN PlannedLids(p, total) ELSE PlannedTags(p, total)
Spans(family, p, total) ==
  IF family = "lid" THEN LidSpans(p, total) ELSE TagSpans(p, total)

-----------------------------------------------------------------------------
(* Folding.                                                                *)

Cols == 1 .. Columns
Total(row) == MapThenSumSet(LAMBDA c : row[c], Cols)
Power(b, n) == FoldFunction(LAMBDA a, x : a * x, 1, [i \in 1 .. n |-> b])

\* The column a row puts first, the lowest of equals.
ArgMax(row) == Min({c \in Cols : \A d \in Cols : row[d] <= row[c]})

\* A fold of nothing: the accumulator before the first window.
EmptyFold == [count |-> 0, acc |-> [c \in Cols |-> 0], den |-> 1, first |-> <<>>]
HasAFiniteMaximum(row) == \E c \in Cols : row[c] > 0

\* Slip: the row is folded as it came.
RawMass(row) == 1
\* A row as a distribution: its mass goes to the denominator.
AsDistribution(row) == Total(row)

PushLid(f, pooling, row, weight) ==
  LET mass == AsDistribution(row)
      seed == IF pooling = "MeanLogProbability" THEN 1 ELSE 0
      acc == IF f.count = 0 THEN [c \in Cols |-> seed] ELSE f.acc
      folded ==
        CASE pooling = "MeanLogProbability" -> [c \in Cols |-> acc[c] * Power(row[c], weight)]
          [] pooling = "MeanProbability" -> [c \in Cols |-> acc[c] * mass + weight * row[c] * f.den]
          [] pooling = "Max" -> [c \in Cols |-> Max({acc[c] * mass, row[c] * f.den})]
          [] pooling = "Vote" -> [acc EXCEPT ![ArgMax(row)] = @ + weight]
  IN [count |-> f.count + 1, acc |-> folded,
      den |-> IF pooling \in {"MeanProbability", "Max"} THEN f.den * mass ELSE 1,
      first |-> IF f.count = 0 THEN row ELSE f.first]

\* A single window is handed back as it came; a pool that rules every
\* language out is refused.
FinishLid(f) ==
  CASE f.count = 0 -> [what |-> "EmptyWindows", row |-> <<>>]
    [] f.count = 1 -> [what |-> "ok", row |-> f.first]
    [] f.count > 1 /\ Total(f.acc) = 0 -> [what |-> "ZeroMassAggregate", row |-> <<>>]
    [] OTHER -> [what |-> "ok", row |-> f.acc]

\* Tagging: each class for itself, the mean or the highest of its confidences.
PushTag(f, pooling, row) ==
  [count |-> f.count + 1, den |-> 1, first |-> IF f.count = 0 THEN row ELSE f.first,
   acc |-> IF f.count = 0 THEN row
           ELSE [c \in Cols |-> IF pooling = "Mean" THEN f.acc[c] + row[c] ELSE Max({f.acc[c], row[c]})]]
FinishTag(f) ==
  IF f.count = 0 THEN [what |-> "EmptyWindows", row |-> <<>>] ELSE [what |-> "ok", row |-> f.acc]

-----------------------------------------------------------------------------
(* Ranking: a heap of the best k so far, its smallest on top.              *)

Above(row, c, d) == row[c] > row[d] \/ (row[c] = row[d] /\ c < d)
Offer(row, k, kept, c) ==
  IF Cardinality(kept) < k THEN kept \cup {c}
  ELSE LET smallest == CHOOSE d \in kept : \A e \in kept : e = d \/ Above(row, e, d)
       IN IF Above(row, c, smallest) THEN (kept \ {smallest}) \cup {c} ELSE kept
TopK(row, k) ==
  IF k = 0 THEN <<>>
  ELSE LET kept == FoldLeft(LAMBDA s, c : Offer(row, k, s, c), {}, [c \in Cols |-> c])
       IN SetToSortSeq(kept, LAMBDA c, d : Above(row, c, d))

-----------------------------------------------------------------------------
(* A call.                                                                 *)

Answered(what) == [what |-> what, row |-> <<>>, top |-> <<>>]

\* What a call looks at before it plans: the length, the samples, and whether
\* anything is asked for at all.
Entered ==
  LET spoilt == clip.bad \in 1 .. clip.total
  IN CASE clip.family = "lid" /\ clip.total < MinSamples -> "FrameCountOutOfRange"
       [] clip.family # "lid" /\ clip.total = 0 -> "EmptyAudio"
       [] clip.family = "lid" /\ spoilt -> "NonFiniteInput"
       [] clip.call = "long" /\ clip.k = 0 -> IF spoilt THEN "NonFiniteInput" ELSE "nothing asked"
       [] OTHER -> "ok"

PlanCall ==
  /\ told.what = "asked"
  /\ LET planned == PlannedWindows(clip.family, clip.plan, clip.total)
     IN CASE Entered \notin {"ok", "nothing asked"} ->
               told' = Answered(Entered) /\ spans' = spans
          [] Entered = "nothing asked" -> told' = Answered("ok") /\ spans' = spans
          [] Entered = "ok" /\ planned > clip.plan.max ->
               told' = Answered("TooManyWindows") /\ spans' = spans
          [] OTHER -> /\ told' = Answered("planned")
                      /\ spans' = Spans(clip.family, clip.plan, clip.total)
  /\ UNCHANGED <<clip, heard, fold>>

\* The samples a window is cut from, and what the model's own door says of it.
WindowHolds(s) ==
  CASE clip.family = "lid" /\ s.len \notin MinSamples .. MaxSamples -> "FrameCountOutOfRange"
    [] clip.family # "lid" /\ s.len > WindowSamples -> "AudioTooLong"
    [] clip.bad \in s.start + 1 .. s.start + s.len -> "NonFiniteInput"
    [] OTHER -> "ok"

\* A row the model may answer with is refused if a value is not finite (a zero
\* is minus infinity) or no log-probability.
SpoiltRow == [c \in Cols |-> -1]
RowHolds(row) ==
  IF row = SpoiltRow \/ (clip.family = "lid" /\ \E c \in Cols : row[c] = 0)
  THEN "NonFiniteOutput" ELSE "ok"

ScoreWindow ==
  /\ told.what = "planned" /\ Len(heard) < Len(spans)
  /\ LET s == spans[Len(heard) + 1]
     IN IF WindowHolds(s) # "ok"
        THEN told' = Answered(WindowHolds(s)) /\ UNCHANGED <<heard, fold>>
        ELSE \E row \in clip.rows :
               IF RowHolds(row) # "ok"
               THEN told' = Answered(RowHolds(row)) /\ UNCHANGED <<heard, fold>>
               ELSE /\ heard' = Append(heard, row)
                    /\ fold' = CASE clip.call = "windows" -> fold
                                 [] clip.family = "lid" -> PushLid(fold, clip.pooling, row, s.len)
                                 [] OTHER -> PushTag(fold, clip.pooling, row)
                    /\ UNCHANGED told
  /\ UNCHANGED <<clip, spans>>

FinishCall ==
  /\ told.what = "planned" /\ Len(heard) = Len(spans)
  /\ told' =
       IF clip.call = "windows" THEN Answered("ok")
       ELSE LET done == IF clip.family = "lid" THEN FinishLid(fold) ELSE FinishTag(fold)
            IN [what |-> done.what, row |-> done.row,
                top |-> IF done.what = "ok" THEN TopK(done.row, clip.k) ELSE <<>>]
  /\ UNCHANGED <<clip, spans, heard, fold>>

\* Rows a caller made up, aggregated without a model: zeros are allowed, and a
\* row of nothing but zeros is refused where it is folded.
AggregateWindows ==
  /\ told.what = "by hand"
  /\ IF Len(heard) < Len(spans)
     THEN /\ \E row \in clip.rows :
               IF HasAFiniteMaximum(row)
               THEN /\ heard' = Append(heard, row)
                    /\ fold' = PushLid(fold, clip.pooling, row, spans[Len(heard) + 1].len)
                    /\ UNCHANGED told
               ELSE /\ told' = Answered("UnnormalizableWindow")
                    /\ UNCHANGED <<heard, fold>>
     ELSE /\ LET done == FinishLid(fold)
             IN told' = [what |-> done.what, row |-> done.row,
                            top |-> IF done.what = "ok" THEN TopK(done.row, clip.k) ELSE <<>>]
          /\ UNCHANGED <<heard, fold>>
  /\ UNCHANGED <<clip, spans>>

\* A call whose plan the setters, or deserialization, let through.
Called(c) ==
  /\ Admissible(c.family, c.plan) /\ clip = c
  /\ spans = IF c.call = "hand" THEN [i \in 1 .. c.k |-> Span(0, (i % 2) + 1)] ELSE <<>>
  /\ heard = <<>> /\ fold = EmptyFold
  /\ told = Answered(IF c.call = "hand" THEN "by hand" ELSE "asked")

LongNext == PlanCall \/ ScoreWindow \/ FinishCall \/ AggregateWindows

-----------------------------------------------------------------------------
(* Properties.                                                             *)

\* What a plan leaves unheard, by its policy: nothing, less than a window worth
\* keeping, or less than a hop.
MayMiss ==
  CASE clip.total <= clip.plan.window -> 0
    [] clip.plan.tail.kind = "DropBelowMin" -> clip.plan.tail.min - 1
    [] clip.plan.tail.kind = "Partial" -> MinSamples - 1
    [] clip.plan.tail.kind = "Drop" -> clip.plan.hop - 1
    [] OTHER -> 0

\* The windows of a clip are as many as were counted before any was made, lie
\* in the clip in their order, are of a length their model takes, and leave
\* unheard no more than the policy says and only at the end; nothing is
\* answered before each of them was (WindowPlan::spans).
PlanCovers ==
  clip.call # "hand" /\ spans # <<>> =>
    LET within(i) == spans[i].start + 1 .. spans[i].start + spans[i].len
        missed == 1 .. clip.total \ UNION {within(i) : i \in DOMAIN spans}
    IN /\ Len(spans) = PlannedWindows(clip.family, clip.plan, clip.total)
       /\ Len(spans) <= clip.plan.max
       /\ \A i \in DOMAIN spans : /\ within(i) # {} /\ within(i) \subseteq 1 .. clip.total
                                  /\ WindowHolds(spans[i]) \in {"ok", "NonFiniteInput"}
       /\ \A i \in 1 .. Len(spans) - 1 : spans[i].start < spans[i + 1].start
       /\ Cardinality(missed) <= MayMiss
       /\ missed = clip.total - Cardinality(missed) + 1 .. clip.total
       /\ told.what = "ok" => Len(heard) = Len(spans)

\* The same rows with the scale of one of them changed.
Rescaled(i) == [heard EXCEPT ![i] = [c \in Cols |-> 2 * @[c]]]
PoolOf(rows) ==
  FoldLeft(LAMBDA f, i : PushLid(f, clip.pooling, rows[i], spans[i].len), EmptyFold,
           [i \in DOMAIN rows |-> i])
Proportional(r, s) == \A c, d \in Cols : r[c] * s[d] = r[d] * s[c]
Ranked(row, k) == SubSeq(SetToSortSeq(Cols, LAMBDA c, d : Above(row, c, d)), 1, Min({k, Columns}))

\* What the windows say is what is answered: a lone window's row as it came; of
\* several, the column all of them put first; and no row's own scale, which is
\* rounding and no evidence, moves the pool. Only a geometric pool of windows
\* that between them rule out every language has no answer (aggregate's doc).
ScoresAreFair ==
  clip.call # "windows" /\ heard # <<>> =>
    /\ told.what = "ZeroMassAggregate" =>
         /\ clip.pooling = "MeanLogProbability"
         /\ \A c \in Cols : \E i \in DOMAIN heard : heard[i][c] = 0
    /\ told.what = "ok" =>
         /\ Len(heard) = 1 => told.row = heard[1]
         /\ told.top = Ranked(told.row, clip.k)
         /\ \A c \in Cols :
              (\A i \in DOMAIN heard : ArgMax(heard[i]) = c) => Head(told.top) = c
         /\ clip.family = "lid" /\ Len(heard) > 1 =>
              /\ Total(told.row) > 0
              /\ \A i \in DOMAIN heard : Proportional(PoolOf(Rescaled(i)).acc, told.row)

\* A long clip is heard to its end and answered by what was heard of it.
ClipsAreHeard == PlanCovers /\ ScoresAreFair
=============================================================================
