-------------------------- MODULE AudioStream_proofs --------------------------
(***************************************************************************)
(* The streaming session for every frame size, every voice gate, every     *)
(* sequence of pushes and every pass, with callbacks and decodes that may  *)
(* panic at any assignment: its energies are the measured ones, its two    *)
(* marks move with their audio, its pushes tell the truth, and what it     *)
(* confirms keeps the promise of a settled transcript.                     *)
(***************************************************************************)
EXTENDS AudioStream, Selections_proofs

\* The state of a session, and where a push may be.
TextLengths == Texts \cup {0, WaitingText}
SessionState ==
  [currentFallbacks : Fallbacks \cup {0}, lastBufferSize : 0..MaxBuffer,
   lastConfirmedEnd : 0..MaxInstant, bufferEnergy : Seq(BOOLEAN),
   currentText : TextLengths, confirmed : Seq(Segment),
   unconfirmed : Seq(Segment), unconfirmedText : Seq(TextLengths)]

Shape ==
  /\ state \in SessionState
  /\ running \in SessionState
  /\ buffer \in 0..MaxBuffer
  /\ frames \in Seq(BOOLEAN)
  /\ at = "idle" \/ InCall
  /\ clip \in 0..MaxInstant
  /\ segments \in Seq(Segment)
  /\ returned \in {"none", "AwaitingAudio", "AwaitingVoice", "Transcribed",
                   "err", "panic"}

LEMMA FreshIsAState == FreshState \in SessionState
BY SizeAssumption, PassAssumption DEF FreshState, SessionState, TextLengths

LEMMA InitShape == Init => Shape
<1>1. <<>> \in Seq(BOOLEAN) /\ <<>> \in Seq(Segment)
  OBVIOUS
<1>2. QED
  BY <1>1, FreshIsAState, SizeAssumption, PassAssumption DEF Init, Shape, InCall

\* How many segments a pass confirms.
LEMMA SplitOfThePass ==
  ASSUME segments \in Seq(Segment)
  PROVE  /\ ConfirmCount \in 0..Len(segments)
         /\ Confirmed \in Seq(Segment) /\ Len(Confirmed) = ConfirmCount
         /\ \A i \in 1..ConfirmCount : Confirmed[i] = segments[i]
         /\ Remaining \in Seq(Segment)
         /\ Len(Remaining) = Len(segments) - ConfirmCount
         /\ \A i \in 1..(Len(segments) - ConfirmCount) :
              Remaining[i] = segments[i + ConfirmCount]
<1> DEFINE both == {0, Len(segments) - RequiredSegments}
<1>1. /\ both \in SUBSET Int /\ both # {} /\ Len(segments) \in Int
      /\ \A x \in both : x <= Len(segments)
  BY SizeAssumption
<1>2. Max(both) \in both /\ \A y \in both : Max(both) >= y
  <2> HIDE DEF both
  <2>1. QED
    BY <1>1, MaxOfBounded
<1>3. 0 \in both /\ ConfirmCount = Max(both)
  BY DEF ConfirmCount
<1> HIDE DEF both
<1>4. ConfirmCount \in 0..Len(segments)
  <2>1. Max(both) \in Int /\ Max(both) >= 0 /\ Max(both) <= Len(segments)
    BY <1>1, <1>2, <1>3
  <2>2. QED
    BY <1>3, <2>1
<1>5. /\ Confirmed = UpTo(segments, ConfirmCount)
      /\ Remaining = From(segments, ConfirmCount)
  BY DEF Confirmed, Remaining, UpTo, From
<1>6. QED
  BY <1>4, <1>5, SliceType

\* Three of the steps' parts: an assignment, an update, a restored state.
LEMMA ApplyShape ==
  ASSUME NEW new \in SessionState, NEW next, Apply(new, next)
  PROVE  /\ state' \in SessionState
         /\ at' \in {next, "idle"}
         /\ returned' \in {returned, "panic"}
BY DEF Apply

LEMMA UpdateShape ==
  ASSUME running \in SessionState, NEW text \in Texts, NEW fallbacks \in Fallbacks
  PROVE  /\ Stashed(running, text, fallbacks) \in SessionState
         /\ Retexted(running, text, fallbacks) \in SessionState
         /\ Recorded(running, text, fallbacks) \in SessionState
<1>1. Stashed(running, text, fallbacks) \in SessionState
  <2>1. Append(running.unconfirmedText, running.currentText) \in Seq(TextLengths)
    BY DEF SessionState
  <2>2. [running EXCEPT !.unconfirmedText = Append(@, running.currentText)] \in SessionState
    BY <2>1 DEF SessionState
  <2>3. QED
    BY <2>2 DEF Stashed
<1>2. text \in TextLengths
  BY DEF TextLengths
<1>3. Retexted(running, text, fallbacks) \in SessionState
  BY <1>1, <1>2 DEF Retexted, SessionState
<1>4. Recorded(running, text, fallbacks) \in SessionState
  BY <1>3 DEF Recorded, SessionState
<1>5. QED
  BY <1>1, <1>3, <1>4

LEMMA NextShape == Shape /\ [Next]_vars => Shape'
<1> SUFFICES ASSUME Shape, [Next]_vars PROVE Shape'
  OBVIOUS
<1> USE DEF Shape, InCall
<1>1. ASSUME NEW samples \in Pushes, NEW louder \in NewFrames(samples), Push(samples, louder)
      PROVE  Shape'
  <2> DEFINE energy == state.bufferEnergy \o
                         SubSeq(frames', Len(state.bufferEnergy) + 1, Len(frames'))
  <2>1. buffer' \in 0..MaxBuffer
    BY <1>1, SizeAssumption DEF Push
  <2>2. louder \in Seq(BOOLEAN) /\ frames' \in Seq(BOOLEAN)
    <3>1. louder \in Seq(BOOLEAN)
      <4> DEFINE n == (buffer + samples) \div FrameSamples - Len(frames)
      <4>1. n \in Int /\ louder \in [1..n -> BOOLEAN]
        BY <1>1, FrameAssumption, SizeAssumption DEF NewFrames
      <4> HIDE DEF n
      <4>2. CASE n >= 0
        BY <4>1, <4>2
      <4>3. CASE n < 0
        <5>1. 1..n = 1..0
          BY <4>1, <4>3
        <5>2. QED
          BY <4>1, <5>1
      <4>4. QED
        BY <4>1, <4>2, <4>3
    <3>2. QED
      BY <1>1, <3>1 DEF Push
  <2>3. energy \in Seq(BOOLEAN)
    <3>1. state.bufferEnergy \in Seq(BOOLEAN)
      BY DEF SessionState
    <3>2. QED
      BY <2>2, <3>1
  <2>4. [state EXCEPT !.bufferEnergy = energy] \in SessionState
    <3> HIDE DEF energy
    <3>1. QED
      BY <2>3 DEF SessionState
  <2>5. /\ state' \in SessionState /\ at' \in {"absorbed", "idle"}
        /\ returned' \in {returned, "panic"}
    BY <1>1, <2>4, ApplyShape DEF Push
  <2>6. QED
    BY <1>1, <2>1, <2>2, <2>5 DEF Push
<1>2. ASSUME NEW update \in {"AwaitingAudio", "AwaitingVoice"}, Wait(update) PROVE Shape'
  <2>1. [state EXCEPT !.currentText = WaitingText] \in SessionState
    BY DEF SessionState, TextLengths
  <2>2. state' \in SessionState
    BY <1>2, <2>1 DEF Wait
  <2>3. QED
    BY <1>2, <2>2 DEF Wait
<1>3. ASSUME Open PROVE Shape'
  <2>1. [state EXCEPT !.lastBufferSize = buffer] \in SessionState
    BY DEF SessionState
  <2>2. QED
    BY <1>3, <2>1, ApplyShape DEF Open
<1>4. ASSUME StartPass PROVE Shape'
  BY <1>4, FreshIsAState DEF StartPass, SessionState
<1>5. ASSUME NEW text \in Texts, NEW fallbacks \in Fallbacks, Progress(text, fallbacks)
      PROVE  Shape'
  BY <1>5, UpdateShape DEF Progress
<1>6. ASSUME NEW text \in Texts, NEW fallbacks \in Fallbacks, ProgressPanics(text, fallbacks)
      PROVE  Shape'
  BY <1>6, UpdateShape, FreshIsAState DEF ProgressPanics, Restore
<1>7. ASSUME NEW found \in PassSegments(clip, buffer), PassReturns(found) PROVE Shape'
  <2>1. found \in Seq(Segment)
    BY PassAssumption
  <2>2. QED
    BY <1>7, <2>1, FreshIsAState DEF PassReturns, Restore
<1>8. ASSUME NEW how \in {"err", "panic"}, PassFails(how) PROVE Shape'
  BY <1>8, FreshIsAState DEF PassFails, Restore
<1>9. ASSUME ClearText PROVE Shape'
  <2>1. [state EXCEPT !.currentText = 0] \in SessionState
    BY DEF SessionState, TextLengths
  <2>2. QED
    BY <1>9, <2>1, ApplyShape DEF ClearText
<1>10. ASSUME ClearUnconfirmedText PROVE Shape'
  <2>1. [state EXCEPT !.unconfirmedText = <<>>] \in SessionState
    <3>1. <<>> \in Seq(TextLengths)
      OBVIOUS
    <3>2. QED
      BY <3>1 DEF SessionState
  <2>2. QED
    BY <1>10, <2>1, ApplyShape DEF ClearUnconfirmedText
<1>11. ASSUME MoveWatermark PROVE Shape'
  <2>1. Last(Confirmed).end \in 0..MaxInstant
    <3>1. Confirmed # <<>> /\ Confirmed \in Seq(Segment)
      BY <1>11, SplitOfThePass DEF MoveWatermark, Advances
    <3>2. /\ Len(Confirmed) \in DOMAIN segments
          /\ Last(Confirmed) = segments[Len(Confirmed)]
      BY <3>1, SplitOfThePass DEF Last
    <3>3. segments[Len(Confirmed)] \in Segment
      BY <3>2
    <3>4. QED
      BY <3>2, <3>3 DEF Segment
  <2>2. [state EXCEPT !.lastConfirmedEnd = Last(Confirmed).end] \in SessionState
    BY <2>1 DEF SessionState
  <2>3. QED
    BY <1>11, <2>2, ApplyShape DEF MoveWatermark
<1>12. ASSUME Confirm PROVE Shape'
  <2>1. state.confirmed \o Confirmed \in Seq(Segment)
    BY SplitOfThePass DEF SessionState
  <2>2. [state EXCEPT !.confirmed = @ \o Confirmed] \in SessionState
    BY <2>1 DEF SessionState
  <2>3. QED
    BY <1>12, <2>2, ApplyShape DEF Confirm
<1>13. ASSUME KeepRemainder PROVE Shape'
  <2>1. [state EXCEPT !.unconfirmed = Remaining] \in SessionState
    BY SplitOfThePass DEF SessionState
  <2>2. QED
    BY <1>13, <2>1 DEF KeepRemainder
<1>14. CASE UNCHANGED vars
  BY <1>14 DEF vars
<1>15. QED
  BY <1>1, <1>2, <1>3, <1>4, <1>5, <1>6, <1>7, <1>8, <1>9, <1>10, <1>11,
     <1>12, <1>13, <1>14 DEF Next

-----------------------------------------------------------------------------
(* One assignment at a time: which action changes which field, and that the  *)
(* session's state is the same before and after it moves.                    *)

Published == Current'.bufferEnergy = Current.bufferEnergy /\ UNCHANGED <<buffer, frames>>
Passed == Current'.lastBufferSize = Current.lastBufferSize
Marked == Current'.lastConfirmedEnd = Current.lastConfirmedEnd
Settles == Current'.confirmed = Current.confirmed
Untouched == Published /\ Passed /\ Marked /\ Settles

LEMMA UpdateTouchesTexts ==
  ASSUME running \in SessionState, NEW text \in Texts, NEW fallbacks \in Fallbacks,
         NEW kept \in {Stashed(running, text, fallbacks), Retexted(running, text, fallbacks),
                       Recorded(running, text, fallbacks)}
  PROVE  /\ kept.bufferEnergy = running.bufferEnergy
         /\ kept.lastBufferSize = running.lastBufferSize
         /\ kept.lastConfirmedEnd = running.lastConfirmedEnd
         /\ kept.confirmed = running.confirmed
<1> DEFINE Alike(s) == /\ s \in SessionState
                       /\ s.bufferEnergy = running.bufferEnergy
                       /\ s.lastBufferSize = running.lastBufferSize
                       /\ s.lastConfirmedEnd = running.lastConfirmedEnd
                       /\ s.confirmed = running.confirmed
<1>1. Alike(Stashed(running, text, fallbacks))
  BY UpdateShape DEF Stashed, SessionState
<1>2. Alike(Retexted(running, text, fallbacks))
  BY <1>1, UpdateShape DEF Retexted, SessionState
<1>3. Alike(Recorded(running, text, fallbacks))
  BY <1>2, UpdateShape DEF Recorded, SessionState
<1>4. QED
  BY <1>1, <1>2, <1>3

LEMMA OneAssignmentAtATime ==
  ASSUME Shape, [Next]_vars
  PROVE  /\ Published \/ \E samples \in Pushes : \E louder \in NewFrames(samples) :
                           Push(samples, louder)
         /\ Passed \/ Open
         /\ Marked \/ MoveWatermark
         /\ Settles \/ Confirm
<1> USE DEF Published, Passed, Marked, Settles, Untouched, Current
<1>1. ASSUME NEW samples \in Pushes, NEW louder \in NewFrames(samples), Push(samples, louder)
      PROVE  Passed /\ Marked /\ Settles
  BY <1>1 DEF Push, Apply, Shape, SessionState
<1>2. ASSUME NEW update \in {"AwaitingAudio", "AwaitingVoice"}, Wait(update) PROVE Untouched
  BY <1>2 DEF Wait, Shape, SessionState
<1>3. ASSUME Open PROVE Published /\ Marked /\ Settles
  BY <1>3 DEF Open, Apply, Shape, SessionState
<1>4. ASSUME StartPass PROVE Untouched
  BY <1>4 DEF StartPass
<1>5. ASSUME NEW text \in Texts, NEW fallbacks \in Fallbacks, Progress(text, fallbacks)
      PROVE  Untouched
  BY <1>5, UpdateTouchesTexts DEF Progress, Shape
<1>6. ASSUME NEW text \in Texts, NEW fallbacks \in Fallbacks, ProgressPanics(text, fallbacks)
      PROVE  Untouched
  BY <1>6, UpdateTouchesTexts DEF ProgressPanics, Restore, Shape
<1>7. ASSUME NEW found \in PassSegments(clip, buffer), PassReturns(found) PROVE Untouched
  BY <1>7 DEF PassReturns, Restore
<1>8. ASSUME NEW how \in {"err", "panic"}, PassFails(how) PROVE Untouched
  BY <1>8 DEF PassFails, Restore
<1>9. ASSUME ClearText PROVE Untouched
  BY <1>9 DEF ClearText, Apply, Shape, SessionState
<1>10. ASSUME ClearUnconfirmedText PROVE Untouched
  BY <1>10 DEF ClearUnconfirmedText, Apply, Shape, SessionState
<1>11. ASSUME MoveWatermark PROVE Published /\ Passed /\ Settles
  BY <1>11 DEF MoveWatermark, Apply, Shape, SessionState
<1>12. ASSUME Confirm PROVE Published /\ Passed /\ Marked
  BY <1>12 DEF Confirm, Apply, Shape, SessionState
<1>13. ASSUME KeepRemainder PROVE Untouched
  BY <1>13 DEF KeepRemainder, Shape, SessionState
<1>14. CASE UNCHANGED vars
  BY <1>14 DEF vars
<1> USE <1>1, <1>2, <1>3, <1>4, <1>5, <1>6, <1>7, <1>8, <1>9, <1>10, <1>11,
        <1>12, <1>13, <1>14
<1> HIDE DEF Published, Passed, Marked, Settles
<1>15. CASE UNCHANGED vars
  BY <1>15 DEF Untouched
<1>16. CASE Next
  BY <1>16 DEF Next, Untouched
<1>17. QED
  BY <1>15, <1>16

\* The second part of a list of two parts.
LEMMA SequencesApart ==
  ASSUME NEW T, NEW a \in Seq(T), NEW b \in Seq(T)
  PROVE  SubSeq(a \o b, Len(a) + 1, Len(a \o b)) = b
<1> DEFINE whole == a \o b
           tail == From(whole, Len(a))
<1>1. /\ whole \in Seq(T) /\ Len(whole) = Len(a) + Len(b) /\ Len(a) \in 0..Len(whole)
      /\ \A k \in 1..Len(b) : whole[k + Len(a)] = b[k]
  OBVIOUS
<1> HIDE DEF whole
<1>2. /\ tail \in Seq(T) /\ Len(tail) = Len(whole) - Len(a)
      /\ \A k \in 1..(Len(whole) - Len(a)) : tail[k] = whole[k + Len(a)]
  BY <1>1, SliceType
<1>3. Len(whole) - Len(a) = Len(b)
  BY <1>1
<1> HIDE DEF tail
<1>4. tail = b
  <2>1. /\ tail \in Seq(T) /\ Len(tail) = Len(b)
        /\ \A k \in 1..Len(b) : tail[k] = b[k]
    BY <1>1, <1>2, <1>3
  <2>2. QED
    BY <2>1
<1>5. QED
  BY <1>4 DEF tail, whole, From

-----------------------------------------------------------------------------
(* The cursors. *)

Cursors ==
  /\ EnergyFollowsBuffer
  /\ Current.lastBufferSize <= buffer
  /\ at = "running" => state = FreshState

LEMMA InitCursors == Init => Cursors
<1> SUFFICES ASSUME Init PROVE Cursors
  OBVIOUS
<1>1. 0 \div FrameSamples = 0
  BY FrameAssumption
<1>2. QED
  BY <1>1 DEF Init, Cursors, EnergyFollowsBuffer, Current, FreshState

LEMMA NextCursors == Shape /\ Cursors /\ [Next]_vars => Cursors'
<1> SUFFICES ASSUME Shape, Cursors, [Next]_vars PROVE Cursors'
  OBVIOUS
<1>1. ASSUME NEW samples \in Pushes, NEW louder \in NewFrames(samples), Push(samples, louder)
      PROVE  EnergyFollowsBuffer'
  <2>1. frames \in Seq(BOOLEAN) /\ frames' \in Seq(BOOLEAN) /\ state \in SessionState
        /\ state.bufferEnergy = frames
    BY <1>1, NextShape DEF Shape, Cursors, EnergyFollowsBuffer, Current, Push
  <2>2. frames' = frames \o louder /\ Len(frames') = buffer' \div FrameSamples
    BY <1>1 DEF Push
  <2>3. frames \o SubSeq(frames', Len(frames) + 1, Len(frames')) = frames'
    <3>1. louder \in Seq(BOOLEAN)
      <4> DEFINE n == (buffer + samples) \div FrameSamples - Len(frames)
      <4>1. n \in Int /\ louder \in [1..n -> BOOLEAN]
        BY <1>1, <2>1, FrameAssumption, SizeAssumption DEF NewFrames, Shape
      <4> HIDE DEF n
      <4>2. CASE n >= 0
        BY <4>1, <4>2
      <4>3. CASE n < 0
        <5>1. 1..n = 1..0
          BY <4>1, <4>3
        <5>2. QED
          BY <4>1, <5>1
      <4>4. QED
        BY <4>1, <4>2, <4>3
    <3>2. SubSeq(frames \o louder, Len(frames) + 1, Len(frames \o louder)) = louder
      BY <2>1, <3>1, SequencesApart
    <3>3. QED
      BY <2>2, <3>2
  <2>4. state'.bufferEnergy = frames'
    BY <1>1, <2>1, <2>3 DEF Push, Apply, SessionState
  <2>5. at' # "running"
    BY <1>1 DEF Push, Apply
  <2>6. QED
    BY <2>2, <2>4, <2>5 DEF EnergyFollowsBuffer, Current
<1>2. EnergyFollowsBuffer'
  BY <1>1, OneAssignmentAtATime DEF Published, Cursors, EnergyFollowsBuffer
<1>3. Current'.lastBufferSize <= buffer'
  <2>1. ASSUME NEW samples \in Pushes, NEW louder \in NewFrames(samples), Push(samples, louder)
        PROVE  Current'.lastBufferSize <= buffer'
    <3>1. Current'.lastBufferSize = Current.lastBufferSize
      BY <2>1, OneAssignmentAtATime DEF Passed, Open, Push
    <3>2. Current.lastBufferSize \in Nat /\ buffer \in Nat /\ buffer' = buffer + samples
          /\ samples \in Nat
      BY <2>1, SizeAssumption DEF Push, Shape, Current, SessionState
    <3>3. QED
      BY <3>1, <3>2 DEF Cursors
  <2>2. ASSUME Open PROVE Current'.lastBufferSize <= buffer'
    BY <2>2 DEF Open, Apply, Current, Shape, SessionState
  <2>3. QED
    BY <2>1, <2>2, OneAssignmentAtATime DEF Published, Passed, Cursors
<1>4. at' = "running" => state' = FreshState
  BY DEF Next, Push, Apply, Wait, Open, StartPass, Progress, ProgressPanics, PassReturns,
         PassFails, ClearText, ClearUnconfirmedText, MoveWatermark, Confirm, KeepRemainder,
         vars, Cursors
<1>5. QED
  BY <1>2, <1>3, <1>4 DEF Cursors

-----------------------------------------------------------------------------
(* The marks: where a pass starts, what it confirms, and what lies behind.  *)

AfterPass == {"transcribed", "textCleared", "cleared", "watermarked", "confirmed"}
FromItsMark == {"running", "transcribed", "textCleared", "cleared"}

\* The frontier of the promise, as the refinement maps it.
Frontier == IF at = "watermarked" THEN clip ELSE Current.lastConfirmedEnd

\* Segments from an instant on, up to the rounding of their starts.
Follows(found, from) == \A i \in DOMAIN found : from <= found[i].start + Rounding

\* A pass starts at its mark and goes on from there, and the mark moves to the
\* end of the segments that are confirmed next.
Marks ==
  /\ at \in AfterPass => Follows(segments, clip)
  /\ at \in FromItsMark => Current.lastConfirmedEnd = clip
  /\ at \in {"watermarked", "confirmed"} =>
       /\ Confirmed # <<>>
       /\ state.lastConfirmedEnd = Last(Confirmed).end
       /\ state.lastConfirmedEnd > clip
  /\ at = "confirmed" =>
       \E earlier \in Seq(Segment) : state.confirmed = earlier \o Confirmed

LEMMA InitMarks == Init => Marks
BY DEF Init, Marks, AfterPass, FromItsMark

\* The confirmed part of a pass starts where the pass does.
LEMMA ConfirmedFacts ==
  ASSUME segments \in Seq(Segment), clip \in Nat, Follows(segments, clip)
  PROVE  /\ Confirmed \in Seq(Segment)
         /\ \A i \in 1..Len(Confirmed) : Confirmed[i].start + Rounding >= clip
<1> DEFINE n == ConfirmCount
<1>1. /\ n \in 0..Len(segments) /\ Confirmed \in Seq(Segment) /\ Len(Confirmed) = n
      /\ \A i \in 1..n : Confirmed[i] = segments[i]
  BY SplitOfThePass
<1> HIDE DEF n
<1>2. ASSUME NEW i \in 1..n PROVE segments[i].start + Rounding >= clip
  <2>1. i \in DOMAIN segments /\ segments[i] \in Segment
    BY <1>1
  <2>2. segments[i].start \in Nat
    BY <2>1 DEF Segment
  <2>3. QED
    BY <2>1, <2>2, PassAssumption DEF Follows
<1>3. QED
  BY <1>1, <1>2

\* Which step leads where.
LEMMA ControlFlow ==
  ASSUME [Next]_vars
  PROVE  /\ at' \in AfterPass =>
              \/ at \in AfterPass /\ UNCHANGED <<segments, clip>>
              \/ \E found \in PassSegments(clip, buffer) : PassReturns(found)
         /\ at' \in FromItsMark =>
              StartPass \/ (at \in FromItsMark /\ UNCHANGED clip /\ ~MoveWatermark)
         /\ at' = "watermarked" => MoveWatermark \/ UNCHANGED vars
         /\ at' = "confirmed" => Confirm \/ UNCHANGED vars
         /\ at = "watermarked" => Confirm \/ KeepRemainder \/ UNCHANGED vars
BY DEF Next, Push, Apply, Wait, Open, StartPass, Progress, ProgressPanics, PassReturns,
       PassFails, ClearText, ClearUnconfirmedText, MoveWatermark, Confirm, KeepRemainder,
       vars, AfterPass, FromItsMark

\* The session's state is one wherever it is.
LEMMA CurrentShape ==
  ASSUME Shape
  PROVE  /\ Current \in SessionState
         /\ Current.lastConfirmedEnd \in Nat /\ Current.lastBufferSize \in Nat
         /\ Current.confirmed \in Seq(Segment)
         /\ clip \in Nat /\ Frontier \in Nat
<1>1. Current \in SessionState /\ clip \in Nat
  BY PassAssumption DEF Shape, Current
<1>2. Current.lastConfirmedEnd \in Nat /\ Current.lastBufferSize \in Nat
      /\ Current.confirmed \in Seq(Segment)
  BY <1>1, SizeAssumption, PassAssumption DEF SessionState
<1>3. QED
  BY <1>1, <1>2 DEF Frontier

LEMMA FrontierNeverRetreats ==
  ASSUME Shape, Shape', Marks, [Next]_vars
  PROVE  Frontier' >= Frontier
<1>1. Current.lastConfirmedEnd \in Nat /\ clip \in Nat /\ Frontier \in Nat /\ Frontier' \in Nat
  <2>1. Frontier' \in Nat
    BY PassAssumption DEF Shape, SessionState, Frontier, Current
  <2>2. QED
    BY <2>1, CurrentShape
<1>2. CASE MoveWatermark
  <2>1. at = "cleared" /\ clip' = clip /\ Current = state /\ Frontier = state.lastConfirmedEnd
    BY <1>2 DEF MoveWatermark, Frontier, Current
  <2>2. state.lastConfirmedEnd = clip
    BY <2>1 DEF Marks, FromItsMark
  <2>3. CASE at' = "watermarked"
    BY <1>1, <2>1, <2>2, <2>3 DEF Frontier
  <2>4. CASE at' = "idle"
    <3>1. Frontier' = state'.lastConfirmedEnd
      BY <2>4 DEF Frontier, Current
    <3>2. state'.lastConfirmedEnd = Last(Confirmed).end /\ Last(Confirmed).end > state.lastConfirmedEnd
      BY <1>2 DEF MoveWatermark, Apply, Advances, Shape, SessionState
    <3>3. QED
      BY <1>1, <2>1, <3>1, <3>2
  <2>5. QED
    BY <1>2, <2>3, <2>4 DEF MoveWatermark, Apply
<1>3. CASE at = "watermarked" /\ ~MoveWatermark
  <2>1. CASE Confirm \/ KeepRemainder
    <3>1. at' # "watermarked" /\ Current = state /\ Frontier = clip
      BY <1>3, <2>1 DEF Confirm, KeepRemainder, Apply, Current, Frontier
    <3>2. Frontier' = Current'.lastConfirmedEnd /\ Current'.lastConfirmedEnd = state.lastConfirmedEnd
      BY <1>3, <3>1, OneAssignmentAtATime DEF Frontier, Marked
    <3>3. state.lastConfirmedEnd > clip
      BY <1>3 DEF Marks
    <3>4. QED
      BY <1>1, <3>1, <3>2, <3>3
  <2>2. CASE UNCHANGED vars
    BY <1>1, <2>2 DEF vars, Frontier, Current
  <2>3. QED
    BY <1>3, <2>1, <2>2, ControlFlow
<1>4. CASE at # "watermarked" /\ ~MoveWatermark
  <2>1. at' # "watermarked"
    BY <1>4, ControlFlow DEF vars
  <2>2. Current'.lastConfirmedEnd = Current.lastConfirmedEnd
    BY <1>4, OneAssignmentAtATime DEF Marked
  <2>3. QED
    BY <1>1, <1>4, <2>1, <2>2 DEF Frontier
<1>5. QED
  BY <1>2, <1>3, <1>4

LEMMA ConfirmStep ==
  ASSUME Shape, Shape', Marks, Confirm
  PROVE  /\ Current.confirmed = state.confirmed /\ Frontier = clip
         /\ Current'.confirmed = state.confirmed \o Confirmed
         /\ Confirmed \in Seq(Segment) /\ Confirmed # <<>>
         /\ Frontier' = Last(Confirmed).end /\ Current'.lastConfirmedEnd = Last(Confirmed).end
         /\ Follows(segments, clip) /\ UNCHANGED <<segments, clip>>
         /\ Last(Confirmed).end > clip
<1>1. /\ at = "watermarked" /\ at' \in {"confirmed", "idle"} /\ UNCHANGED <<segments, clip>>
      /\ state' = [state EXCEPT !.confirmed = @ \o Confirmed]
  BY DEF Confirm, Apply
<1>2. state'.confirmed = state.confirmed \o Confirmed
      /\ state'.lastConfirmedEnd = state.lastConfirmedEnd
  BY <1>1 DEF Shape, SessionState
<1>3. QED
  BY <1>1, <1>2, SplitOfThePass DEF Shape, Marks, AfterPass, Current, Frontier

LEMMA NextMarks == Shape /\ Shape' /\ Marks /\ [Next]_vars => Marks'
<1> SUFFICES ASSUME Shape, Shape', Marks, [Next]_vars PROVE Marks'
  OBVIOUS
<1>1. at' \in AfterPass => Follows(segments', clip')
  <2>1. ASSUME NEW found \in PassSegments(clip, buffer), PassReturns(found)
        PROVE  Follows(segments', clip')
    BY <2>1, PassAssumption DEF PassReturns, Follows, Shape
  <2>2. QED
    BY <2>1, ControlFlow DEF Marks, Follows
<1>2. at' \in FromItsMark => Current'.lastConfirmedEnd = clip'
  <2>1. CASE StartPass
    BY <2>1 DEF StartPass, Current
  <2>2. QED
    BY <2>1, ControlFlow, OneAssignmentAtATime DEF Marks, Marked
<1>3. at' \in {"watermarked", "confirmed"} =>
        /\ Confirmed' # <<>>
        /\ state'.lastConfirmedEnd = Last(Confirmed').end
        /\ state'.lastConfirmedEnd > clip'
  <2>1. CASE MoveWatermark
    <3>1. /\ at = "cleared" /\ Confirmed # <<>> /\ UNCHANGED <<segments, clip>>
          /\ Last(Confirmed).end > state.lastConfirmedEnd
          /\ state' = [state EXCEPT !.lastConfirmedEnd = Last(Confirmed).end]
      BY <2>1 DEF MoveWatermark, Advances, Apply
    <3>2. Confirmed' = Confirmed
      BY <3>1 DEF Confirmed, ConfirmCount
    <3>3. state'.lastConfirmedEnd = Last(Confirmed).end
      BY <3>1 DEF Shape, SessionState
    <3>4. state.lastConfirmedEnd = clip
      BY <3>1 DEF Marks, FromItsMark, Current
    <3>5. QED
      BY <3>1, <3>2, <3>3, <3>4
  <2>2. CASE Confirm
    <3>1. /\ at = "watermarked" /\ UNCHANGED <<segments, clip>>
          /\ state' = [state EXCEPT !.confirmed = @ \o Confirmed]
      BY <2>2 DEF Confirm, Apply
    <3>2. Confirmed' = Confirmed /\ state'.lastConfirmedEnd = state.lastConfirmedEnd
      BY <3>1 DEF Confirmed, ConfirmCount, Shape, SessionState
    <3>3. QED
      BY <3>1, <3>2 DEF Marks
  <2>3. CASE UNCHANGED vars
    BY <2>3 DEF vars, Marks, Confirmed, ConfirmCount
  <2>4. QED
    BY <2>1, <2>2, <2>3, ControlFlow
<1>4. at' = "confirmed" =>
        \E earlier \in Seq(Segment) : state'.confirmed = earlier \o Confirmed'
  <2>1. CASE Confirm
    <3>1. Confirmed' = Confirmed
      BY <2>1 DEF Confirm, Confirmed, ConfirmCount
    <3>2. state'.confirmed = state.confirmed \o Confirmed /\ state.confirmed \in Seq(Segment)
      BY <2>1 DEF Confirm, Apply, Shape, SessionState
    <3>3. QED
      BY <3>1, <3>2
  <2>2. CASE UNCHANGED vars
    BY <2>2 DEF vars, Marks, Confirmed, ConfirmCount
  <2>3. QED
    BY <2>1, <2>2, ControlFlow
<1>5. QED
  BY <1>1, <1>2, <1>3, <1>4 DEF Marks

IndInv == Shape /\ Cursors /\ Marks

LEMMA InitIndInv == Init => IndInv
BY InitShape, InitCursors, InitMarks DEF IndInv

LEMMA NextIndInv == IndInv /\ [Next]_vars => IndInv'
BY NextShape, NextCursors, NextMarks DEF IndInv

THEOREM Invariance == Spec => []IndInv
BY InitIndInv, NextIndInv, PTL DEF Spec

\* The types, and the energies that are the cursor of the next push.
THEOREM SessionsHold == Spec => []SessionHolds
<1>1. IndInv => SessionHolds
  <2> SUFFICES ASSUME IndInv PROVE SessionHolds
    OBVIOUS
  <2>1. state.lastBufferSize \in 0..buffer
    <3>1. CASE at = "running"
      <4>1. state.lastBufferSize = 0 /\ buffer \in Nat
        BY <3>1, SizeAssumption DEF IndInv, Shape, Cursors, FreshState
      <4>2. QED
        BY <4>1
    <3>2. CASE at # "running"
      <4>1. state.lastBufferSize \in 0..MaxBuffer /\ state.lastBufferSize <= buffer
            /\ buffer \in Nat
        BY <3>2, SizeAssumption DEF IndInv, Shape, Cursors, Current, SessionState
      <4>2. QED
        BY <4>1, SizeAssumption
    <3>3. QED
      BY <3>1, <3>2
  <2>2. TypeOK
    BY <2>1 DEF IndInv, Shape, TypeOK, SessionState, TextLengths
  <2>3. QED
    BY <2>2 DEF IndInv, Cursors, SessionHolds
<1>2. QED
  BY <1>1, Invariance, PTL

\* A pass has more than a second of audio that no pass had, whatever became of
\* the passes before it, and what is confirmed ends at the watermark.
THEOREM MarksMove == Spec => MarksMoveWithTheirAudio
<1>1. IndInv /\ [Next]_vars =>
        [Current'.lastBufferSize # Current.lastBufferSize
           => Current'.lastBufferSize > Current.lastBufferSize + Second]_vars
  <2> SUFFICES ASSUME IndInv, [Next]_vars, Current'.lastBufferSize # Current.lastBufferSize
               PROVE  Current'.lastBufferSize > Current.lastBufferSize + Second
    OBVIOUS
  <2>1. Open
    BY OneAssignmentAtATime DEF IndInv, Passed
  <2>2. Current.lastBufferSize = state.lastBufferSize /\ Current'.lastBufferSize = buffer
        /\ buffer - state.lastBufferSize > Second
    BY <2>1 DEF Open, Apply, Current, NewSamples, IndInv, Shape, SessionState
  <2>3. buffer \in Nat /\ state.lastBufferSize \in Nat /\ Second \in Nat
    BY SizeAssumption, FrameAssumption DEF IndInv, Shape, SessionState, Second
  <2>4. QED
    BY <2>2, <2>3
<1>2. IndInv /\ IndInv' /\ [Next]_vars =>
        [Current'.confirmed # Current.confirmed =>
           Current'.lastConfirmedEnd = Last(Current'.confirmed).end]_vars
  <2> SUFFICES ASSUME IndInv, IndInv', [Next]_vars, Current'.confirmed # Current.confirmed
               PROVE  Current'.lastConfirmedEnd = Last(Current'.confirmed).end
    OBVIOUS
  <2>1. Confirm
    BY OneAssignmentAtATime DEF IndInv, Settles
  <2> DEFINE old == state.confirmed
             new == Confirmed
  <2>2. /\ Current'.confirmed = old \o new /\ new \in Seq(Segment) /\ new # <<>>
        /\ Current'.lastConfirmedEnd = Last(new).end
    BY <2>1, ConfirmStep DEF IndInv
  <2>3. old \in Seq(Segment)
    BY DEF IndInv, Shape, SessionState
  <2> HIDE DEF old, new
  <2>4. Last(old \o new) = Last(new)
    BY <2>2, <2>3 DEF Last
  <2>5. QED
    BY <2>2, <2>4
<1>3. QED
  BY <1>1, <1>2, Invariance, PTL
     DEF Spec, MarksMoveWithTheirAudio, LastPassOnlyGrows, WatermarkIsConfirmed

\* The session keeps the promise of SettledTranscript, panics included: a run
\* of segments is only ever appended, from the frontier on up to the rounding of
\* its starts, and the frontier then moves on to its end; it never retreats.
THEOREM SessionKeepsThePromise == Spec => PromiseKept
<1>1. Init => Settled!STInit
  BY DEF Init, Settled!STInit, Current, FreshState
<1>2. IndInv /\ IndInv' /\ [Next]_vars =>
        [Settled!SettleRun \/ Settled!Close]_(Settled!stVars)
  <2> SUFFICES ASSUME IndInv, IndInv', [Next]_vars
               PROVE  Settled!SettleRun
    OBVIOUS
  <2> USE DEF IndInv
  <2> DEFINE old == Current.confirmed
             after == Current'.confirmed
  <2>1. Frontier' >= Frontier
    BY FrontierNeverRetreats
  <2>2. old \in Seq(Segment) /\ after \in Seq(Segment)
    BY DEF Shape, SessionState, Current
  <2>3. /\ Len(old) <= Len(after)
        /\ \A i \in 1..Len(old) : after[i] = old[i]
        /\ \A i \in (Len(old) + 1)..Len(after) : after[i].start + Rounding >= Frontier
        /\ after # old => Frontier' = after[Len(after)].end /\ Frontier' > Frontier
    <3>1. CASE after = old
      BY <2>2, <3>1
    <3>2. CASE after # old
      <4>1. Confirm
        BY <3>2, OneAssignmentAtATime DEF Settles
      <4> DEFINE new == Confirmed
      <4>2. /\ after = old \o new /\ new \in Seq(Segment) /\ new # <<>> /\ Frontier = clip
            /\ Follows(segments, clip) /\ Frontier' = Last(new).end /\ Last(new).end > clip
        BY <4>1, ConfirmStep
      <4>3. clip \in Nat
        BY CurrentShape
      <4>4. \A i \in 1..Len(new) : new[i].start + Rounding >= clip
        BY <4>2, <4>3, ConfirmedFacts DEF Shape
      <4> HIDE DEF new, old, after
      <4>5. /\ Len(after) = Len(old) + Len(new)
            /\ \A i \in 1..Len(old) : after[i] = old[i]
            /\ \A i \in (Len(old) + 1)..(Len(old) + Len(new)) :
                 i - Len(old) \in 1..Len(new) /\ after[i] = new[i - Len(old)]
        BY <2>2, <4>2, ConcatenationFacts
      <4>6. Len(old) \in Nat /\ Len(new) \in Nat /\ Len(new) >= 1
        BY <2>2, <4>2
      <4>7. \A i \in (Len(old) + 1)..Len(after) : after[i].start + Rounding >= clip
        BY <4>4, <4>5, <4>6
      <4>8. after[Len(after)] = Last(new)
        <5>1. /\ Len(after) \in (Len(old) + 1)..(Len(old) + Len(new))
              /\ Len(after) - Len(old) = Len(new)
          BY <4>5, <4>6
        <5>2. QED
          BY <4>5, <5>1 DEF Last
      <4>9. QED
        BY <4>2, <4>5, <4>6, <4>7, <4>8
    <3>3. QED
      BY <3>1, <3>2
  <2> HIDE DEF old, after
  <2>4. Settled!Extends(old, after)
    BY <2>3 DEF Settled!Extends
  <2>5. QED
    BY <2>1, <2>3, <2>4 DEF Settled!SettleRun, Frontier, old, after
<1>3. QED
  BY <1>1, <1>2, Invariance, PTL DEF Spec, PromiseKept, Settled!RunSpec

-----------------------------------------------------------------------------
(* What a push tells of the session it leaves.                              *)

\* How many whole frames some samples make.
LEMMA WholeFrames ==
  ASSUME NEW x \in Nat, NEW w \in Nat \ {0}
  PROVE  /\ x \div w \in Nat
         /\ (x \div w) * w <= x
         /\ \A m \in Nat : m * w <= x => m <= x \div w
<1> DEFINE q == x \div w
<1>1. q \in Nat /\ q * w <= x /\ (q + 1) * w > x
  OBVIOUS
<1> HIDE DEF q
<1>2. ASSUME NEW m \in Nat, m * w <= x, m >= q + 1 PROVE FALSE
  <2>1. m * w >= (q + 1) * w
    BY <1>1, <1>2
  <2>2. m * w \in Nat /\ (q + 1) * w \in Nat
    BY <1>1
  <2>3. QED
    BY <1>1, <1>2, <2>1, <2>2
<1>3. QED
  BY <1>1, <1>2 DEF q

\* Frames recorded since a mark that lies within the frame after the k-th.
LEMMA FramesSince ==
  ASSUME NEW w \in Nat \ {0}, NEW samples \in Nat, NEW passed \in 0..samples,
         NEW n \in Nat, n * w <= samples, NEW k \in 0..n, k * w >= passed
  PROVE  n - k <= (samples - passed) \div w
<1>1. samples - passed \in Nat /\ n - k \in Nat
  OBVIOUS
<1>2. (n - k) * w <= samples - passed
  <2>1. n * w = k * w + (n - k) * w
    <3> DEFINE d == n - k
    <3>1. d \in Nat /\ n = k + d /\ k \in Nat /\ w \in Nat
      OBVIOUS
    <3> HIDE DEF d
    <3>2. (k + d) * w = k * w + d * w
      BY <3>1
    <3>3. QED
      BY <3>1, <3>2 DEF d
  <2>2. n * w \in Nat /\ k * w \in Nat /\ (n - k) * w \in Nat
    BY <1>1
  <2> DEFINE x == n * w
             y == k * w
             z == (n - k) * w
  <2>3. x = y + z /\ x \in Nat /\ y \in Nat /\ z \in Nat /\ x <= samples /\ y >= passed
    BY <2>1, <2>2
  <2> HIDE DEF x, y, z
  <2>4. z <= samples - passed
    BY <2>3
  <2>5. QED
    BY <2>4 DEF z
<1>3. QED
  BY <1>1, <1>2, WholeFrames

\* The frames that are examined reach from the first one recorded since the
\* last pass, or the second one where the quotient falls short, to the last one
\* followed by a second.
LEMMA FramesExamined ==
  ASSUME NEW energy \in Seq(BOOLEAN), NEW samples \in 0..MaxBuffer, NEW passed \in 0..samples,
         Len(energy) = samples \div FrameSamples,
         ~IsVoiceDetected(energy, samples - passed),
         NEW i \in DOMAIN energy, energy[i]
  PROVE  \/ (i - 1) * FrameSamples <
              passed + (IF Considered(samples - passed) < (samples - passed) \div FrameSamples
                          THEN FrameSamples ELSE 0)
         \/ i > Len(energy) - FramesPerSecond
<1> DEFINE short == Considered(samples - passed) < (samples - passed) \div FrameSamples
<1> SUFFICES ASSUME ~((i - 1) * FrameSamples < passed + (IF short THEN FrameSamples ELSE 0)),
                    ~(i > Len(energy) - FramesPerSecond)
             PROVE  FALSE
  OBVIOUS
<1> DEFINE n == Len(energy)
           new == samples - passed
           fresh == Considered(new)
           recent == Min({fresh, n})
           most == Max({recent - FramesPerSecond, FramesPerSecond})
           checked == Min({recent, most})
           first == n - recent + 1
<1>1. /\ i \in 1..n /\ n \in Nat /\ FramesPerSecond \in Nat \ {0}
      /\ i <= n - FramesPerSecond
  BY FrameAssumption
<1>2. fresh \in Nat /\ fresh >= n - (i - 1)
  <2>1. /\ n * FrameSamples <= samples /\ FrameSamples \in Nat \ {0}
        /\ samples \in Nat /\ new \in 0..MaxBuffer /\ new \div FrameSamples \in Nat
    <3>1. samples \in Nat /\ new \in Nat /\ new <= MaxBuffer
      BY SizeAssumption
    <3>2. QED
      BY <3>1, SizeAssumption, FrameAssumption, WholeFrames
  <2>2. fresh \in Nat /\ new \div FrameSamples - 1 <= fresh
    BY <2>1, QuotientAssumption
  <2>3. \A k \in 0..n : k * FrameSamples >= passed => n - k <= new \div FrameSamples
    <3> HIDE DEF n
    <3>1. QED
      BY <1>1, <2>1, FramesSince
  <2> DEFINE whole == new \div FrameSamples
  <2>4. CASE short
    <3>1. (i - 1) * FrameSamples >= passed + FrameSamples
      BY <1>1, <2>1, <2>4
    <3>2. i - 2 \in 0..n /\ (i - 2) * FrameSamples >= passed
      <4>1. i # 1
        BY <2>1, <3>1
      <4>2. (i - 1) * FrameSamples = (i - 2) * FrameSamples + FrameSamples
        BY <1>1, <2>1, <4>1
      <4>3. (i - 2) * FrameSamples \in Int /\ i - 2 \in 0..n
        BY <1>1, <2>1, <4>1
      <4>4. QED
        BY <2>1, <3>1, <4>2, <4>3
    <3>3. n - (i - 2) <= whole /\ whole \in Nat /\ whole - 1 <= fresh
      BY <2>1, <2>2, <2>3, <3>2
    <3> HIDE DEF whole, fresh, n
    <3>4. QED
      BY <1>1, <2>2, <3>3
  <2>5. CASE ~short
    <3>1. (i - 1) * FrameSamples >= passed /\ i - 1 \in 0..n
      BY <1>1, <2>1, <2>5
    <3>2. n - (i - 1) <= whole /\ whole \in Nat
      BY <2>1, <2>3, <3>1
    <3>3. whole <= fresh
      <4>1. ~(fresh < whole)
        BY <2>5
      <4> HIDE DEF whole, fresh
      <4>2. QED
        BY <2>2, <3>2, <4>1
    <3> HIDE DEF whole, fresh, n
    <3>4. QED
      BY <1>1, <2>2, <3>2, <3>3
  <2>6. QED
    BY <2>4, <2>5
<1>3. ~(\E k \in first..(first + checked - 1) : energy[k])
  BY DEF IsVoiceDetected
<1> HIDE DEF fresh, n
<1>4. recent \in Nat /\ recent >= n - (i - 1) /\ recent <= n
  <2>1. {fresh, n} \in SUBSET Nat /\ {fresh, n} # {}
    BY <1>1, <1>2
  <2>2. recent \in {fresh, n} /\ \A y \in {fresh, n} : recent <= y
    BY <2>1, MinOfNaturals
  <2>3. QED
    BY <1>1, <1>2, <2>2
<1> HIDE DEF recent
<1>5. most \in Nat /\ most >= recent - FramesPerSecond
  <2> DEFINE both == {recent - FramesPerSecond, FramesPerSecond}
  <2>1. /\ both \in SUBSET Int /\ both # {} /\ recent + FramesPerSecond \in Int
        /\ \A x \in both : x <= recent + FramesPerSecond
        /\ recent - FramesPerSecond \in both /\ FramesPerSecond \in both
    BY <1>1, <1>4
  <2> HIDE DEF both
  <2>2. Max(both) \in both /\ \A y \in both : Max(both) >= y
    BY <2>1, MaxOfBounded
  <2>3. Max(both) \in Int /\ Max(both) >= FramesPerSecond
        /\ Max(both) >= recent - FramesPerSecond
    BY <2>1, <2>2
  <2>4. most = Max(both)
    BY DEF both
  <2>5. QED
    BY <1>1, <2>3, <2>4
<1> HIDE DEF most
<1>6. checked \in Nat /\ checked >= recent - FramesPerSecond
  <2>1. {recent, most} \in SUBSET Nat /\ {recent, most} # {}
    BY <1>4, <1>5
  <2>2. checked \in {recent, most}
    BY <2>1, MinOfNaturals
  <2>3. recent \in Nat /\ most \in Nat /\ FramesPerSecond \in Nat
    BY <1>1, <1>4, <1>5
  <2> HIDE DEF checked
  <2>4. QED
    BY <1>5, <2>2, <2>3
<1> HIDE DEF checked
<1>7. i \in first..(first + checked - 1)
  BY <1>1, <1>4, <1>6
<1>8. QED
  BY <1>3, <1>7

\* When the push keeps the remainder, what was to be confirmed is, or ends no
\* later than the pass began.
LEMMA ConfirmedIsShown ==
  ASSUME IndInv, KeepRemainder
  PROVE  IF Confirmed # <<>> /\ Last(Confirmed).end > clip
           THEN AlreadyConfirmed /\ state.lastConfirmedEnd = Last(Confirmed).end
           ELSE state.lastConfirmedEnd = clip
<1> USE DEF IndInv
<1>1. CASE at = "confirmed"
  <2>1. /\ Confirmed # <<>> /\ state.lastConfirmedEnd = Last(Confirmed).end
        /\ state.lastConfirmedEnd > clip
    BY <1>1 DEF Marks
  <2>2. PICK earlier \in Seq(Segment) : state.confirmed = earlier \o Confirmed
    BY <1>1 DEF Marks
  <2>3. Confirmed \in Seq(Segment) /\ Len(Confirmed) = ConfirmCount
    BY SplitOfThePass DEF Shape
  <2>4. AlreadyConfirmed
    <3> DEFINE new == Confirmed
               n == ConfirmCount
               m == Len(earlier)
               list == state.confirmed
    <3>1. new \in Seq(Segment) /\ Len(new) = n /\ list = earlier \o new
      BY <2>2, <2>3
    <3> HIDE DEF new, n, list
    <3>2. SubSeq(earlier \o new, m + 1, Len(earlier \o new)) = new
      BY <3>1, SequencesApart
    <3>3. m \in 0..(Len(list) - n) /\ m + n = Len(list) /\ SubSeq(list, m + 1, m + n) = new
      BY <3>1, <3>2
    <3>4. QED
      BY <3>3 DEF AlreadyConfirmed, new, n, list
  <2>5. QED
    BY <2>1, <2>4
<1>2. CASE at = "watermarked" /\ AlreadyConfirmed
  BY <1>2 DEF Marks
<1>3. CASE at = "cleared" /\ ~Advances
  BY <1>3 DEF Marks, FromItsMark, Current, Advances
<1>4. QED
  BY <1>1, <1>2, <1>3 DEF KeepRemainder

\* A push that says it heard no voice has not overlooked any, and one that says
\* it transcribed shows every segment of its pass.
THEOREM PushesTellTheTruth == Spec => []PushTellsTheTruth
<1>1. Init => PushTellsTheTruth
  BY DEF Init, PushTellsTheTruth, VoiceIsHeard, PassIsShown
<1>2. IndInv /\ IndInv' /\ PushTellsTheTruth /\ [Next]_vars => PushTellsTheTruth'
  <2> SUFFICES ASSUME IndInv, IndInv', PushTellsTheTruth, [Next]_vars
               PROVE  PushTellsTheTruth'
    OBVIOUS
  <2>1. CASE UNCHANGED vars
    BY <2>1 DEF vars, PushTellsTheTruth, VoiceIsHeard, PassIsShown,
                 Shortfall, NewSamples, Remaining, Confirmed, ConfirmCount, AlreadyConfirmed
  <2>2. at' = "idle" /\ returned' = "AwaitingVoice" => Wait("AwaitingVoice") \/ UNCHANGED vars
    BY DEF Next, Push, Apply, Wait, Open, StartPass, Progress, ProgressPanics, PassReturns,
           PassFails, ClearText, ClearUnconfirmedText, MoveWatermark, Confirm, KeepRemainder
  <2>3. at' = "idle" /\ returned' = "Transcribed" => KeepRemainder \/ UNCHANGED vars
    BY DEF Next, Push, Apply, Wait, Open, StartPass, Progress, ProgressPanics, PassReturns,
           PassFails, ClearText, ClearUnconfirmedText, MoveWatermark, Confirm, KeepRemainder
  <2>4. ASSUME Wait("AwaitingVoice"), returned' = "AwaitingVoice"
        PROVE  VoiceIsHeard'
    <3>1. /\ at = "absorbed" /\ frames' = frames
          /\ ~IsVoiceDetected(state.bufferEnergy, NewSamples)
      BY <2>4 DEF Wait
    <3>2. state'.lastBufferSize = state.lastBufferSize
      BY <2>4 DEF Wait, IndInv, Shape, SessionState
    <3>3. /\ frames \in Seq(BOOLEAN) /\ state.bufferEnergy = frames
          /\ Len(frames) = buffer \div FrameSamples
          /\ buffer \in 0..MaxBuffer /\ state.lastBufferSize \in 0..buffer
      BY <3>1, SizeAssumption
         DEF IndInv, Shape, SessionState, Cursors, EnergyFollowsBuffer, Current
    <3>4. ASSUME NEW i \in DOMAIN frames, frames[i]
          PROVE  \/ (i - 1) * FrameSamples < state.lastBufferSize + Shortfall
                 \/ i > Len(frames) - FramesPerSecond
      <4>1. ~IsVoiceDetected(frames, buffer - state.lastBufferSize)
        BY <3>1, <3>3 DEF NewSamples
      <4>2. QED
        BY <3>3, <3>4, <4>1, FramesExamined DEF Shortfall, NewSamples
    <3>5. Shortfall' = Shortfall
      BY <2>4, <3>2 DEF Shortfall, NewSamples, Wait
    <3>6. QED
      BY <3>1, <3>2, <3>4, <3>5 DEF VoiceIsHeard
  <2>5. ASSUME KeepRemainder PROVE PassIsShown'
    <3>1. /\ UNCHANGED <<segments, clip>> /\ state'.confirmed = state.confirmed
          /\ state'.unconfirmed = Remaining
          /\ state'.lastConfirmedEnd = state.lastConfirmedEnd
      BY <2>5 DEF KeepRemainder, IndInv, Shape, SessionState
    <3>2. Confirmed' = Confirmed /\ Remaining' = Remaining /\ AlreadyConfirmed' = AlreadyConfirmed
      BY <3>1 DEF Confirmed, Remaining, ConfirmCount, AlreadyConfirmed
    <3>3. QED
      BY <2>5, <3>1, <3>2, ConfirmedIsShown DEF PassIsShown
  <2>6. VoiceIsHeard'
    BY <2>1, <2>2, <2>4 DEF PushTellsTheTruth, VoiceIsHeard
  <2>7. PassIsShown'
    BY <2>1, <2>3, <2>5 DEF PushTellsTheTruth, PassIsShown
  <2>8. QED
    BY <2>6, <2>7 DEF PushTellsTheTruth
<1>3. QED
  BY <1>1, <1>2, Invariance, PTL DEF Spec
=============================================================================
