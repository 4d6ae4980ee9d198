----------------------------- MODULE AudioStream -----------------------------
(***************************************************************************)
(* AudioStreamTranscriber: samples are pushed, gated on a second of new    *)
(* audio and on voice, and the whole recording is transcribed from the     *)
(* last confirmed instant; all but the last RequiredSegments segments of   *)
(* the pass are confirmed.  Every assignment to the session's state fires  *)
(* the caller's state callback, which may panic; a pass runs with the      *)
(* state moved out of the transcriber, and may fail or panic too.          *)
(*                                                                         *)
(* Time is counted in samples throughout; a text is its length.            *)
(***************************************************************************)
EXTENDS Integers, Sequences, SequencesExt

CONSTANTS
  FrameSamples,        \* ENERGY_FRAME_SAMPLES
  FramesPerSecond,     \* ten in the code
  RequiredSegments,    \* required_segments_for_confirmation
  UseVad,              \* AudioStreamOptions::use_vad
  MayPanic,            \* whether callbacks and decodes may panic
  Pushes,              \* how many samples one push may bring
  Considered(_),       \* the frames a duration in f32 seconds comes to
  PassSegments(_, _),  \* the segments a pass from an instant may return
  Rounding,            \* how far a segment's start may be rounded down
  Texts,               \* text lengths a progress update may report
  Fallbacks,           \* fallback counts a progress update may report
  WaitingText,         \* the length of WAITING_FOR_SPEECH_TEXT
  MaxBuffer,           \* bound: samples in the recording
  MaxInstant,          \* bound: instants of segments
  MaxStashed           \* bound: superseded texts

ASSUME FrameAssumption ==
  FrameSamples \in Nat \ {0} /\ FramesPerSecond \in Nat \ {0}
ASSUME TextAssumption ==
  WaitingText \in Nat \ {0} /\ Texts \subseteq Nat /\ Fallbacks \subseteq Nat
ASSUME SizeAssumption ==
  RequiredSegments \in Nat /\ Pushes \subseteq Nat /\ MaxBuffer \in Nat

\* The quotient of two rounded numbers, rounded and then floored: a frame
\* short of 1.3 seconds, and a frame too many past 17 minutes of new audio.
ASSUME QuotientAssumption ==
  \A n \in 0..MaxBuffer :
    /\ Considered(n) \in Nat
    /\ n \div FrameSamples - 1 <= Considered(n)
    /\ Considered(n) <= n \div FrameSamples + 1

\* A segment is where it starts and where it ends.
Segment == [start : 0..MaxInstant, end : 0..MaxInstant]

\* A pass decodes from its instant on.  Its segments may have no length, end
\* before they start, overlap, or end past the recording.
ASSUME PassAssumption ==
  /\ Rounding \in Nat /\ MaxInstant \in Nat
  /\ \A from \in 0..MaxInstant, to \in 0..MaxBuffer : \A found \in PassSegments(from, to) :
       /\ found \in Seq(Segment)
       /\ \A i \in DOMAIN found : from <= found[i].start + Rounding

VARIABLES
  state,      \* the transcriber's StreamState
  running,    \* the state while a pass holds it in its mutex
  buffer,     \* samples pushed
  frames,     \* EnergyTracker: is the frame louder than the threshold
  at,         \* where push_samples is
  clip,       \* from where the pass in flight decodes
  segments,   \* what the pass returned
  returned    \* what the last push returned

vars == <<state, running, buffer, frames, at, clip, segments, returned>>

Second == FrameSamples * FramesPerSecond

FreshState ==
  [currentFallbacks |-> 0, lastBufferSize |-> 0, lastConfirmedEnd |-> 0,
   bufferEnergy |-> <<>>, currentText |-> 0, confirmed |-> <<>>,
   unconfirmed |-> <<>>, unconfirmedText |-> <<>>]

Init ==
  /\ state = FreshState
  /\ running = FreshState
  /\ buffer = 0
  /\ frames = <<>>
  /\ at = "idle"
  /\ clip = 0
  /\ segments = <<>>
  /\ returned = "none"

-----------------------------------------------------------------------------
\* `apply`: the state is assigned and the callback fires.  Either the call
\* goes on, or the callback panics and the unwind leaves push_samples.
Apply(new, next) ==
  /\ state' = new
  /\ \/ at' = next /\ UNCHANGED returned
     \/ MayPanic /\ at' = "idle" /\ returned' = "panic"

\* Slip: every push publishes the whole history again.
PushRepublishes(samples, louder) ==
  /\ at = "idle"
  /\ buffer + samples <= MaxBuffer
  /\ Len(frames \o louder) = (buffer + samples) \div FrameSamples
  /\ buffer' = buffer + samples
  /\ frames' = frames \o louder
  /\ Apply([state EXCEPT !.bufferEnergy = @ \o frames'], "absorbed")
  /\ UNCHANGED <<running, clip, segments>>

\* Samples arrive: whole frames are measured and their energies published.
Push(samples, louder) ==
  /\ at = "idle"
  /\ buffer + samples <= MaxBuffer
  /\ Len(frames \o louder) = (buffer + samples) \div FrameSamples
  /\ buffer' = buffer + samples
  /\ frames' = frames \o louder
  /\ Apply([state EXCEPT !.bufferEnergy =
              @ \o SubSeq(frames', Len(@) + 1, Len(frames'))], "absorbed")
  /\ UNCHANGED <<running, clip, segments>>

NewSamples == buffer - state.lastBufferSize

\* Slip: only the newest second is examined.
NewestSecondHeard(energy, newSamples) ==
  \E i \in 1..Len(energy) : i > Len(energy) - FramesPerSecond /\ energy[i]

\* is_voice_detected: the new frames but for their last second, and never
\* fewer than a second of them.
IsVoiceDetected(energy, newSamples) ==
  LET recent == Min({Considered(newSamples), Len(energy)})
      first == Len(energy) - recent + 1
      checked == Min({recent, Max({recent - FramesPerSecond, FramesPerSecond})})
  IN  \E i \in first..(first + checked - 1) : energy[i]

\* Too little new audio, or no voice in it: the placeholder is shown if
\* nothing else is, and the push returns.
Wait(update) ==
  /\ at = "absorbed"
  /\ IF update = "AwaitingAudio"
       THEN NewSamples <= Second
       ELSE /\ NewSamples > Second /\ UseVad
            /\ ~IsVoiceDetected(state.bufferEnergy, NewSamples)
  /\ at' = "idle"
  /\ \/ /\ state.currentText = 0
        /\ state' = [state EXCEPT !.currentText = WaitingText]
        /\ returned' = update \/ (MayPanic /\ returned' = "panic")
     \/ /\ state.currentText # 0
        /\ UNCHANGED state
        /\ returned' = update
  /\ UNCHANGED <<running, buffer, frames, clip, segments>>

\* The audio up to here counts as transcribed, before it is.
Open ==
  /\ at = "absorbed"
  /\ NewSamples > Second
  /\ UseVad => IsVoiceDetected(state.bufferEnergy, NewSamples)
  /\ Apply([state EXCEPT !.lastBufferSize = buffer], "opened")
  /\ UNCHANGED <<running, buffer, frames, clip, segments>>

-----------------------------------------------------------------------------
(* transcribe_audio_samples: the state is in the pass's mutex. *)

\* Slip: the pass decodes the recording from its start.
StartFromZero ==
  /\ at = "opened"
  /\ clip' = 0
  /\ running' = state
  /\ state' = FreshState
  /\ at' = "running"
  /\ UNCHANGED <<buffer, frames, segments, returned>>

StartPass ==
  /\ at = "opened"
  /\ clip' = state.lastConfirmedEnd
  /\ running' = state
  /\ state' = FreshState
  /\ at' = "running"
  /\ UNCHANGED <<buffer, frames, segments, returned>>

\* The three assignments of on_progress_callback, in order: a shorter text at
\* the same fallback count supersedes the current one.
Stashes(s, text, fallbacks) ==
  text < s.currentText /\ fallbacks = s.currentFallbacks
Stashed(s, text, fallbacks) ==
  IF Stashes(s, text, fallbacks)
    THEN [s EXCEPT !.unconfirmedText = Append(@, s.currentText)] ELSE s
Retexted(s, text, fallbacks) ==
  [Stashed(s, text, fallbacks) EXCEPT !.currentText = text]
Recorded(s, text, fallbacks) ==
  [Retexted(s, text, fallbacks) EXCEPT !.currentFallbacks = fallbacks]

Progress(text, fallbacks) ==
  /\ at = "running"
  /\ Len(Stashed(running, text, fallbacks).unconfirmedText) <= MaxStashed
  /\ running' = Recorded(running, text, fallbacks)
  /\ UNCHANGED <<state, buffer, frames, at, clip, segments, returned>>

\* RestoreOnDrop: whatever ends the pass, the state moves back.
Restore(kept) ==
  /\ state' = kept
  /\ running' = FreshState

\* The state callback panics at one of the assignments of a progress update.
ProgressPanics(text, fallbacks) ==
  /\ at = "running" /\ MayPanic
  /\ Len(Stashed(running, text, fallbacks).unconfirmedText) <= MaxStashed
  /\ \E reached \in {Stashed(running, text, fallbacks),
                     Retexted(running, text, fallbacks),
                     Recorded(running, text, fallbacks)} : Restore(reached)
  /\ at' = "idle"
  /\ returned' = "panic"
  /\ UNCHANGED <<buffer, frames, clip, segments>>

PassReturns(found) ==
  /\ at = "running"
  /\ Restore(running)
  /\ segments' = found
  /\ at' = "transcribed"
  /\ UNCHANGED <<buffer, frames, clip, returned>>

\* The decode fails, or panics: nothing else is assigned.
PassFails(how) ==
  /\ at = "running"
  /\ how = "panic" => MayPanic
  /\ Restore(running)
  /\ at' = "idle"
  /\ returned' = how
  /\ UNCHANGED <<buffer, frames, clip, segments>>

-----------------------------------------------------------------------------
(* What push_samples does with the segments. *)

ClearText ==
  /\ at = "transcribed"
  /\ Apply([state EXCEPT !.currentText = 0], "textCleared")
  /\ UNCHANGED <<running, buffer, frames, clip, segments>>

ClearUnconfirmedText ==
  /\ at = "textCleared"
  /\ Apply([state EXCEPT !.unconfirmedText = <<>>], "cleared")
  /\ UNCHANGED <<running, buffer, frames, clip, segments>>

ConfirmCount == Max({0, Len(segments) - RequiredSegments})
Confirmed == SubSeq(segments, 1, ConfirmCount)
Remaining == SubSeq(segments, ConfirmCount + 1, Len(segments))
Advances ==
  Confirmed # <<>> /\ Last(Confirmed).end > state.lastConfirmedEnd

\* Slip: the watermark passes the segments that stay unconfirmed.
MoveWatermarkPastThePass ==
  /\ at = "cleared"
  /\ Advances
  /\ Apply([state EXCEPT !.lastConfirmedEnd = Last(segments).end], "watermarked")
  /\ UNCHANGED <<running, buffer, frames, clip, segments>>

MoveWatermark ==
  /\ at = "cleared"
  /\ Advances
  /\ Apply([state EXCEPT !.lastConfirmedEnd = Last(Confirmed).end], "watermarked")
  /\ UNCHANGED <<running, buffer, frames, clip, segments>>

\* A run that is already there is not confirmed again.
AlreadyConfirmed ==
  \E i \in 0..(Len(state.confirmed) - ConfirmCount) :
    SubSeq(state.confirmed, i + 1, i + ConfirmCount) = Confirmed

Confirm ==
  /\ at = "watermarked"
  /\ ~AlreadyConfirmed
  /\ Apply([state EXCEPT !.confirmed = @ \o Confirmed], "confirmed")
  /\ UNCHANGED <<running, buffer, frames, clip, segments>>

\* The last assignment; the push returns.
KeepRemainder ==
  /\ \/ at = "confirmed"
     \/ at = "watermarked" /\ AlreadyConfirmed
     \/ at = "cleared" /\ ~Advances
  /\ state' = [state EXCEPT !.unconfirmed = Remaining]
  /\ at' = "idle"
  /\ \/ returned' = "Transcribed"
     \/ MayPanic /\ returned' = "panic"
  /\ UNCHANGED <<running, buffer, frames, clip, segments>>

-----------------------------------------------------------------------------
\* EnergyTracker::absorb: every frame completed by the new samples is measured,
\* against the frames before it; the very first has none and counts as silent.
NewFrames(samples) ==
  {louder \in [1..((buffer + samples) \div FrameSamples - Len(frames)) -> BOOLEAN] :
     frames = <<>> /\ louder # <<>> => ~louder[1]}

Next ==
  \/ \E samples \in Pushes : \E louder \in NewFrames(samples) :
       Push(samples, louder)
  \/ \E update \in {"AwaitingAudio", "AwaitingVoice"} : Wait(update)
  \/ Open
  \/ StartPass
  \/ \E text \in Texts, fallbacks \in Fallbacks :
       Progress(text, fallbacks) \/ ProgressPanics(text, fallbacks)
  \/ \E found \in PassSegments(clip, buffer) : PassReturns(found)
  \/ \E how \in {"err", "panic"} : PassFails(how)
  \/ ClearText
  \/ ClearUnconfirmedText
  \/ MoveWatermark
  \/ Confirm
  \/ KeepRemainder

Spec == Init /\ [][Next]_vars

-----------------------------------------------------------------------------
InCall == at \in {"absorbed", "opened", "running", "transcribed", "textCleared",
                  "cleared", "watermarked", "confirmed"}

\* The session's state, wherever it is kept.
Current == IF at = "running" THEN running ELSE state

\* Texts, counts and positions are what their fields can hold.
TypeOK ==
  /\ at = "idle" \/ InCall
  /\ buffer \in 0..MaxBuffer
  /\ state.lastBufferSize \in 0..buffer
  /\ frames \in Seq(BOOLEAN)
  /\ state.currentText \in Texts \cup {0, WaitingText}
  /\ state.currentFallbacks \in Fallbacks \cup {0}
  /\ returned \in {"none", "AwaitingAudio", "AwaitingVoice", "Transcribed",
                   "err", "panic"}

\* The published energies are the measured ones, frame for frame, whatever
\* became of earlier passes: the state's own list is the cursor from which the
\* next push appends, so one lost or repeated frame would shift the voice gate
\* for the rest of the session.
EnergyFollowsBuffer ==
  /\ Len(frames) = buffer \div FrameSamples
  /\ Current.bufferEnergy = frames

\* How far the frames considered fall short of the new samples.
Shortfall == IF Considered(NewSamples) < NewSamples \div FrameSamples THEN FrameSamples ELSE 0

\* A push that found no voice has not overlooked any: a loud frame recorded
\* since the last pass, and followed by a second of audio, is noticed.  Where
\* the quotient falls short, one that begins less than a frame after the last
\* pass is not.
VoiceIsHeard ==
  at = "idle" /\ returned = "AwaitingVoice" =>
    \A i \in DOMAIN frames :
      frames[i] => \/ (i - 1) * FrameSamples < state.lastBufferSize + Shortfall
                   \/ i > Len(frames) - FramesPerSecond

\* A pass is only made of more than a second of audio no pass has had, and no
\* failure hands the same audio to two passes.
LastPassOnlyGrows ==
  [][Current'.lastBufferSize # Current.lastBufferSize
       => Current'.lastBufferSize > Current.lastBufferSize + Second]_vars

\* Whatever is confirmed ends where the watermark is: no audio lies between the
\* confirmed list and the next pass, unless a callback panicked between the two
\* assignments, and then the next thing to be confirmed restores it.
WatermarkIsConfirmed ==
  [][Current'.confirmed # Current.confirmed =>
       Current'.lastConfirmedEnd = Last(Current'.confirmed).end]_vars

\* A finished pass shows all of its segments, the last of them unconfirmed and
\* the others in the confirmed list with the watermark at their end; only those
\* that end no later than the pass began are in neither list, and then the
\* watermark stays, so that the next pass decodes their audio again.
PassIsShown ==
  at = "idle" /\ returned = "Transcribed" =>
    /\ state.unconfirmed = Remaining
    /\ IF Confirmed # <<>> /\ Last(Confirmed).end > clip
         THEN AlreadyConfirmed /\ state.lastConfirmedEnd = Last(Confirmed).end
         ELSE state.lastConfirmedEnd = clip

\* The session's cursors hold: its types, and the list of energies that is the
\* cursor of the next push, whatever became of earlier passes.
SessionHolds == TypeOK /\ EnergyFollowsBuffer

\* What a push returns is the truth about the session it leaves: no voice it
\* did not hear, and no segment it does not show.
PushTellsTheTruth == VoiceIsHeard /\ PassIsShown

\* The two marks of a session, the audio passed and the audio confirmed, move
\* by whole passes and with what they stand for.
MarksMoveWithTheirAudio == LastPassOnlyGrows /\ WatermarkIsConfirmed

\* The session keeps the promise of a transcript settled by runs, panics
\* included: the watermark and the confirmed list are two assignments, and until
\* the second the promise's frontier is still where the pass started.
Settled == INSTANCE SettledTranscript WITH
  Slack <- Rounding,
  settled <- Current.confirmed,
  frontier <- IF at = "watermarked" THEN clip
              ELSE Current.lastConfirmedEnd,
  closed <- FALSE
PromiseKept == Settled!RunSpec
=============================================================================
