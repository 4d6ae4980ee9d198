--------------------------- MODULE SharedDetector ---------------------------
(***************************************************************************)
(* One SileroVad under several calls of WhisperKit::transcribe.  A call    *)
(* reads the detector's failure count, has it hear stretches of the audio  *)
(* under the model's lock, reads the count again and fails if it moved.    *)
(* Frames that fail are told as silence; failing is told by the count.     *)
(***************************************************************************)
EXTENDS Naturals, Sequences, SequencesExt, FiniteSets

CONSTANTS
  Callers,
  FramesHeard,     \* bound: the frames of a stretch
  StretchesHeard   \* bound: the stretches a call has the detector hear

ASSUME DetectorAssumption ==
  FramesHeard \in Nat \ {0} /\ StretchesHeard \in Nat \ {0} /\ IsFiniteSet(Callers)

VARIABLES
  latch,   \* the generation, and whether an error is held
  holder,  \* the call that holds the model's lock, if any
  caller   \* what each call has done

detectorVars == <<latch, holder, caller>>

\* `flags` is what the stretch under way came to; `failed` and `overlapped`
\* are history: a frame of its own failed, or another's between its reads.
IdleCaller ==
  [at |-> "idle", generation |-> 0, stretches |-> 0, flags |-> <<>>,
   failed |-> FALSE, overlapped |-> FALSE, error |-> FALSE]

DetectorInit ==
  /\ latch = [generation |-> 0, hasError |-> FALSE]
  /\ holder = {}
  /\ caller = [c \in Callers |-> IdleCaller]

Snapshot(c) ==
  /\ caller[c].at = "idle"
  /\ caller' = [caller EXCEPT ![c].at = "cutting", ![c].generation = latch.generation]
  /\ UNCHANGED <<latch, holder>>

\* voice_activity: one logical stream, from a fresh recurrent state.
Hear(c) ==
  /\ caller[c].at = "cutting" /\ caller[c].stretches < StretchesHeard /\ holder = {}
  /\ holder' = {c}
  /\ caller' = [caller EXCEPT ![c].at = "hearing", ![c].stretches = @ + 1,
                  ![c].flags = <<>>]
  /\ UNCHANGED latch

FrameHeard(c, active) ==
  /\ caller[c].at = "hearing" /\ Len(caller[c].flags) < FramesHeard
  /\ caller' = [caller EXCEPT ![c].flags = Append(@, active)]
  /\ UNCHANGED <<latch, holder>>

\* The frame is told as silence, and the failure by the latch.
FrameFails(c) ==
  /\ caller[c].at = "hearing" /\ Len(caller[c].flags) < FramesHeard
  /\ latch' = [generation |-> latch.generation + 1, hasError |-> TRUE]
  /\ caller' = [d \in Callers |->
       IF d = c THEN [caller[c] EXCEPT !.flags = Append(@, FALSE), !.failed = TRUE]
       ELSE [caller[d] EXCEPT !.overlapped = @ \/ caller[d].at # "idle"]]
  /\ UNCHANGED holder

StretchHeard(c) ==
  /\ caller[c].at = "hearing" /\ caller[c].flags # <<>>
  /\ holder' = {}
  /\ caller' = [caller EXCEPT ![c].at = "cutting"]
  /\ UNCHANGED latch

\* The generation decides whether the call fails ...
Compare(c) ==
  /\ caller[c].at = "cutting"
  /\ caller' = [caller EXCEPT ![c].at =
       IF latch.generation # caller[c].generation THEN "misheard" ELSE "cut"]
  /\ UNCHANGED <<latch, holder>>

\* ... and the error, read under the lock another time, with what detail.
ReadError(c) ==
  /\ caller[c].at = "misheard"
  /\ caller' = [caller EXCEPT ![c].at = "failed", ![c].error = latch.hasError]
  /\ UNCHANGED <<latch, holder>>

DetectorNext ==
  \E c \in Callers :
    \/ Snapshot(c) \/ Hear(c) \/ FrameHeard(c, TRUE) \/ FrameHeard(c, FALSE)
    \/ FrameFails(c) \/ StretchHeard(c) \/ Compare(c) \/ ReadError(c)

-----------------------------------------------------------------------------
(* What a call makes of the flags. *)

\* Maximal runs of one flag, half-open, from frame 0 on.
RunsOf(flags, flag) ==
  {r \in (0..Len(flags)) \X (0..Len(flags)) :
     /\ r[1] < r[2] /\ \A k \in r[1] + 1 .. r[2] : flags[k] = flag
     /\ r[1] > 0 => flags[r[1]] # flag
     /\ r[2] < Len(flags) => flags[r[2] + 1] # flag}

\* active_frame_ranges: each step closes the range it leaves, or opens one.
ActiveFrameRanges(flags) ==
  LET step(acc, k) ==
        CASE flags[k] /\ acc.open = {} -> [acc EXCEPT !.open = {k - 1}]
          [] ~flags[k] /\ acc.open # {} ->
               [open |-> {}, ranges |-> Append(acc.ranges, <<CHOOSE s \in acc.open : TRUE, k - 1>>)]
          [] OTHER -> acc
      walked == FoldLeft(step, [open |-> {}, ranges |-> <<>>], [k \in 1..Len(flags) |-> k])
  IN  walked.ranges \o (IF walked.open = {} THEN <<>>
                        ELSE <<<<CHOOSE s \in walked.open : TRUE, Len(flags)>>>>)

\* find_longest_silence: the first of the longest runs of silence.
FindLongestSilence(flags) ==
  LET runs == RunsOf(flags, FALSE)
      longest == {r \in runs : \A other \in runs : other[2] - other[1] <= r[2] - r[1]}
  IN  {r \in longest : \A other \in longest : r[1] <= other[1]}

-----------------------------------------------------------------------------
\* Who hears a stretch holds the model, and holds it alone.
ModelIsHeldAlone == \A c \in Callers : (caller[c].at = "hearing") = (holder = {c})

\* No call goes on with chunks cut by a failed detector, however the reads of
\* others fall between; one that fails had a failure, its own or another's,
\* between its two reads, and finds an error to tell of.
FailuresSurface ==
  \A c \in Callers :
    /\ caller[c].at = "cut" => ~caller[c].failed
    /\ caller[c].at \in {"misheard", "failed"} => caller[c].failed \/ caller[c].overlapped
    /\ caller[c].at = "failed" => caller[c].error

\* The active ranges are the maximal runs of activity, in order.
RangesAreRuns ==
  \A c \in Callers :
    LET flags == caller[c].flags
    IN  /\ ToSet(ActiveFrameRanges(flags)) = RunsOf(flags, TRUE)
        /\ \A i \in 2..Len(ActiveFrameRanges(flags)) :
             ActiveFrameRanges(flags)[i - 1][2] < ActiveFrameRanges(flags)[i][1]
        /\ Cardinality(FindLongestSilence(flags)) = IF FALSE \in ToSet(flags) THEN 1 ELSE 0
=============================================================================
