---------------------------- MODULE MCWhisperKit ----------------------------
(***************************************************************************)
(* A call of transcribe, or one of the parts a kit shares between calls:   *)
(* the manager it was built with, its detector under several calls, the    *)
(* stream a detector may be driven as, and a batch.                        *)
(***************************************************************************)
EXTENDS Transcribe, ModelManager, SharedDetector, VadStream, BatchPool

\* A call has seven samples and a window of four.
Plain ==
  [vad |-> FALSE, clips |-> <<>>, dropBlank |-> TRUE, wordTimestamps |-> FALSE,
   aligns |-> TRUE, detects |-> FALSE, maxWindowSeek |-> {}, fallbacks |-> 0,
   skipsSilence |-> FALSE]

\* One matter each, so that every one meets every outcome of an attempt.
MCOptions ==
  {[Plain EXCEPT !.clips = clips] : clips \in {<<-1>>, <<2, 3, 1, 6>>, <<1, 2, 5, 12>>}}
  \cup {[Plain EXCEPT !.vad = TRUE, !.clips = clips] : clips \in {<<1>>, <<0, 1, 3, 8>>}}
  \cup {[Plain EXCEPT !.detects = TRUE, !.fallbacks = 1, !.clips = <<2>>],
        [Plain EXCEPT !.wordTimestamps = TRUE, !.clips = <<0, 1, 4>>],
        [Plain EXCEPT !.wordTimestamps = TRUE, !.dropBlank = FALSE, !.skipsSilence = TRUE],
        [Plain EXCEPT !.maxWindowSeek = {0}, !.clips = <<4>>, !.skipsSilence = TRUE]}

WholeOptions == {[Plain EXCEPT !.vad = TRUE]}

Calm == [probe |-> "failed", predicted |-> {}, drew |-> FALSE, stopped |-> FALSE,
         swallowed |-> FALSE, result |-> "kept"]
MCOutcomes ==
  {Calm,
   [Calm EXCEPT !.drew = TRUE, !.predicted = {"en"}, !.probe = "en", !.result = "error"],
   [Calm EXCEPT !.stopped = TRUE, !.probe = "es", !.result = "fallback"],
   [Calm EXCEPT !.swallowed = TRUE, !.predicted = {"es"}, !.probe = "masked"]}
CalmOutcomes == {Calm}

MCLanguages == {"en", "es"}

VARIABLE part  \* the part of the kit that runs
kitVars == <<vars, managerVars, detectorVars, vadVars, batchVars>>

\* What the call and the batch are where they do not run: over.
NoCallMade ==
  /\ options = [Plain EXCEPT !.clips = <<-1>>] /\ at = "end" /\ returned = {[ok |-> FALSE]}
  /\ cut = [clip |-> 0, start |-> 0, chunks |-> <<>>] /\ misheard = FALSE /\ chunk = 1
  /\ task = Idle /\ sink = ObservedClean /\ schedule = [known |-> TRUE, workers |-> <<>>]
  /\ dropped = {} /\ results = <<>> /\ heard = {} /\ lost = {}
  /\ seen = [drew |-> FALSE, stopped |-> FALSE, swallowed |-> FALSE, language |-> {}]
  /\ kept = [probe |-> {}, all |-> <<>>]
NoBatchMade ==
  /\ audios = 0 /\ batch = 0 /\ worker = [i \in {} |-> Unspawned] /\ answers = <<>>
  /\ pool = "returned" /\ drawn = [attempts |-> 0, streams |-> {}]

MCInit ==
  /\ part \in {"call", "manager", "catalog", "detector", "stream", "batch"}
  /\ ManagerInit /\ DetectorInit /\ VadInit
  /\ IF part = "call" THEN Init ELSE NoCallMade
  /\ IF part = "batch" THEN BatchInit ELSE NoBatchMade

CallPart == part = "call" /\ Next /\ UNCHANGED <<managerVars, detectorVars, vadVars, batchVars>>
ManagerPart == part = "manager" /\ ManagerNext /\ UNCHANGED <<vars, detectorVars, vadVars, batchVars>>
DetectorPart == part = "detector" /\ DetectorNext /\ UNCHANGED <<vars, managerVars, vadVars, batchVars>>
StreamPart == part = "stream" /\ VadNext /\ UNCHANGED <<vars, managerVars, detectorVars, batchVars>>
BatchPart == part = "batch" /\ BatchNext /\ UNCHANGED <<vars, managerVars, detectorVars, vadVars>>

MCNext == (CallPart \/ ManagerPart \/ DetectorPart \/ StreamPart \/ BatchPart) /\ UNCHANGED part
MCSpec == MCInit /\ [][MCNext]_<<kitVars, part>> /\ Fairness /\ BatchFairness
\* A call alone, with nothing else of the kit.
CallSpec == (part = "call" /\ MCInit) /\ [][CallPart /\ UNCHANGED part]_<<kitVars, part>>

MCCatalog ==
  << [identifiers |-> <<<<"a">>, <<"a", "b">>>>, supported |-> <<1, 2>>],
     [identifiers |-> <<<<"a", "b", "a">>, <<"b">>>>, supported |-> <<2, 3>>],
     [identifiers |-> <<<<"b">>, <<"a", "b">>>>, supported |-> <<2, 3, 4, 1>>] >>

\* What a kit shares and runs: the manager that loads its models, a batch of its
\* tasks, and the detector under several of its calls.
KitIsSound == ManagerHolds /\ BatchHolds /\ ModelIsHeldAlone /\ FailuresSurface

\* What is computed step by step over a sequence: what patterns and devices
\* name, the runs of a detector's flags, the frames of a stream.
WalksAreExact ==
  (part = "catalog" => CatalogHolds) /\ RangesAreRuns /\ FramesFollowTheStream

\* Whatever the clips, the slices and the failures, a call comes to its end, or
\* to a window it decodes for ever whose last time is its start; a batch returns
\* or tells a panic on.
EveryCallEnds == CallReturns /\ BatchReturns
=============================================================================
