--------------------------- MODULE AgreementDriver ---------------------------
(***************************************************************************)
(* LocalAgreementTranscriber: the driver that owns a LocalAgreement engine *)
(* and the recording.  A push appends samples and then decodes the         *)
(* recording from its start once per whole stride it has not yet           *)
(* transcribed.  A failing decode ends the call at once; the recording and *)
(* the strides already ingested stay, and the next push tries again.       *)
(***************************************************************************)
EXTENDS LocalAgreement

CONSTANTS
  StrideSamples,    \* STRIDE_SAMPLES
  Pushes,           \* how many samples one push may bring
  MaxBuffer         \* bound: the length of the recording

ASSUME StrideAssumption == StrideSamples \in Nat \ {0}
ASSUME PushAssumption == Pushes \subseteq Nat
ASSUME BufferAssumption == MaxBuffer \in Nat

VARIABLES
  buffer,        \* samples pushed so far
  transcribed,   \* transcribed_samples: the end of the last ingested stride
  call,          \* what push_samples is doing: idle, looping, decoding
  request,       \* the options and end of the decode in flight or last made
  returned       \* what the last push returned: none, ok or err

driverVars == <<buffer, transcribed, call, request, returned>>
allVars == <<vars, driverVars>>

\* decoding_options_for_next: decode from the watermark, with the holdback as
\* a forced prefill (and the prefill prompt on when there is one).
DecodingOptionsForNext ==
  [clip |-> lastAgreedSeconds,
   prefix |-> lastAgreedWords,
   usePrefillPrompt |-> lastAgreedWords # <<>>]

NoRequest == [end |-> 0, options |-> [clip |-> 0, prefix |-> <<>>,
                                      usePrefillPrompt |-> FALSE]]

DriverInit ==
  /\ Init
  /\ buffer = 0
  /\ transcribed = 0
  /\ call = "idle"
  /\ request = NoRequest
  /\ returned = "none"

\* The caller hands in samples; push_samples starts its loop.
Push(samples) ==
  /\ call = "idle" /\ ~finalized
  /\ buffer + samples <= MaxBuffer
  /\ buffer' = buffer + samples
  /\ call' = "looping"
  /\ returned' = "none"
  /\ UNCHANGED <<vars, transcribed, request>>

StridePending == buffer - transcribed >= StrideSamples

\* The loop takes the next whole stride and decodes up to its end.
StartStride ==
  /\ call = "looping"
  /\ StridePending
  /\ request' = [end |-> transcribed + StrideSamples,
                 options |-> DecodingOptionsForNext]
  /\ call' = "decoding"
  /\ UNCHANGED <<vars, buffer, transcribed, returned>>

\* The decode returns and its result is ingested.
StrideDecoded(r) ==
  /\ call = "decoding"
  /\ Ingest(r)
  /\ transcribed' = request.end
  /\ call' = "looping"
  /\ UNCHANGED <<buffer, request, returned>>

\* Slips: the failed stride counts as transcribed, and the failure drops the
\* holdback.
FailedStrideSkipped ==
  /\ call = "decoding"
  /\ call' = "idle"
  /\ returned' = "err"
  /\ transcribed' = request.end
  /\ UNCHANGED <<vars, buffer, request>>
FailedStrideForgetsHoldback ==
  /\ call = "decoding"
  /\ call' = "idle"
  /\ returned' = "err"
  /\ lastAgreedWords' = <<>>
  /\ UNCHANGED <<lastAgreedSeconds, prevResult, prevWords, hypothesisWords,
                 holdbackSuperseded, confirmedWords, results, ingestedFacts,
                 outcome, finalized, transcript, buffer, transcribed, request>>

\* The decode fails: `?` leaves the call, nothing else has changed.
StrideFailed ==
  /\ call = "decoding"
  /\ call' = "idle"
  /\ returned' = "err"
  /\ UNCHANGED <<vars, buffer, transcribed, request>>

\* Slip: the call only returns when every sample is transcribed.
PushReturnsWhenDrained ==
  /\ call = "looping"
  /\ buffer = transcribed
  /\ call' = "idle"
  /\ returned' = "ok"
  /\ UNCHANGED <<vars, buffer, transcribed, request>>

\* No whole stride is left: the call returns its outcomes.
PushReturns ==
  /\ call = "looping"
  /\ ~StridePending
  /\ call' = "idle"
  /\ returned' = "ok"
  /\ UNCHANGED <<vars, buffer, transcribed, request>>

\* The caller consumes the driver, at any time between two pushes.
FinalizeDriver ==
  /\ call = "idle"
  /\ Finalize
  /\ UNCHANGED driverVars

DriverNext ==
  \/ \E samples \in Pushes : Push(samples)
  \/ StartStride
  \/ \E r \in Results : StrideDecoded(r)
  \/ StrideFailed
  \/ PushReturns
  \/ FinalizeDriver

\* A call that was made runs: its loop goes on and a decode returns.
DriverFairness ==
  /\ WF_allVars(StartStride)
  /\ WF_allVars(PushReturns)
  /\ WF_allVars(StrideFailed \/ \E r \in Results : StrideDecoded(r))

DriverSpec == DriverInit /\ [][DriverNext]_allVars /\ DriverFairness

-----------------------------------------------------------------------------
DriverTypeOK ==
  /\ TypeOK
  /\ buffer \in 0..MaxBuffer
  /\ transcribed \in {k * StrideSamples : k \in 0..buffer}
  /\ call \in {"idle", "looping", "decoding"}
  /\ returned \in {"none", "ok", "err"}

\* Audio is decoded in whole strides and none is skipped or decoded past the
\* recording: the decode in flight always ends one stride after the last
\* ingested one, also when it repeats one that failed.
StrideInOrder ==
  /\ transcribed <= buffer
  /\ call = "decoding" => /\ request.end = transcribed + StrideSamples
                          /\ request.end <= buffer

\* A call that returned Ok has left less than a stride untranscribed; a call
\* that failed has left a whole one, so the next push tries again.
NothingLeftBehind ==
  /\ call = "idle" /\ returned = "ok" => ~StridePending
  /\ call = "idle" /\ returned = "err" => StridePending

\* The recording goes stride by stride, and what the next decode is prefilled
\* with is whole: its tokens fit the budget that truncates them.
DriverInv ==
  DriverTypeOK /\ StrideInOrder /\ NothingLeftBehind /\ HoldbackFitsPrefill

\* A stride that is decoded again after a failure is decoded exactly as
\* before: the failure moved neither the watermark nor the holdback.
RetryAsksTheSame ==
  [][request' # request => request'.end # request.end]_allVars

\* Every call returns, whatever its decodes do.
PushTerminates == (call # "idle") ~> (call = "idle")
=============================================================================
