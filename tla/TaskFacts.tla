------------------------------ MODULE TaskFacts ------------------------------
(***************************************************************************)
(* The facts a transcript carries about the run that decoded it, and the   *)
(* law by which the facts of several transcripts become those of one.      *)
(*                                                                         *)
(* An optional value is a set of at most one: {} is "not observed".        *)
(***************************************************************************)
EXTENDS Integers, Sequences

CONSTANT MaxUsize
ASSUME MaxUsizeAssumption == MaxUsize \in Nat \ {0}

Usize == 0..MaxUsize
Optional(S) == {{}} \cup {{x} : x \in S}
Saturate(n) == IF n <= MaxUsize THEN n ELSE MaxUsize

-----------------------------------------------------------------------------
KleeneOr(a, b) ==
  IF TRUE \in a \cup b THEN {TRUE}
  ELSE IF a = {FALSE} /\ b = {FALSE} THEN {FALSE} ELSE {}

FirstObserved(a, b) == IF a # {} THEN a ELSE b

\* The coordinates of the workers that decoded, in order, if all are known.
Schedules == [known : BOOLEAN, workers : Seq(Nat)]
UnknownSchedule == [known |-> FALSE, workers |-> <<>>]
MergeSchedules(a, b) ==
  IF a.known /\ b.known THEN [known |-> TRUE, workers |-> a.workers \o b.workers]
  ELSE UnknownSchedule

\* SpanKnowledge: how many segment ids a decode allocated, exactly or at least.
Spans == [exact : BOOLEAN, bound : Usize]
Exact(n) == [exact |-> TRUE, bound |-> n]
AtLeast(n) == [exact |-> FALSE, bound |-> n]

MergeSpans(a, b) ==
  [exact |-> a.exact /\ b.exact /\ a.bound + b.bound <= MaxUsize,
   bound |-> Saturate(a.bound + b.bound)]

-----------------------------------------------------------------------------
FactsOf(Languages) ==
  [drewFromRng : Optional(BOOLEAN), earlyStopped : Optional(BOOLEAN),
   hadSwallowedError : Optional(BOOLEAN),
   observedLanguage : Optional(Languages),
   workerSchedule : Schedules, decodedSpan : Spans]

Unknown ==
  [drewFromRng |-> {}, earlyStopped |-> {}, hadSwallowedError |-> {},
   observedLanguage |-> {}, workerSchedule |-> UnknownSchedule,
   decodedSpan |-> AtLeast(0)]

ObservedClean ==
  [Unknown EXCEPT !.drewFromRng = {FALSE}, !.earlyStopped = {FALSE},
                  !.hadSwallowedError = {FALSE}]

MergeFacts(a, b) ==
  [drewFromRng |-> KleeneOr(a.drewFromRng, b.drewFromRng),
   earlyStopped |-> KleeneOr(a.earlyStopped, b.earlyStopped),
   hadSwallowedError |-> KleeneOr(a.hadSwallowedError, b.hadSwallowedError),
   observedLanguage |-> FirstObserved(a.observedLanguage, b.observedLanguage),
   workerSchedule |-> MergeSchedules(a.workerSchedule, b.workerSchedule),
   decodedSpan |-> MergeSpans(a.decodedSpan, b.decodedSpan)]

\* TaskFactsAccumulator: the first contributor is taken as it is.
NoFacts == [merged |-> FALSE, facts |-> Unknown]

\* Slip: the unknown record is where the fold starts.
AccumulateFromUnknown(accumulated, facts) ==
  [merged |-> TRUE, facts |-> MergeFacts(accumulated.facts, facts)]

Accumulate(accumulated, facts) ==
  [merged |-> TRUE,
   facts |-> IF accumulated.merged THEN MergeFacts(accumulated.facts, facts)
             ELSE facts]

\* A draw can be replayed from a seed only at the same worker coordinates.
IsReproducibleUnder(facts, seeded) ==
  /\ facts.earlyStopped = {FALSE}
  /\ facts.hadSwallowedError = {FALSE}
  /\ \/ facts.drewFromRng = {FALSE}
     \/ facts.drewFromRng = {TRUE} /\ seeded /\ facts.workerSchedule.known
=============================================================================
