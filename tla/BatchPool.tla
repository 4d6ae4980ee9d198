------------------------------ MODULE BatchPool ------------------------------
(***************************************************************************)
(* WhisperKit::transcribe_all: batches of at most BatchSize threads, one   *)
(* task per audio, joined in the order they were spawned.  Workers of a    *)
(* batch decode their windows in any interleaving; each draws from random  *)
(* streams of its own, named by its place among the audios, the window and *)
(* the attempt.                                                            *)
(***************************************************************************)
EXTENDS Naturals, Sequences, FiniteSets, SequencesExt

CONSTANTS
  MaxAudios,  \* bound: the audios given
  BatchSize,  \* concurrent_worker_count
  Ladder,     \* temperature_fallback_count
  WindowsOf   \* bound: the windows of an audio

ASSUME BatchAssumption ==
  {MaxAudios, Ladder, WindowsOf} \subseteq Nat /\ BatchSize \in Nat \ {0}

VARIABLES
  audios,    \* how many audios were given
  batch,     \* the batch spawned, from 0
  worker,    \* the workers, by their place among the audios
  answers,   \* the results joined, in the order of joining
  pool,      \* "spawning", "joining", "returned" or "panicked"
  drawn      \* history: the attempts made, and the streams they drew from

batchVars == <<audios, batch, worker, answers, pool, drawn>>

Places == 0 .. audios - 1
Batch(b) == {i \in Places : i \div BatchSize = b}

\* `windows` and `fallbacks` are the timings' totals, `id` what progress is
\* told of the window.
Unspawned ==
  [at |-> "none", window |-> 0, attempt |-> 0, windows |-> 0, fallbacks |-> 0, id |-> 0]

BatchInit ==
  /\ audios \in 0 .. MaxAudios
  /\ batch = 0 /\ worker = [i \in Places |-> Unspawned] /\ answers = <<>>
  /\ pool = "spawning" /\ drawn = [attempts |-> 0, streams |-> {}]

\* Slip: workers are numbered within their batch.
PlaceInBatch(i) == i % BatchSize

\* audio_index + batch_index * batch_size
GlobalIndex(i) == (i % BatchSize) + (i \div BatchSize) * BatchSize

WindowId(i, w) ==
  GlobalIndex(i) + (IF w.windows > w.fallbacks THEN w.windows - w.fallbacks ELSE 0)

SpawnWorker ==
  /\ pool = "spawning"
  /\ \E i \in Batch(batch) :
       /\ worker[i].at = "none" /\ \A j \in Batch(batch) : j < i => worker[j].at # "none"
       /\ worker' = [worker EXCEPT ![i].at = "window"]
       /\ pool' = IF i + 1 \in Batch(batch) THEN pool ELSE "joining"
  /\ UNCHANGED <<audios, batch, answers, drawn>>

\* No audio, or none left: nothing to spawn.
Return ==
  /\ pool = "spawning" /\ Batch(batch) = {}
  /\ pool' = "returned"
  \* The load timings are stamped on every result that is one.
  /\ answers' = [k \in DOMAIN answers |-> [answers[k] EXCEPT !.stamped = answers[k].ok]]
  /\ UNCHANGED <<audios, batch, worker, drawn>>

OpenPoolWindow(i) ==
  /\ worker[i].at = "window" /\ worker[i].window < WindowsOf
  /\ worker' = [worker EXCEPT ![i].at = "attempt", ![i].attempt = 0,
                  ![i].id = WindowId(i, worker[i])]
  /\ UNCHANGED <<audios, batch, answers, pool, drawn>>

\* An attempt that draws: it falls back, is kept, or ends the task.
DrawAttempt(i) ==
  /\ worker[i].at = "attempt"
  /\ drawn' = [attempts |-> drawn.attempts + 1,
       streams |-> drawn.streams \cup {<<GlobalIndex(i), worker[i].window, worker[i].attempt>>}]
  /\ \/ /\ worker[i].attempt < Ladder
        /\ worker' = [worker EXCEPT ![i].attempt = @ + 1, ![i].fallbacks = @ + 1]
     \/ worker' = [worker EXCEPT ![i].at = "window", ![i].window = @ + 1, ![i].windows = @ + 1]
     \/ worker' = [worker EXCEPT ![i].at = "failed"]
     \/ worker' = [worker EXCEPT ![i].at = "panicked"]
  /\ UNCHANGED <<audios, batch, answers, pool>>

EndAudio(i) ==
  /\ worker[i].at = "window"
  /\ worker' = [worker EXCEPT ![i].at = "done"]
  /\ UNCHANGED <<audios, batch, answers, pool, drawn>>

HasEnded(i) == worker[i].at \in {"done", "failed", "panicked"}

\* The handles are joined in the order of the audios.
IsNextToJoin(i) == i = Len(answers) /\ i \in Batch(batch) /\ HasEnded(i)

\* The scope ends when all its workers have, a panic of one included.
JoinWorker(i) ==
  /\ pool = "joining" /\ IsNextToJoin(i)
  /\ IF worker[i].at = "panicked"
       THEN /\ \A j \in Batch(batch) : HasEnded(j)
            /\ pool' = "panicked" /\ UNCHANGED <<batch, answers>>
       ELSE /\ answers' = Append(answers,
                 [audio |-> i, ok |-> worker[i].at = "done", stamped |-> FALSE])
            /\ IF \A j \in Batch(batch) : j = i \/ \E k \in DOMAIN answers : answers[k].audio = j
                 THEN batch' = batch + 1 /\ pool' = "spawning"
                 ELSE UNCHANGED <<audios, batch, pool>>
  /\ UNCHANGED <<audios, worker, drawn>>

WorkerStep(i) == OpenPoolWindow(i) \/ DrawAttempt(i) \/ EndAudio(i)
MainStep == SpawnWorker \/ Return \/ \E i \in Places : JoinWorker(i)
BatchNext == MainStep \/ \E i \in Places : WorkerStep(i)

\* Every thread runs on: the call's own, which blocks in join only, and each
\* worker's, whose audio and ladder are finite.
BatchFairness ==
  /\ WF_batchVars(MainStep)
  /\ \A i \in 0 .. MaxAudios - 1 : WF_batchVars(i \in Places /\ WorkerStep(i))

-----------------------------------------------------------------------------
\* Answers come in the order of the audios whichever worker ends first, none
\* missing from a call that returns, and each worker's own; batches do not
\* overlap; and no two attempts of the call draw from one random stream.
BatchHolds ==
  /\ \A k \in DOMAIN answers :
       /\ answers[k].audio = k - 1 /\ answers[k].ok = (worker[k - 1].at = "done")
  /\ pool = "returned" =>
       /\ Len(answers) = audios /\ \A k \in DOMAIN answers : answers[k].stamped = answers[k].ok
  /\ Cardinality({i \in Places : worker[i].at \in {"window", "attempt"}}) <= BatchSize
  /\ \A i \in Places : worker[i].at # "none" => i \div BatchSize <= batch
                       /\ (i \div BatchSize < batch => HasEnded(i))
  /\ Cardinality(drawn.streams) = drawn.attempts

\* The call returns, or tells a worker's panic on.
BatchReturns == <>(pool \in {"returned", "panicked"})
=============================================================================
