---------------------------- MODULE MCResultMerge ----------------------------
(***************************************************************************)
(* Small instances of ResultMerge: decoded, dropped and deserialized       *)
(* results, whose spans may contradict their ids or be near the end of the *)
(* id space.                                                               *)
(***************************************************************************)
EXTENDS ResultMerge

MCLanguages == {"en", "de"}

Watched(worker) ==
  [ObservedClean EXCEPT !.workerSchedule = [known |-> TRUE, workers |-> <<worker>>]]
FactsChoices ==
  {Watched(0),
   [Watched(1) EXCEPT !.drewFromRng = {TRUE}, !.observedLanguage = {"de"}],
   [Unknown EXCEPT !.observedLanguage = {"en"}]}

IdsAndSpans ==
  {<<<<>>, Exact(0)>>, <<<<>>, Exact(1)>>, <<<<0>>, AtLeast(0)>>,
   <<<<0, 1>>, Exact(2)>>, <<<<0, 2>>, AtLeast(1)>>, <<<<1>>, Exact(1)>>,
   <<<<>>, Exact(MaxUsize)>>, <<<<MaxUsize>>, AtLeast(0)>>}

MCChildren ==
  {[text |-> IF pair[1] = <<>> THEN <<>> ELSE <<1>>, ids |-> pair[1],
    facts |-> [facts EXCEPT !.decodedSpan = pair[2]]] :
     pair \in IdsAndSpans, facts \in FactsChoices}
=============================================================================
