-------------------------- MODULE MCLocalAgreement --------------------------
(***************************************************************************)
(* Small instances of LocalAgreement.  A decode may return any sequence of *)
(* at most MaxWords of the given words, so word starts run backwards, tie  *)
(* and repeat at will.                                                     *)
(***************************************************************************)
EXTENDS LocalAgreement

CONSTANTS MaxWords, Instants, MCWords

W(text, start, duration) ==
  [text |-> text, start |-> start * InstantTicks,
   end |-> (start + duration) * InstantTicks, tokens |-> 1]

\* One text: the decodes differ in timing and in length only.
TimedWords == {W("a", s, IF s = 2 THEN 1 ELSE 0) : s \in Instants}

MCTexts == {"a", "b"}
MCResults == [words : UNION {[1..n -> MCWords] : n \in 0..MaxWords}, facts : {{}}]
=============================================================================
