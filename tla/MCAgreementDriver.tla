-------------------------- MODULE MCAgreementDriver --------------------------
(***************************************************************************)
(* A small instance of the driver late in the stream, where several        *)
(* samples share an instant: pushes that fall short of a stride, meet one  *)
(* and span several, decodes that fail, and decodes that disagree about    *)
(* the timing, the length and the text of what was said.                   *)
(***************************************************************************)
EXTENDS AgreementDriver

CONSTANTS MaxWords, Instants

W(text, start) ==
  [text |-> text, start |-> start * InstantTicks, end |-> start * InstantTicks, tokens |-> 1]

MCTexts == {"a", "b"}
MCWords == {W("a", s) : s \in Instants} \cup {W("b", 0)}
MCResults == [words : UNION {[1..n -> MCWords] : n \in 0..MaxWords}, facts : {{}}]
=============================================================================
