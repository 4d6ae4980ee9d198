----------------------- MODULE AutoregressiveDecoder -----------------------
(***************************************************************************)
(* What a decode pass relies on: tokens are fed one position after the     *)
(* other, and each prediction reads what was fed so far in this pass, each *)
(* at its position, and nothing else: nothing of an earlier window,        *)
(* attempt or language probe.                                              *)
(***************************************************************************)
EXTENDS Naturals, Sequences

CONSTANT Memories      \* what feeding a token leaves in its position

VARIABLES
  fed,    \* what was fed in this pass, in order
  seen    \* what the last prediction read, each with its position

\* A sequence as the positions of a cache hold it, counted from zero.
Contents(context) == {<<i - 1, context[i]>> : i \in DOMAIN context}

Init == fed = <<>> /\ seen = {}

\* A new pass starts from nothing.
Begin == fed' = <<>> /\ seen' = {}

\* A token is fed, and the prediction reads the whole pass.
Feed(memory) == fed' = Append(fed, memory) /\ seen' = Contents(fed')

Next == Begin \/ \E memory \in Memories : Feed(memory)

Spec == Init /\ [][Next]_<<fed, seen>>
=============================================================================
