-------------------------- MODULE SettledTranscript --------------------------
(***************************************************************************)
(* What eager streaming promises its caller, without saying how: a list of *)
(* settled words that only ever grows, a frontier that never retreats, and *)
(* speech offered for settling only once.  Words settle from the frontier  *)
(* on, and the frontier then passes all of them, so a word settled later   *)
(* starts strictly after every word settled before.  A stream that settles *)
(* runs of segments, which may be empty or overlap, promises less: a run   *)
(* settles from the frontier on and leaves it, further on, at its end.     *)
(***************************************************************************)
EXTENDS Integers, Sequences

CONSTANT Slack  \* how far the start of a settled segment may be rounded down

VARIABLES
  settled,    \* the words a consumer may rely on
  frontier,   \* the instant from which words may still settle
  closed      \* the transcript has been handed out

stVars == <<settled, frontier, closed>>

\* `longer` extends `list`.
Extends(list, longer) ==
  /\ Len(list) <= Len(longer)
  /\ \A i \in 1..Len(list) : longer[i] = list[i]

STInit ==
  /\ settled = <<>>
  /\ frontier = 0
  /\ closed = FALSE

\* Settle some words that start at or past the frontier, perhaps none, and move
\* the frontier past everything settled.
Settle ==
  /\ ~closed
  /\ UNCHANGED closed
  /\ Extends(settled, settled')
  /\ \A i \in (Len(settled) + 1)..Len(settled') : settled'[i].start >= frontier
  /\ frontier' >= frontier
  /\ \A i \in 1..Len(settled') : settled'[i].start < frontier'

\* Settle a run of segments, perhaps none, each from the frontier on up to
\* the slack, and move the frontier to where the run ends.
SettleRun ==
  /\ ~closed
  /\ UNCHANGED closed
  /\ Extends(settled, settled')
  /\ \A i \in (Len(settled) + 1)..Len(settled') : settled'[i].start + Slack >= frontier
  /\ frontier' >= frontier
  /\ settled' # settled =>
       /\ frontier' = settled'[Len(settled')].end
       /\ frontier' > frontier

\* Hand out the transcript: what is settled and a provisional tail.
Close ==
  /\ ~closed
  /\ closed' = TRUE
  /\ Extends(settled, settled')
  /\ UNCHANGED frontier

STNext == Settle \/ Close

STSpec == STInit /\ [][STNext]_stVars
RunSpec == STInit /\ [][SettleRun \/ Close]_stVars
=============================================================================
