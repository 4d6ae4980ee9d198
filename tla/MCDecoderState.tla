--------------------------- MODULE MCDecoderState ---------------------------
(***************************************************************************)
(* What lies behind two doors: the state a whisper decoder is run with, and *)
(* an aligner, with the table it spells with.  For the decoder two windows' *)
(* audio, two tokens, caches of one slot more than the loop uses and a      *)
(* model that brings an alignment row with some steps only.                 *)
(***************************************************************************)
EXTENDS DecoderState, AlignmentSets, Settings

VARIABLE part
inferenceVars == <<vars, gatherVars, setVars, spellingVars, settingsVars, part>>

-----------------------------------------------------------------------------
(* Tables of up to three tokens under every statement made of them.        *)

SomeTokens == {"", " ", "|", "a", "A", "<unk>"}
Pairs(n) ==
  {[i \in 1 .. n |-> <<tokens[i], ids[i]>>] : tokens \in [1 .. n -> SomeTokens],
     ids \in {[i \in 1 .. n |-> i - 1]} \cup IF n < 3 THEN {[i \in 1 .. n |-> n - i], [i \in 1 .. n |-> 1]} ELSE {}}
Statements ==
  [blank : 0 .. 2, delimiter : {"Pipe", "Space", "Absent"}, case : {"Upper", "AsWritten"},
   specials : SUBSET {"", " ", "<unk>"}]

NoTable == given = <<>> /\ load = [what |-> "ok", table |-> <<>>]
           /\ stated = [contract |-> [blank |-> 0, delimiter |-> "Pipe", case |-> "Upper", specials |-> {}],
                        delimited |-> TRUE, width |-> 0]
ATable ==
  /\ \E n \in 0 .. 3 : given \in Pairs(n)
  /\ load = [what |-> "unread"]
  /\ \E contract \in Statements, delimited \in BOOLEAN :
       /\ delimited = (contract.delimiter # "Absent") \/ contract.specials = {}
       /\ stated = [contract |-> contract, delimited |-> delimited, width |-> 3]

-----------------------------------------------------------------------------
(* Two aligners, of which one states a band and one a head of logits.      *)

MCAligners ==
  [english |-> [language |-> "en", output |-> "LogProbabilities", band |-> TRUE],
   japanese |-> [language |-> "ja", output |-> "LogProbabilities", band |-> FALSE],
   logits |-> [language |-> "ja", output |-> "Logits", band |-> FALSE]]
MCTexts ==
  [silent |-> [odd |-> 0, tokens |-> 0], plain |-> [odd |-> 0, tokens |-> 2],
   odd |-> [odd |-> 2, tokens |-> 1]]

AnAudio == CHOOSE a \in Audio : TRUE
NoSettings == kind = "vad" /\ SettingsInit

\* Matrices of up to four rows, of pitches that hold their columns or do not.
GatherInit ==
  \E needed \in 1 .. 4, cols \in 1 .. 3, tall \in 0 .. 4, sourceRows \in 0 .. 4, src \in 1 .. 5, dst \in 1 .. 5 :
    GatherOf([needed |-> needed, cols |-> cols, rows |-> tall, sourceRows |-> sourceRows,
              src |-> src, dst |-> dst])

MCInit ==
  \/ part = "decoder" /\ Init /\ GatherOf(Idle) /\ AlignInit /\ NoTable /\ NoSettings
  \/ part = "alignment" /\ Init /\ GatherOf(Idle) /\ audio = AnAudio /\ AlignInit /\ NoTable /\ NoSettings
  \/ part = "spelling" /\ Init /\ GatherOf(Idle) /\ audio = AnAudio /\ AlignInit /\ ATable /\ NoSettings
  \/ part = "settings" /\ Init /\ GatherOf(Idle) /\ audio = AnAudio /\ AlignInit /\ NoTable /\ SettingsInit
  \/ part = "gather" /\ Init /\ GatherInit /\ audio = AnAudio /\ AlignInit /\ NoTable /\ NoSettings
MCNext ==
  /\ UNCHANGED part
  /\ \/ part = "decoder" /\ Next /\ UNCHANGED <<gatherVars, setVars, spellingVars, settingsVars>>
     \/ part = "alignment" /\ AlignNext /\ UNCHANGED <<vars, gatherVars, spellingVars, settingsVars>>
     \/ part = "spelling" /\ SpellingNext /\ UNCHANGED <<vars, gatherVars, setVars, settingsVars>>
     \/ part = "settings" /\ SettingsNext /\ UNCHANGED <<vars, gatherVars, setVars, spellingVars>>
     \/ part = "gather" /\ GatherNext /\ UNCHANGED <<vars, setVars, spellingVars, settingsVars>>
MCSpec == MCInit /\ [][MCNext]_inferenceVars

\* An aligner reads what its table spells, and applies what was decided of it.
AlignersHold == SpellingHolds /\ DecisionsHold
=============================================================================
