----------------------------- MODULE Calibration -----------------------------
(***************************************************************************)
(* Score calibration: cohorts are built from profiles filed under minted   *)
(* tokens, frozen into calibrations, and each side of a trial is scored    *)
(* against a cohort its own speaker's profiles are left out of.  A builder *)
(* may be cloned, and goes on growing after a calibration froze it.        *)
(* A profile is told by the scoring it was prepared for.                   *)
(***************************************************************************)
EXTENDS Naturals, Sequences, SequencesExt, FiniteSets, Selections

CONSTANTS
  Scorings,         \* the score sources
  RowLength,        \* of each source's rows
  MinCohortScores,  \* a cohort of fewer scores does not normalize
  TopN,             \* the scores a side selects
  HeldOuts,         \* bound: the held-out cohorts frozen
  MaxEntries,       \* bound: profiles filed in a builder
  MaxTokens         \* bound: tokens and calibrations minted

ASSUME CalibrationAssumption ==
  /\ RowLength \in [Scorings -> Nat] /\ {MinCohortScores, TopN} \subseteq Nat \ {0}
  /\ {MaxEntries, MaxTokens} \subseteq Nat /\ HeldOuts \subseteq Seq(Scorings)

VARIABLES
  tokens,       \* SpeakerToken's counter
  builders,     \* the library builders: one, and its clone once there is one
  calibrations  \* what was frozen, by CalibrationId

calibrationVars == <<tokens, builders, calibrations>>

\* Who a held-out profile is filed under, and whom its side is taken for.
Nobody == MaxTokens
Unnamed == MaxTokens + 1
Entry(speaker, profile) == [speaker |-> speaker, profile |-> profile]
Builder(open, speakers, entries) == [open |-> open, speakers |-> speakers, entries |-> entries]
NewBuilder == Builder(TRUE, {}, <<>>)
CalibrationInit == tokens = 0 /\ builders = <<NewBuilder>> /\ calibrations = <<>>

\* Scoring::prepare: a row of the source's length whose direction can be told.
Prepare(scoring, row) ==
  IF row.length # RowLength[scoring] THEN [ok |-> FALSE, why |-> "ProfileLength"]
  ELSE IF ~row.hasDirection THEN [ok |-> FALSE, why |-> "DegenerateProfile"]
  ELSE [ok |-> TRUE, profile |-> scoring]
Rows == [length : {RowLength[s] : s \in Scorings} \cup {0}, hasDirection : BOOLEAN]
Profiles(scoring) == {p.profile : p \in {q \in {Prepare(scoring, row) : row \in Rows} : q.ok}}

MintSpeaker(b) ==
  /\ builders[b].open /\ tokens < MaxTokens
  /\ tokens' = tokens + 1
  /\ builders' = [builders EXCEPT ![b] = Builder(TRUE, @.speakers \cup {tokens}, @.entries)]
  /\ UNCHANGED calibrations

\* A token of another builder is adopted.
PushEntry(b, token, profile) ==
  /\ builders[b].open /\ Len(builders[b].entries) < MaxEntries
  /\ builders' = [builders EXCEPT ![b] =
       Builder(TRUE, @.speakers \cup {token}, Append(@.entries, Entry(token, profile)))]
  /\ UNCHANGED <<tokens, calibrations>>

CloneBuilder ==
  /\ Len(builders) = 1 /\ builders[1].open
  /\ builders' = Append(builders, builders[1])
  /\ UNCHANGED <<tokens, calibrations>>

\* The builder is moved into the calibration; its clone is what can still grow.
FreezeLibrary(b) ==
  /\ builders[b].open /\ Len(calibrations) < MaxTokens
  /\ calibrations' = Append(calibrations,
       [kind |-> "library", speakers |-> builders[b].speakers, entries |-> builders[b].entries])
  /\ builders' = [builders EXCEPT ![b] = Builder(FALSE, {}, <<>>)]
  /\ UNCHANGED tokens

\* A held-out cohort files its profiles under nobody.
FreezeHeldOut(profiles) ==
  /\ Len(calibrations) < MaxTokens
  /\ calibrations' = Append(calibrations, [kind |-> "heldOut", speakers |-> {},
       entries |-> [i \in DOMAIN profiles |-> Entry(Nobody, profiles[i])]])
  /\ UNCHANGED <<tokens, builders>>

CalibrationNext ==
  \/ \E b \in DOMAIN builders :
       \/ MintSpeaker(b) \/ FreezeLibrary(b)
       \/ \E token \in 0 .. tokens - 1, s \in Scorings : \E p \in Profiles(s) : PushEntry(b, token, p)
  \/ CloneBuilder
  \/ \E profiles \in HeldOuts : FreezeHeldOut(profiles)

-----------------------------------------------------------------------------
(* Sides and trials. *)

Refused(why) == [ok |-> FALSE, why |-> why]

\* The first entry that scores in another space is the error of the whole
\* pass, ahead of what became of the scores; whether those spread is not told.
SideOutcomes(profile, entries, id) ==
  LET mismatched == {i \in DOMAIN entries : entries[i].profile # profile}
      considered == Len(entries)
      selected == IF considered < TopN THEN considered ELSE TopN
  IN CASE mismatched # {} -> {Refused(<<"ScoringMismatch", profile, entries[Min(mismatched)].profile>>)}
       [] considered = 0 -> {Refused(<<"EmptyCohort">>)}
       [] considered > 0 /\ selected < MinCohortScores ->
            {Refused(<<"CohortTooSmall", selected, considered>>)}
       [] OTHER -> {Refused(<<"DegenerateCohort", selected, considered>>),
                    [ok |-> TRUE, profile |-> profile, considered |-> entries, calibration |-> id]}

\* Slip: one recording of the speaker is left out, not all.
OthersButOne(entries, token) ==
  LET own == {i \in DOMAIN entries : entries[i].speaker = token}
  IN  IF own = {} THEN entries ELSE RemoveAt(entries, CHOOSE i \in own : \A j \in own : i <= j)

\* stats_excluding: by the token an entry was filed under.
Others(entries, token) == At(entries, {i \in DOMAIN entries : entries[i].speaker # token})

EnrolledSide(id, token, profile) ==
  IF token \notin calibrations[id].speakers THEN {Refused(<<"ForeignSpeaker">>)}
  ELSE SideOutcomes(profile, Others(calibrations[id].entries, token), id)

HeldOutSide(id, profile) == SideOutcomes(profile, calibrations[id].entries, id)

\* trial: both sides of this calibration, in one space; the numbers may still
\* cancel or overflow.
TrialOutcomes(id, enrolled, probe) ==
  IF {enrolled.calibration, probe.calibration} # {id} THEN {Refused(<<"CalibrationMismatch">>)}
  ELSE IF enrolled.profile # probe.profile
    THEN {Refused(<<"ScoringMismatch", enrolled.profile, probe.profile>>)}
  ELSE {[ok |-> TRUE], Refused(<<"ScoreNorm">>)}

-----------------------------------------------------------------------------
\* Who a side of a calibration may be taken for, and the sides there are.
Subjects(id) ==
  IF calibrations[id].kind = "heldOut" THEN {[speaker |-> Unnamed, profile |-> s] : s \in Scorings}
  ELSE {[speaker |-> t, profile |-> s] : t \in 0 .. tokens - 1, s \in Scorings}
Sides(id, subject) ==
  IF calibrations[id].kind = "heldOut" THEN HeldOutSide(id, subject.profile)
  ELSE EnrolledSide(id, subject.speaker, subject.profile)
Taken(id) ==
  UNION {{[side |-> x, of |-> s] : x \in {o \in Sides(id, s) : o.ok}} : s \in Subjects(id)}

\* A side was scored in one space against every entry of its calibration that
\* is not its own speaker's, and none that is, whatever a clone of the builder
\* came to hold; a speaker with an entry in the cohort is never foreign to it;
\* and two sides meet in a trial only over one cohort, in one space.
SidesKeepApart ==
  /\ \A id \in DOMAIN calibrations :
       /\ \A e \in ToSet(calibrations[id].entries) : e.speaker # Nobody =>
            Refused(<<"ForeignSpeaker">>) \notin EnrolledSide(id, e.speaker, e.profile)
       /\ \A t \in Taken(id) :
            /\ \A e \in ToSet(t.side.considered) : e.profile = t.side.profile
            /\ t.of.speaker \notin {e.speaker : e \in ToSet(t.side.considered)}
            /\ Len(t.side.considered) =
                 Cardinality({i \in DOMAIN calibrations[id].entries :
                                calibrations[id].entries[i].speaker # t.of.speaker})
  /\ \A id, a, b \in DOMAIN calibrations : \A x \in Taken(a), y \in Taken(b) :
       (\E o \in TrialOutcomes(id, x.side, y.side) : o.ok) =>
         a = id /\ b = id /\ x.side.profile = y.side.profile

\* "Not reachable through a single calibration ... two sides of one cohort
\* agree with each other" (Calibration::trial, of ScoringMismatch).
SidesOfOneCohortAgree ==
  \A id \in DOMAIN calibrations : \A x, y \in Taken(id) : x.side.profile = y.side.profile
=============================================================================
