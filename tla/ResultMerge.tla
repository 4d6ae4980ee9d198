----------------------------- MODULE ResultMerge -----------------------------
(***************************************************************************)
(* merge_results, one child after another, and what its documentation      *)
(* promises of merging in stages: the children of one merge are also       *)
(* merged group by group, the groups' results are merged in turn, and the  *)
(* outcome is compared with the merge of all children at once.             *)
(*                                                                         *)
(* A result is its text, its segments' ids and its facts.                  *)
(***************************************************************************)
EXTENDS TaskFacts, SequencesExt

CONSTANTS
  Languages,
  Children,     \* bound: the results that may come
  MaxChildren   \* bound: how many

Separator == 0
ResultSet ==
  [text : Seq(Nat), ids : Seq(Usize), facts : FactsOf(Languages)]
ASSUME ChildrenAssumption == Children \subseteq ResultSet

VARIABLES
  skip,     \* skip_empty_texts: the run drops blank audio
  whole,    \* the merge of all children
  staged,   \* the merge of the groups so far
  group,    \* the merge of the children since
  children, \* history: how many children whole has
  origin,   \* history: which of them each id of whole belongs to
  clean     \* history: every child is reproducible, seedless

vars == <<skip, whole, staged, group, children, origin, clean>>

-----------------------------------------------------------------------------
(* One merge: the state of its loop, and the loop's body. *)

Start == [text |-> <<>>, ids |-> <<>>, index |-> 0, base |-> 0,
          facts |-> NoFacts]

Extent(result) == IF result.ids = <<>> THEN 0 ELSE Max(Range(result.ids)) + 1

\* Slip: what the child carries is taken as it is.
CarriedSpan(result) == result.facts.decodedSpan

\* The carried span, no lower than the ids in use.
EffectiveSpan(result) ==
  LET carried == result.facts.decodedSpan
  IN  IF Extent(result) <= carried.bound THEN carried
      ELSE AtLeast(Extent(result))

\* The two checked additions; the extent is a third.
Fits(merge, result) ==
  skip => /\ Extent(result) <= MaxUsize
          /\ merge.base + EffectiveSpan(result).bound <= MaxUsize

JoinedText(merge, result) ==
  IF skip
    THEN IF result.text = <<>> THEN merge.text
         ELSE IF merge.text = <<>> THEN result.text
         ELSE merge.text \o <<Separator>> \o result.text
    ELSE IF merge.index = 0 THEN result.text
         ELSE merge.text \o <<Separator>> \o result.text

Renumbered(merge, result) ==
  [i \in DOMAIN result.ids |->
     IF skip THEN merge.base + result.ids[i] ELSE merge.index + i - 1]

\* Slip: the span a child carries is stored, not the one its ids moved by.
StoredRaw(result) == result.facts

StoredFacts(result) ==
  IF skip THEN [result.facts EXCEPT !.decodedSpan = EffectiveSpan(result)]
  ELSE result.facts

MergeOne(merge, result) ==
  [text |-> JoinedText(merge, result),
   ids |-> merge.ids \o Renumbered(merge, result),
   index |-> merge.index + 1,
   base |-> IF skip THEN merge.base + EffectiveSpan(result).bound ELSE 0,
   facts |-> Accumulate(merge.facts, StoredFacts(result))]

Merged(merge) ==
  [text |-> merge.text, ids |-> merge.ids, facts |-> merge.facts.facts]

IsStarted(merge) == merge.index > 0

-----------------------------------------------------------------------------
Init ==
  /\ skip \in BOOLEAN
  /\ whole = Start /\ staged = Start /\ group = Start
  /\ children = 0 /\ origin = <<>> /\ clean = TRUE

Take(child) ==
  /\ children < MaxChildren
  /\ Fits(whole, child)
  /\ whole' = MergeOne(whole, child)
  /\ group' = MergeOne(group, child)
  /\ children' = children + 1
  /\ origin' = origin \o [i \in DOMAIN child.ids |-> children']
  /\ clean' = (clean /\ IsReproducibleUnder(child.facts, FALSE))
  /\ UNCHANGED <<skip, staged>>

\* The group's result is merged into the stage.
CloseGroup ==
  /\ IsStarted(group)
  /\ staged' = MergeOne(staged, Merged(group))
  /\ group' = Start
  /\ UNCHANGED <<skip, whole, children, origin, clean>>

\* The stage's result is the first of another merge.
Restage ==
  /\ IsStarted(staged)
  /\ staged' = MergeOne(Start, Merged(staged))
  /\ UNCHANGED <<skip, whole, group, children, origin, clean>>

Next ==
  \/ \E child \in Children : Take(child)
  \/ CloseGroup
  \/ Restage

Spec == Init /\ [][Next]_vars
-----------------------------------------------------------------------------
MergeStates ==
  [text : Seq(Nat), ids : Seq(Nat), index : Nat, base : Nat,
   facts : [merged : BOOLEAN, facts : FactsOf(Languages)]]

TypeOK ==
  /\ skip \in BOOLEAN /\ clean \in BOOLEAN
  /\ whole \in MergeStates /\ staged \in MergeStates /\ group \in MergeStates
  /\ children \in Nat
  /\ origin \in Seq(Nat) /\ Len(origin) = Len(whole.ids)

\* With the drop on, no two children's segments share an id.
IdsAreInjective ==
  skip => \A i, j \in DOMAIN whole.ids :
            origin[i] # origin[j] => whole.ids[i] # whole.ids[j]

\* In whatever stages the children are merged, their text, their facts and,
\* with the drop on, their ids are those of one merge.
StagedLikeOneShot ==
  IsStarted(staged) /\ ~IsStarted(group) =>
    /\ staged.text = whole.text
    /\ staged.facts = whole.facts
    /\ skip => staged.ids = whole.ids

\* The merge panics on a child exactly when merging in stages does.
PanicsAlike ==
  /\ \A child \in Children :
       Fits(whole, child) <=>
         Fits(group, child) /\ Fits(staged, Merged(MergeOne(group, child)))
  /\ IsStarted(staged) => Fits(Start, Merged(staged))

\* Merging in stages cannot be told from one merge, neither by its outcome nor
\* by where it panics.
StagingIsInvisible == StagedLikeOneShot /\ PanicsAlike

\* Facts and spans keep their types, and ids their owners.
MergeHolds == TypeOK /\ IdsAreInjective

\* A merge promises to be reproduced without a seed when every child does.
PromisesWhatItsChildrenDo ==
  children > 0 => (IsReproducibleUnder(whole.facts.facts, FALSE) <=> clean)
=============================================================================
