---------------------------- MODULE ModelManager ----------------------------
(***************************************************************************)
(* The ModelManager, which loads, prewarms and unloads the three models of *)
(* a pipeline, and WhisperKit::new, which takes what it loaded.  A call    *)
(* holds the manager alone, but it tells the caller's callback of every    *)
(* transition, and a callback that panics unwinds the call where it is.    *)
(***************************************************************************)
EXTENDS Naturals, Sequences, SequencesExt, FiniteSets

CONSTANT MaxPasses  \* bound: the loads and prewarms begun

ASSUME ManagerAssumption == MaxPasses \in Nat

VARIABLES
  state,
  models,    \* the pass that loaded the models held, 0 without models
  timings,   \* the pass each duration was taken in, 0 for Duration::ZERO
  call,      \* what is under way, and the models it has still to bring up
  passes,    \* history: loads and prewarms begun
  panicked,  \* history: a callback panicked
  kit        \* WhisperKit::new: "none", "prewarm", "load", "built" or "failed"

managerVars == <<state, models, timings, call, passes, panicked, kit>>

\* What CoreML is asked for, one after the other.
LoadOrder == <<"mel", "decoder", "encoder">>
ModelStates ==
  {"unloaded", "prewarming", "prewarmed", "loading", "loaded", "unloading"}
IsBusy(s) == s \in {"prewarming", "loading", "unloading"}

NoCall == [kind |-> "none", left |-> <<>>]
Timed == {"decoder", "encoder"}
NoTimings == [load |-> [m \in Timed |-> 0], specialization |-> [m \in Timed |-> 0]]

ManagerInit ==
  /\ state = "unloaded" /\ models = 0 /\ timings = NoTimings /\ call = NoCall
  /\ passes = 0 /\ panicked = FALSE /\ kit = "none"

IsFree == call = NoCall
BeginPass(kind, busy) ==
  /\ passes < MaxPasses /\ passes' = passes + 1
  /\ state' = busy
  /\ call' = [kind |-> kind, left |-> LoadOrder]
  /\ UNCHANGED <<models, timings, panicked>>

\* A prewarmed manager is left as it is; a loaded one refuses.
MayPrewarm == state \notin {"prewarmed", "loaded"}

Prewarm == IsFree /\ kit = "none" /\ MayPrewarm /\ BeginPass("prewarm", "prewarming") /\ UNCHANGED kit
EnsureLoaded ==
  IsFree /\ kit = "none" /\ state # "loaded" /\ BeginPass("load", "loading") /\ UNCHANGED kit

\* One model prewarmed or loaded; the mel's duration is not taken.
BringUp ==
  /\ call.left # <<>>
  /\ LET model == Head(call.left)
         taken(durations) == IF model \in Timed THEN [durations EXCEPT ![model] = passes]
                             ELSE durations
     IN timings' = IF call.kind = "load" THEN [timings EXCEPT !.load = taken(@)]
                   ELSE [timings EXCEPT !.specialization = taken(@)]
  /\ call' = [call EXCEPT !.left = Tail(@)]
  /\ UNCHANGED <<state, models, passes, panicked, kit>>

\* A bundle is missing, or CoreML refuses one.
BringUpFails ==
  /\ call.left # <<>>
  /\ state' = "unloaded" /\ call' = NoCall
  /\ kit' = IF kit = "none" THEN kit ELSE "failed"
  /\ UNCHANGED <<models, timings, passes, panicked>>

EndPrewarm ==
  /\ call.kind = "prewarm" /\ call.left = <<>>
  /\ state' = "prewarmed" /\ call' = NoCall
  /\ UNCHANGED <<models, timings, passes, panicked, kit>>

EndLoad ==
  /\ call.kind = "load" /\ call.left = <<>>
  /\ models' = passes /\ state' = "loaded" /\ call' = NoCall
  /\ UNCHANGED <<timings, passes, panicked, kit>>

Unload ==
  /\ IsFree /\ kit = "none" /\ state \in {"loaded", "prewarmed"}
  /\ state' = "unloading" /\ call' = [kind |-> "unload", left |-> <<>>]
  /\ UNCHANGED <<models, timings, passes, panicked, kit>>

EndUnload ==
  /\ call.kind = "unload"
  /\ models' = 0 /\ state' = "unloaded" /\ call' = NoCall
  /\ UNCHANGED <<timings, passes, panicked, kit>>

\* The callback panics when told that the call has begun.  It may at the end
\* of a call too, which leaves what returning leaves.
CallbackPanics ==
  /\ kit = "none" /\ call.kind # "none" /\ call.left \in {LoadOrder, <<>>}
  /\ IsBusy(state) /\ (call.left = <<>> => call.kind = "unload")
  /\ call' = NoCall /\ panicked' = TRUE
  /\ UNCHANGED <<state, models, timings, passes, kit>>

\* WhisperKit::new, with a manager of its own and no callback: `load = false`
\* is refused; a prewarm pass first where the options ask for one.
NewKit(prewarm) ==
  /\ passes = 0 /\ IsFree /\ kit = "none"
  /\ kit' = IF prewarm THEN "prewarm" ELSE "load"
  /\ IF prewarm THEN BeginPass("prewarm", "prewarming") ELSE BeginPass("load", "loading")

RefuseKit == passes = 0 /\ IsFree /\ kit = "none" /\ kit' = "failed"
             /\ UNCHANGED <<state, models, timings, call, passes, panicked>>

\* into_loaded, once the prewarm is done.
LoadKit == IsFree /\ kit = "prewarm" /\ kit' = "load" /\ BeginPass("load", "loading")

\* The models are taken; the tokenizer or the backend may still refuse.
TakeModels ==
  /\ IsFree /\ kit = "load" /\ state = "loaded"
  /\ kit' \in {"built", "failed"} /\ models' = 0
  /\ UNCHANGED <<state, timings, call, passes, panicked>>

ManagerNext ==
  \/ Prewarm \/ EnsureLoaded \/ BringUp \/ BringUpFails \/ EndPrewarm \/ EndLoad
  \/ Unload \/ EndUnload \/ CallbackPanics
  \/ NewKit(TRUE) \/ NewKit(FALSE) \/ RefuseKit \/ LoadKit \/ TakeModels

-----------------------------------------------------------------------------
\* `loaded` never stands without models, whichever callback panicked; models
\* are held in no other state, and no call leaves the manager busy, unless
\* one did; the durations told of loaded models are those of the pass that
\* loaded them, and a kit tells specializations exactly if it prewarmed.
ManagerHolds ==
  /\ state \in ModelStates /\ passes \in 0..MaxPasses
  /\ state = "loaded" /\ kit = "none" => models # 0
  /\ state = "loaded" => \A m \in Timed : timings.load[m] = IF models # 0 THEN models ELSE passes
  /\ ~panicked =>
       /\ IsFree => ~IsBusy(state)
       /\ models # 0 => state \in {"loaded", "unloading"}
  /\ kit = "built" => \A m \in Timed : (timings.specialization[m] # 0) = (passes = 2)
-----------------------------------------------------------------------------
(***************************************************************************)
(* What names a model: the bundles looked for in a folder, patterns over   *)
(* names, the folder a model's path lies under, and the models a device is *)
(* said to support.  Names and identifiers are sequences of characters.    *)
(***************************************************************************)

CONSTANTS
  Characters,  \* those of names; "*" and "?" are the pattern's own
  NameLength,  \* bound: characters of a name or a pattern
  Catalog      \* a support configuration: a sequence of entries

ASSUME CatalogAssumption ==
  /\ Characters \cap {"*", "?"} = {} /\ NameLength \in Nat
  /\ \A i \in DOMAIN Catalog : DOMAIN Catalog[i] = {"identifiers", "supported"}

Strings(alphabet, n) == UNION {[1 .. k -> alphabet] : k \in 0 .. n}

-----------------------------------------------------------------------------
(* glob_match *)

\* The last star takes one character more than it did.
Backtrack(at) == {[p |-> s[1], t |-> s[2] + 1, star |-> {<<s[1], s[2] + 1>>}] : s \in at.star}

\* The two-pointer walk.  `star` is the place past the last star and the place
\* in the text it has matched up to.
GlobMatch(pattern, text) ==
  LET Places == [p : 0 .. Len(pattern), t : 0 .. Len(text),
                 star : {{}} \cup {{<<p, t>>} : p \in 1 .. Len(pattern), t \in 0 .. Len(text)}]
      walk[at \in Places] ==
        IF at.t = Len(text)
          THEN \A k \in at.p + 1 .. Len(pattern) : pattern[k] = "*"
          ELSE LET next == IF at.p < Len(pattern) THEN pattern[at.p + 1] ELSE "end"
               IN CASE next \in {"?", text[at.t + 1]} -> walk[[at EXCEPT !.p = @ + 1, !.t = @ + 1]]
                    [] next = "*" -> walk[[at EXCEPT !.p = @ + 1, !.star = {<<at.p + 1, at.t>>}]]
                    [] OTHER -> \E later \in Backtrack(at) : walk[later]
  IN walk[[p |-> 0, t |-> 0, star |-> {}]]

\* What a pattern means: each "?" one character, each "*" any run of them.
Denotes(pattern, text) ==
  \E cuts \in [0 .. Len(pattern) -> 0 .. Len(text)] :
    /\ cuts[0] = 0 /\ cuts[Len(pattern)] = Len(text)
    /\ \A k \in 1 .. Len(pattern) :
         /\ cuts[k - 1] <= cuts[k]
         /\ pattern[k] # "*" => cuts[k] = cuts[k - 1] + 1
         /\ pattern[k] \notin {"*", "?"} => text[cuts[k]] = pattern[k]

-----------------------------------------------------------------------------
(* The support configuration. *)

\* Every model some entry supports, in the order first met.
KnownModels ==
  FoldLeft(LAMBDA known, m : IF m \in ToSet(known) THEN known ELSE Append(known, m),
           <<>>, FlattenSeq([i \in DOMAIN Catalog |-> Catalog[i].supported]))

DisabledModels(entry) == SelectSeq(KnownModels, LAMBDA m : m \notin ToSet(entry.supported))

\* The entries' identifiers the device's begins with, longest first met kept.
SupportFor(device) ==
  LET better(best, i) ==
        LET own == {id \in ToSet(Catalog[i].identifiers) : IsPrefix(id, device)}
            longest == {id \in own : \A other \in own : Len(other) <= Len(id)}
        IN  IF \E id \in longest : Len(id) + 1 > best.length
              THEN [entry |-> {i}, length |-> Len(CHOOSE id \in longest : TRUE) + 1] ELSE best
  IN  FoldLeft(better, [entry |-> {}, length |-> 0], [i \in DOMAIN Catalog |-> i]).entry

-----------------------------------------------------------------------------
\* A walk that never looks back past the last star finds every match there is.
GlobIsExact ==
  \A pattern \in Strings(Characters \cup {"*", "?"}, NameLength), text \in Strings(Characters, NameLength) :
    GlobMatch(pattern, text) <=> Denotes(pattern, text)

\* A device gets the entry that names it most closely, and a model is either
\* supported by an entry or disabled by it.
SupportIsClosest ==
  /\ \A device \in Strings(Characters, NameLength + 1) :
       LET naming(i) == {Len(id) : id \in {x \in ToSet(Catalog[i].identifiers) : IsPrefix(x, device)}}
       IN  /\ SupportFor(device) = {} <=> \A i \in DOMAIN Catalog : naming(i) = {}
           /\ \A i \in SupportFor(device), j \in DOMAIN Catalog : \A m \in naming(j) :
                \E n \in naming(i) : n > m \/ (n = m /\ i <= j)
  /\ IsInjective(KnownModels)
  /\ \A i \in DOMAIN Catalog :
       /\ ToSet(Catalog[i].supported) \cap ToSet(DisabledModels(Catalog[i])) = {}
       /\ ToSet(Catalog[i].supported) \cup ToSet(DisabledModels(Catalog[i])) = ToSet(KnownModels)

CatalogHolds == GlobIsExact /\ SupportIsClosest
=============================================================================
