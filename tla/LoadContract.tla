---------------------------- MODULE LoadContract ----------------------------
(***************************************************************************)
(* What is checked of a loaded model before anything is asked of it        *)
(* (model/contract.rs over the description of model/mod.rs), and what the  *)
(* framework then does with a prediction, as the source relies on it.      *)
(*                                                                         *)
(* A description has its input and output features, functions from their   *)
(* names, and the names of its state buffers.  A contract lists features,  *)
(* each with a name, an element type and one Dim per axis.                 *)
(***************************************************************************)
EXTENDS Integers, Sequences, FiniteSets

Exactly(size) == [kind |-> "exactly", min |-> size, count |-> 1]
AnyFixed == [kind |-> "any", min |-> 0, count |-> 1]
AtLeast(floor) == [kind |-> "floor", min |-> floor, count |-> 1]
RangeDim(min, max) == [kind |-> "range", min |-> min, count |-> max - min + 1]

\* Two sets of features, or of numbers: what the first does not name is the
\* second's.
f ++ g == [x \in DOMAIN f \cup DOMAIN g |-> IF x \in DOMAIN f THEN f[x] ELSE g[x]]

\* One axis's sizes as the framework reports them: the smallest, and how many.
AxisRange(min, count) == [min |-> min, count |-> count]
Pinned(shape) == [a \in DOMAIN shape |-> AxisRange(shape[a], 1)]

FeatureContract(name, type, dims) == [name |-> name, type |-> type, dims |-> dims]
Contract(inputs, outputs) == [inputs |-> inputs, outputs |-> outputs]

-----------------------------------------------------------------------------
(* Reading a description.                                                  *)

\* The verdict on a feature's shape, from the framework's type code, the
\* shape it declares, the shapes it enumerates and its axes' ranges.
Classify(code, shape, shapes, ranges) ==
  CASE code = "enumerated" /\ Len(shapes) >= 2 -> "enumerated"
    [] code = "enumerated" /\ Len(shapes) < 2 ->
         IF /\ shapes = <<shape>> /\ shape # <<>>
            /\ ranges = Pinned(shape)
         THEN "fixed" ELSE "unmeasured"
    [] OTHER -> code

\* A feature as the description keeps it.  type is "none" when it is no
\* multi-array; such a feature has no shape and no verdict.
FeatureInfo(type, shape, optional, code, shapes, ranges) ==
  [type |-> type, shape |-> shape, optional |-> optional,
   shapes |-> shapes, ranges |-> ranges,
   verdict |-> IF type = "none" THEN "none" ELSE Classify(code, shape, shapes, ranges)]

\* What a description holds: a feature is of a size along each axis, the ranges
\* the framework gives it are no more than its axes, and a feature that is told
\* to be fixed is pinned to its shape.
DescribedFeature(info) ==
  /\ info.shape \in Seq(Nat)
  /\ DOMAIN info.ranges \subseteq DOMAIN info.shape
  /\ info.verdict = "fixed" => info.ranges = Pinned(info.shape)
Described(description) ==
  /\ \A n \in DOMAIN description.inputs : DescribedFeature(description.inputs[n])
  /\ \A n \in DOMAIN description.outputs : DescribedFeature(description.outputs[n])

-----------------------------------------------------------------------------
(* The check.                                                              *)

\* A contract with a symbolic axis wants a flexible graph, any other wants one
\* with nothing symbolic anywhere.
RequiredVerdict(feature) ==
  IF \E a \in DOMAIN feature.dims : feature.dims[a].kind = "range" THEN "range" ELSE "fixed"

\* One axis against its clause.  Fewer ranges than axes satisfies none.
AxisHolds(dim, ranges, a) ==
  /\ a \in DOMAIN ranges
  /\ CASE dim.kind = "any" -> ranges[a].count = 1
       [] dim.kind = "floor" -> ranges[a].count = 1 /\ ranges[a].min >= dim.min
       [] OTHER -> ranges[a] = AxisRange(dim.min, dim.count)

\* The first clause a feature fails, "ok" when it fails none.
CheckFeature(feature, features) ==
  IF feature.name \notin DOMAIN features THEN "Missing"
  ELSE LET info == features[feature.name]
           empty(a) == feature.dims[a] = AnyFixed /\ a \in DOMAIN info.ranges
                         /\ info.ranges[a] = AxisRange(0, 1)
           wrong == {a \in DOMAIN feature.dims :
                       empty(a) \/ ~AxisHolds(feature.dims[a], info.ranges, a)}
       IN IF info.type # feature.type THEN "DataType"
          ELSE IF Len(info.shape) # Len(feature.dims) THEN "Rank"
          ELSE IF info.verdict # RequiredVerdict(feature) THEN "Flexibility"
          ELSE IF wrong = {} THEN "ok"
          ELSE IF empty(CHOOSE a \in wrong : \A b \in wrong : a <= b) THEN "ZeroSizedAxis"
          ELSE "Axis"

\* An output that is named must also be required of the model: the door reads
\* it.  An input that is named may be optional: the door sends it.
CheckOutput(feature, features) ==
  LET verdict == CheckFeature(feature, features)
  IN IF verdict = "ok" /\ features[feature.name].optional THEN "OptionalOutput" ELSE verdict

Named(list) == {list[i].name : i \in DOMAIN list}
FirstRefusal(verdicts) ==
  LET bad == {i \in DOMAIN verdicts : verdicts[i] # "ok"}
  IN IF bad = {} THEN "ok" ELSE verdicts[CHOOSE i \in bad : \A j \in bad : i <= j]

UnsentInputs(description, contract) ==   \* slip: an input it may go without is owed too
  DOMAIN description.inputs \ Named(contract.inputs)
UnnamedInputs(description, contract) ==
  {n \in DOMAIN description.inputs : ~description.inputs[n].optional}
     \ Named(contract.inputs)

\* The whole check: inputs, outputs, inputs nobody names, states.
CheckLoadContract(description, contract) ==
  FirstRefusal(
    [i \in DOMAIN contract.inputs |-> CheckFeature(contract.inputs[i], description.inputs)]
    \o [i \in DOMAIN contract.outputs |-> CheckOutput(contract.outputs[i], description.outputs)]
    \o << IF UnnamedInputs(description, contract) = {} THEN "ok" ELSE "UnsatisfiableInput",
          IF description.states = {} THEN "ok" ELSE "UnsatisfiableState" >>)

\* The three cases a door's own errors distinguish.
Rendered(violation) ==
  IF violation \in {"UnsatisfiableInput", "UnsatisfiableState"} THEN violation
  ELSE "ContractMismatch"

-----------------------------------------------------------------------------
(* Predicting.                                                             *)

\* The shapes a graph takes for a feature, as far as its description says.
Admits(info, shape) ==
  CASE info.verdict = "fixed" -> shape = info.shape
    [] info.verdict = "enumerated" -> \E i \in DOMAIN info.shapes : info.shapes[i] = shape
    [] info.verdict = "range" ->
         /\ DOMAIN shape = DOMAIN info.ranges
         /\ \A a \in DOMAIN shape :
              shape[a] \in info.ranges[a].min .. info.ranges[a].min + info.ranges[a].count - 1
    [] OTHER -> FALSE

\* A tensor narrows on its way in (32-bit floats to 16), and only so.
Takes(type, sent) == type = sent \/ (type = "f16" /\ sent = "f32")

\* The framework runs a prediction: no state is owed, every required input is
\* there, and each that is sent is one the graph declares and can take.
Runs(description, sent) ==
  /\ description.states = {}
  /\ \A n \in DOMAIN description.inputs : description.inputs[n].optional \/ n \in DOMAIN sent
  /\ \A n \in DOMAIN sent :
       /\ n \in DOMAIN description.inputs
       /\ Takes(description.inputs[n].type, sent[n].type)
       /\ Admits(description.inputs[n], sent[n].shape)

\* What may come of a prediction that asks for the wanted names and reads each
\* as the shape and type given: those outputs alone are looked at.
Outcomes(description, sent, wanted) ==
  IF ~Runs(description, sent) THEN {"Native"}
  ELSE LET absent == {n \in DOMAIN wanted : n \notin DOMAIN description.outputs}
           maybe == {n \in DOMAIN wanted \ absent : description.outputs[n].optional}
           other == {n \in DOMAIN wanted \ absent : description.outputs[n].type = "none"}
           misread == {n \in DOMAIN wanted \ absent :
                         \/ description.outputs[n].type # wanted[n].type
                         \/ ~(/\ description.outputs[n].verdict = "fixed"
                              /\ description.outputs[n].shape = wanted[n].shape)}
       IN (IF absent \cup maybe # {} THEN {"MissingOutput"} ELSE {})
          \cup (IF other # {} THEN {"NotMultiArray"} ELSE {})
          \cup (IF misread # {} THEN {"OutputShape"} ELSE {})
          \cup (IF absent \cup other \cup misread = {} THEN {"ok"} ELSE {})
=============================================================================
