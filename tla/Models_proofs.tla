------------------------ MODULE Models_proofs ------------------------
(***************************************************************************)
(* Proofs about DecoderState, for every size of the caches, every sample   *)
(* length, vocabulary and audio: the invariants of the run decoder_state,  *)
(* and that a pass implements AutoregressiveDecoder. Then about Spelling,  *)
(* AlignmentSets and Settings, which the same run checks: for any list of  *)
(* pairs and any statement about it, for any aligners, languages and       *)
(* texts, and for any setters. Then about Doors: for any description a     *)
(* framework can report and any constants of the doors. Last about         *)
(* LongText: for any text, tokenizer, options and chunker.                 *)
(***************************************************************************)
EXTENDS MCDecoderState, Doors, LongText, Selections_proofs, SequenceTheorems

\* What a step relies on beside the invariants of the run: the records of a
\* pass are empty before it starts, the loop stays below its bound, and a row
\* that is pending is that of the step just made.
PassRecords ==
  /\ phase \in {"idle", "probed"} => rows = {} /\ snapshot = {}
  /\ phase = "idle" => context = <<>> /\ read = {}
  /\ phase \in {"decoding", "stepped", "ended", "captured"} => Len(context) <= LoopCount
  /\ phase = "decoding" => pending = None
  /\ phase = "stepped" =>
       /\ Len(context) > 0
       /\ pending # None => /\ pending = Len(context) - 1
                            /\ staged = context[Len(context)]

IndInv == DecoderInv /\ RowsAreOwn /\ PassRecords

\* The loop never steps past the caches, whatever the sample length: the load
\* contract holds the caches to at least the loop's own bound.
LEMMA LoopCountFacts == LoopCount \in Nat /\ LoopCount < MaxContext /\ 0 \in Slots
  BY ContextAssumption DEF LoopCount, Slots

LEMMA InitInv == Init => IndInv
<1> SUFFICES ASSUME Init PROVE IndInv OBVIOUS
<1>1. TypeOK
  BY LoopCountFacts, ContextAssumption, EmptySeq
     DEF Init, TypeOK, Slots, Rows, None
<1>2. StateFollowsPass BY DEF Init, StateFollowsPass, Fresh
<1>3. RowsAreOwn BY DEF Init, RowsAreOwn
<1>4. PassRecords BY DEF Init, PassRecords
<1> QED BY <1>1, <1>2, <1>3, <1>4 DEF IndInv, DecoderInv

\* A step's memory is one, and appending it extends the pass by its position.
LEMMA FedIsMemory ==
  ASSUME TypeOK, NEW token \in Tokens PROVE Fed(token) \in Memory
  BY DEF TypeOK, Fed, Memory

\* What a successful step does to the tensors, at a slot whose masks are where
\* a pass of that length leaves them.
LEMMA StepOkFacts ==
  ASSUME IndInv, NEW position \in Nat, position < MaxContext,
         NEW memory \in Memory, NEW carried \in BOOLEAN,
         MasksAt(position), StepOk(position, memory, carried)
  PROVE  /\ keys' \in [Slots -> Memory \cup {Nothing}]
         /\ values' \in [Slots -> Memory \cup {Nothing}]
         /\ keys'[position] = memory /\ values'[position] = memory
         /\ \A s \in Slots \ {position} : keys'[s] = keys[s] /\ values'[s] = values[s]
         /\ exposed' \subseteq Slots /\ target' \subseteq Slots
         /\ MasksAt(position + 1)'
         /\ staged' \in Memory \cup {Nothing}
         /\ pending' \in Slots \cup {None} /\ hasRows' \in BOOLEAN
         /\ pending' # None => pending' = position /\ staged' = memory
         /\ hasRows' = (hasRows /\ position # 0)
         /\ alignment' = alignment
<1> USE ContextAssumption
<1>1. position \in Slots BY DEF Slots
<1>2. /\ keys' = [keys EXCEPT ![position] = memory]
      /\ values' = [values EXCEPT ![position] = memory]
      /\ alignment' = alignment
  BY DEF StepOk
<1>3. /\ staged' \in Memory \cup {Nothing}
      /\ pending' \in Slots \cup {None} /\ hasRows' \in BOOLEAN
      /\ pending' # None => pending' = position /\ staged' = memory
      /\ hasRows' = (hasRows /\ position # 0)
  BY <1>1 DEF StepOk, StageRow, IndInv, DecoderInv, TypeOK
<1>4. exposed' \subseteq Slots /\ target' \subseteq Slots /\ MasksAt(position + 1)'
  <2>1. CASE position + 1 \in Slots
    <3>1. /\ exposed' = (0..position) \cup {position + 1}
          /\ target' = ({position} \ {position}) \cup {position + 1}
          /\ position + 1 < MaxContext
      BY <2>1 DEF StepOk, MoveMasks, MasksAt, Slots
    <3>2. (0..position) \cup {position + 1} = 0..(position + 1)
      OBVIOUS
    <3>3. exposed' = 0..(position + 1) /\ target' = {position + 1}
      BY <3>1, <3>2
    <3>4. 0..(position + 1) \subseteq Slots BY <3>1 DEF Slots
    <3> QED BY <2>1, <3>1, <3>3, <3>4 DEF MasksAt
  <2>2. CASE position + 1 \notin Slots
    BY <2>2 DEF StepOk, MoveMasks, MasksAt, Slots
  <2> QED BY <2>1, <2>2
<1> QED BY <1>1, <1>2, <1>3, <1>4 DEF IndInv, DecoderInv, TypeOK

\* What a failed step leaves is still well typed.
LEMMA StepErrFacts ==
  ASSUME IndInv, NEW position \in Nat, position < MaxContext,
         NEW memory \in Memory, NEW at \in Failures,
         StepErr(position, memory, at)
  PROVE  /\ keys' \in [Slots -> Memory \cup {Nothing}]
         /\ values' \in [Slots -> Memory \cup {Nothing}]
         /\ exposed' \subseteq Slots /\ target' \subseteq Slots
         /\ alignment' = alignment /\ staged' = staged
         /\ pending' \in Slots \cup {None} /\ hasRows' \in BOOLEAN
<1> USE ContextAssumption
<1>1. position \in Slots BY DEF Slots
<1>2. exposed' \subseteq Slots /\ target' \subseteq Slots
  BY DEF StepErr, MoveMasks, IndInv, DecoderInv, TypeOK, Slots
<1>3. keys' \in [Slots -> Memory \cup {Nothing}] /\ values' \in [Slots -> Memory \cup {Nothing}]
  BY <1>1 DEF StepErr, IndInv, DecoderInv, TypeOK
<1> QED BY <1>2, <1>3 DEF StepErr, IndInv, DecoderInv, TypeOK

\* A state that was reset is that of a pass that fed nothing.
LEMMA FreshMasks == Fresh => MasksAt(0)
<1>1. {0} = 0..0 OBVIOUS
<1> QED BY <1>1, LoopCountFacts, ContextAssumption DEF Fresh, MasksAt

LEMMA NextInv == IndInv /\ [Next]_vars => IndInv'
<1> SUFFICES ASSUME IndInv, [Next]_vars PROVE IndInv' OBVIOUS
<1> USE ContextAssumption, LoopCountFacts
<1>1. ASSUME NEW token \in Tokens, NEW carried \in BOOLEAN, ProbeStep(token, carried)
      PROVE IndInv'
  <2>1. Fed(token) \in Memory BY FedIsMemory DEF IndInv, DecoderInv
  <2>2. phase = "idle" /\ MasksAt(0)
    BY <1>1, FreshMasks DEF ProbeStep, IndInv, DecoderInv, StateFollowsPass
  <2>3. TypeOK'
    <3>1. context' \in Seq(Memory) /\ Len(context') = 1
      BY <1>1, <2>1 DEF ProbeStep
    <3> QED BY <1>1, <2>1, <2>2, <3>1, StepOkFacts DEF ProbeStep, IndInv, DecoderInv, TypeOK
  <2>4. StateFollowsPass' BY <1>1 DEF ProbeStep, StateFollowsPass
  <2>5. RowsAreOwn' BY <1>1 DEF ProbeStep, RowsAreOwn
  <2>6. PassRecords' BY <1>1, <2>2 DEF ProbeStep, PassRecords, IndInv
  <2> QED BY <2>3, <2>4, <2>5, <2>6 DEF IndInv, DecoderInv
<1>2. ASSUME NEW token \in Tokens, NEW at \in Failures, ProbeFails(token, at)
      PROVE IndInv'
  <2>1. Fed(token) \in Memory BY FedIsMemory DEF IndInv, DecoderInv
  <2>2. TypeOK'
    <3>1. context' \in Seq(Memory) /\ Len(context') = 0 BY <1>2 DEF ProbeFails
    <3> QED BY <1>2, <2>1, <3>1, StepErrFacts DEF ProbeFails, IndInv, DecoderInv, TypeOK
  <2>3. StateFollowsPass' BY <1>2 DEF ProbeFails, StateFollowsPass
  <2>4. RowsAreOwn' BY <1>2 DEF ProbeFails, RowsAreOwn
  <2>5. PassRecords' BY <1>2 DEF ProbeFails, PassRecords, IndInv
  <2> QED BY <2>2, <2>3, <2>4, <2>5 DEF IndInv, DecoderInv
<1>3. CASE ProbeEnds
  <2>1. context' \in Seq(Memory) /\ Len(context') = 0 BY <1>3 DEF ProbeEnds
  <2>2. TypeOK'
    <3>1. TypeOK /\ UNCHANGED <<keys, values, alignment, staged, audio, rows, snapshot>>
      BY <1>3 DEF ProbeEnds, ResetState, IndInv, DecoderInv
    <3>2. exposed' = {0} /\ target' = {0} /\ pending' = None /\ hasRows' = FALSE /\ phase' = "idle"
      BY <1>3 DEF ProbeEnds, ResetState
    <3>3. 0 \in Slots /\ 0 <= MaxContext
      BY LoopCountFacts, ContextAssumption DEF Slots
    <3> QED BY <2>1, <3>1, <3>2, <3>3 DEF TypeOK
  <2>3. StateFollowsPass' BY <1>3 DEF ProbeEnds, ResetState, StateFollowsPass, Fresh
  <2>4. RowsAreOwn' BY <1>3 DEF ProbeEnds, RowsAreOwn
  <2>5. PassRecords' BY <1>3 DEF ProbeEnds, PassRecords, IndInv
  <2> QED BY <2>2, <2>3, <2>4, <2>5 DEF IndInv, DecoderInv
<1>4. CASE BeginDecode
  <2> USE <1>4 DEF BeginDecode, tensors
  <2>1. context = <<>> /\ rows = {} /\ snapshot = {} /\ Fresh
    BY DEF IndInv, DecoderInv, StateFollowsPass, PassRecords
  <2>2. TypeOK' BY DEF IndInv, DecoderInv, TypeOK
  <2>3. StateFollowsPass'
    BY <2>1 DEF StateFollowsPass, Fresh, MasksAt
  <2>4. RowsAreOwn' BY <2>1 DEF RowsAreOwn, Fresh
  <2>5. PassRecords' BY <2>1 DEF PassRecords, Fresh
  <2> QED BY <2>2, <2>3, <2>4, <2>5 DEF IndInv, DecoderInv
<1>5. ASSUME NEW token \in Tokens, NEW carried \in BOOLEAN, Decode(token, carried)
      PROVE IndInv'
  <2> PICK n \in Nat : n = Len(context) BY DEF IndInv, DecoderInv, TypeOK
  <2> PICK m \in Memory : m = Fed(token) BY FedIsMemory DEF IndInv, DecoderInv
  <2>1. m \in Memory /\ n \in Nat OBVIOUS
  <2>2. /\ context \in Seq(Memory) /\ n \in Nat /\ n < LoopCount /\ n < MaxContext
        /\ MasksAt(n) /\ phase = "decoding"
        /\ StepOk(n, m, carried)
        /\ context' = Append(context, m) /\ phase' = "stepped"
        /\ UNCHANGED <<audio, rows, snapshot>>
    BY <1>5 DEF Decode, IndInv, DecoderInv, TypeOK, StateFollowsPass
  <2>3. /\ keys' \in [Slots -> Memory \cup {Nothing}]
        /\ values' \in [Slots -> Memory \cup {Nothing}]
        /\ keys'[n] = m /\ values'[n] = m
        /\ \A s \in Slots \ {n} : keys'[s] = keys[s] /\ values'[s] = values[s]
        /\ exposed' \subseteq Slots /\ target' \subseteq Slots
        /\ MasksAt(n + 1)'
        /\ staged' \in Memory \cup {Nothing}
        /\ pending' \in Slots \cup {None} /\ hasRows' \in BOOLEAN
        /\ pending' # None => pending' = n /\ staged' = m
        /\ hasRows' = (hasRows /\ n # 0)
        /\ alignment' = alignment
    BY <2>1, <2>2, StepOkFacts
  <2>4. /\ context' \in Seq(Memory) /\ Len(context') = n + 1
        /\ DOMAIN context' = 1..(n + 1) /\ DOMAIN context = 1..n
        /\ context'[n + 1] = m
        /\ \A i \in 1..n : context'[i] = context[i]
    BY <2>1, <2>2
  <2>5. TypeOK'
    BY <2>2, <2>3, <2>4 DEF IndInv, DecoderInv, TypeOK
  <2>6. StateFollowsPass'
    <3>1. \A i \in 1..n : keys[i - 1] = context[i] /\ values[i - 1] = context[i]
      BY <2>2, <2>4 DEF IndInv, DecoderInv, StateFollowsPass
    <3>2. \A i \in 1..n : i - 1 \in Slots \ {n}
      BY <2>2 DEF Slots
    <3>3. \A i \in 1..(n + 1) : keys'[i - 1] = context'[i] /\ values'[i - 1] = context'[i]
      <4> SUFFICES ASSUME NEW i \in 1..(n + 1)
                   PROVE keys'[i - 1] = context'[i] /\ values'[i - 1] = context'[i]
        OBVIOUS
      <4>1. CASE i = n + 1 BY <4>1, <2>2, <2>3, <2>4
      <4>2. CASE i \in 1..n BY <4>2, <2>3, <2>4, <3>1, <3>2
      <4> QED BY <2>2, <4>1, <4>2
    <3> QED BY <2>2, <2>3, <2>4, <3>3 DEF StateFollowsPass, MasksAt
  <2>7. RowsAreOwn'
    <3>1. /\ hasRows <=> rows # {}
          /\ rows \subseteq 1..n
          /\ \A r \in rows : alignment[r] = context[r]
      BY <2>2, <2>4 DEF IndInv, RowsAreOwn
    <3>2. hasRows' <=> rows # {}
      <4>1. n = 0 => rows = {} BY <2>2, <3>1
      <4>2. hasRows' = (hasRows /\ n # 0) BY <2>3
      <4>3. QED BY <3>1, <4>1, <4>2, Zenon
    <3>3. \A r \in rows : alignment'[r] = context'[r] BY <2>3, <2>4, <3>1
    <3>4. rows \subseteq DOMAIN context' BY <2>2, <2>4, <3>1
    <3> QED BY <2>2, <3>2, <3>3, <3>4 DEF RowsAreOwn
  <2>8. PassRecords'
    BY <2>2, <2>3, <2>4 DEF PassRecords, None
  <2> QED BY <2>5, <2>6, <2>7, <2>8 DEF IndInv, DecoderInv
<1>6. ASSUME NEW token \in Tokens, NEW at \in Failures, DecodeFails(token, at)
      PROVE IndInv'
  <2>1. Fed(token) \in Memory BY FedIsMemory DEF IndInv, DecoderInv
  <2>2. Len(context) \in Nat /\ Len(context) < MaxContext
    BY <1>6 DEF DecodeFails, IndInv, DecoderInv, TypeOK
  <2>3. TypeOK'
    BY <1>6, <2>1, <2>2, StepErrFacts DEF DecodeFails, IndInv, DecoderInv, TypeOK
  <2>4. StateFollowsPass' BY <1>6 DEF DecodeFails, StateFollowsPass
  <2>5. RowsAreOwn' BY <1>6 DEF DecodeFails, RowsAreOwn
  <2>6. PassRecords' BY <1>6 DEF DecodeFails, PassRecords
  <2> QED BY <2>3, <2>4, <2>5, <2>6 DEF IndInv, DecoderInv
<1>7. CASE Completes
  <2> USE <1>7 DEF Completes, tensors
  <2>1. TypeOK' BY DEF IndInv, DecoderInv, TypeOK
  <2>2. StateFollowsPass' BY DEF IndInv, DecoderInv, StateFollowsPass, MasksAt
  <2>3. RowsAreOwn' BY DEF IndInv, RowsAreOwn
  <2>4. PassRecords' BY DEF IndInv, PassRecords
  <2> QED BY <2>1, <2>2, <2>3, <2>4 DEF IndInv, DecoderInv
<1>8. CASE Commits
  <2> DEFINE n == Len(context)
  <2>1. /\ phase = "stepped" /\ phase' \in {"decoding", "ended"}
        /\ CommitRow
        /\ UNCHANGED <<keys, values, exposed, target, staged, audio, context, read, snapshot>>
    BY <1>8 DEF Commits
  <2>2. /\ context \in Seq(Memory) /\ n \in 1..MaxContext /\ n <= LoopCount
        /\ alignment \in [Rows -> Memory \cup {Nothing}]
        /\ staged \in Memory \cup {Nothing}
        /\ pending # None => pending = n - 1 /\ staged = context[n]
        /\ hasRows <=> rows # {}
        /\ rows \subseteq 1..n
        /\ \A r \in rows : alignment[r] = context[r]
        /\ n \in Rows
    BY <2>1 DEF IndInv, DecoderInv, TypeOK, PassRecords, RowsAreOwn, Rows
  <2>3. /\ pending' = None
        /\ alignment' \in [Rows -> Memory \cup {Nothing}]
        /\ hasRows' \in BOOLEAN
        /\ rows' \subseteq 1..n
        /\ hasRows' <=> rows' # {}
        /\ \A r \in rows' : alignment'[r] = context[r]
    <3>1. CASE pending = None
      BY <3>1, <2>1, <2>2 DEF CommitRow, IndInv, DecoderInv, TypeOK
    <3>2. CASE pending # None
      <4>1. /\ alignment' = [alignment EXCEPT ![n] = context[n]]
            /\ rows' = rows \cup {n} /\ hasRows' = TRUE /\ pending' = None
        BY <3>2, <2>1, <2>2 DEF CommitRow
      <4> HIDE DEF n
      <4>2. context[n] \in Memory \cup {Nothing} BY <3>2, <2>2
      <4>3. alignment' \in [Rows -> Memory \cup {Nothing}] BY <4>1, <4>2, <2>2
      <4>4. ASSUME NEW r \in rows' PROVE alignment'[r] = context[r]
        <5>1. r \in Rows BY <4>1, <2>2, ContextAssumption DEF Rows
        <5>2. CASE r = n BY <5>2, <5>1, <4>1, <2>2
        <5>3. CASE r # n BY <5>3, <5>1, <4>1, <2>2
        <5> QED BY <5>2, <5>3
      <4> QED BY <4>1, <4>3, <4>4, <2>2
    <3> QED BY <3>1, <3>2
  <2>4. TypeOK'
    <3>1. 1..n \subseteq Rows BY <2>2 DEF Rows
    <3> QED BY <2>1, <2>3, <3>1 DEF IndInv, DecoderInv, TypeOK
  <2>5. StateFollowsPass' BY <2>1 DEF IndInv, DecoderInv, StateFollowsPass, MasksAt
  <2>6. RowsAreOwn' BY <2>1, <2>2, <2>3 DEF RowsAreOwn
  <2>7. PassRecords' BY <2>1, <2>2, <2>3 DEF PassRecords
  <2> QED BY <2>4, <2>5, <2>6, <2>7 DEF IndInv, DecoderInv
<1>9. CASE LoopEnds
  <2> USE <1>9 DEF LoopEnds, tensors
  <2>1. TypeOK' BY DEF IndInv, DecoderInv, TypeOK
  <2>2. StateFollowsPass' BY DEF IndInv, DecoderInv, StateFollowsPass, MasksAt
  <2>3. RowsAreOwn' BY DEF IndInv, RowsAreOwn
  <2>4. PassRecords' BY DEF IndInv, PassRecords
  <2> QED BY <2>1, <2>2, <2>3, <2>4 DEF IndInv, DecoderInv
<1>10. CASE Capture
  <2> USE <1>10 DEF Capture, tensors
  <2>1. TypeOK' BY DEF IndInv, DecoderInv, TypeOK
  <2>2. StateFollowsPass' BY DEF IndInv, DecoderInv, StateFollowsPass, MasksAt
  <2>3. RowsAreOwn' BY DEF IndInv, RowsAreOwn
  <2>4. PassRecords' BY DEF IndInv, PassRecords
  <2> QED BY <2>1, <2>2, <2>3, <2>4 DEF IndInv, DecoderInv
<1>11. ASSUME NEW next \in Audio, NextPass(next) PROVE IndInv'
  <2> USE <1>11 DEF NextPass, ResetState
  <2>1. TypeOK' BY EmptySeq DEF IndInv, DecoderInv, TypeOK, Slots, None
  <2>2. StateFollowsPass' BY DEF StateFollowsPass, Fresh
  <2>3. RowsAreOwn' BY DEF RowsAreOwn
  <2>4. PassRecords' BY DEF PassRecords
  <2> QED BY <2>1, <2>2, <2>3, <2>4 DEF IndInv, DecoderInv
<1>12. CASE UNCHANGED vars
  BY <1>12 DEF vars, tensors, pass, IndInv, DecoderInv, TypeOK, StateFollowsPass,
               Fresh, MasksAt, RowsAreOwn, PassRecords
<1> QED BY <1>1, <1>2, <1>3, <1>4, <1>5, <1>6, <1>7, <1>8, <1>9, <1>10, <1>11, <1>12
        DEF Next

THEOREM Invariance == Spec => []IndInv
  BY InitInv, NextInv, PTL DEF Spec

\* Between passes the masks are as good as new, and in a pass they expose what
\* the pass wrote (decode_step, reset_decoder_state).
THEOREM StateFollowsItsPass == Spec => []DecoderInv
  BY Invariance, PTL DEF IndInv

\* The rows read for an attempt's tokens are its own (commit_alignment_row and
\* AlignmentRows).
THEOREM RowsBelongToTheirDecode == Spec => []RowsAreOwn
  BY Invariance, PTL DEF IndInv

\* A prediction of a pass that fed n tokens attends to those and its own.
LEMMA AttendsToItsPass ==
  ASSUME NEW n \in Nat, n < MaxContext, NEW memory, MasksAt(n),
         NEW fed \in Seq(Memory), Len(fed) = n,
         \A i \in DOMAIN fed : keys[i - 1] = fed[i] /\ values[i - 1] = fed[i]
  PROVE  Attended(memory) = Decoder!Contents(Append(fed, memory))
<1> USE ContextAssumption
<1>1. exposed \ target = 0..(n - 1) /\ exposed \cap target = {n}
  BY DEF MasksAt
<1>2. /\ DOMAIN Append(fed, memory) = 1..(n + 1)
      /\ Append(fed, memory)[n + 1] = memory
      /\ \A i \in 1..n : Append(fed, memory)[i] = fed[i]
      /\ DOMAIN fed = 1..n
  OBVIOUS
<1>3. \A s \in 0..(n - 1) : s + 1 \in 1..n /\ keys[s] = fed[s + 1] /\ values[s] = fed[s + 1]
  <2> SUFFICES ASSUME NEW s \in 0..(n - 1)
               PROVE s + 1 \in 1..n /\ keys[s] = fed[s + 1] /\ values[s] = fed[s + 1]
    OBVIOUS
  <2>1. s + 1 \in 1..n /\ (s + 1) - 1 = s OBVIOUS
  <2> QED BY <2>1, <1>2
<1> DEFINE c == Append(fed, memory)
<1>4. Attended(memory) = {<<s, fed[s + 1]>> : s \in 0..(n - 1)} \cup {<<n, memory>>}
  BY <1>1, <1>3 DEF Attended
<1>5. Decoder!Contents(c) = {<<i - 1, c[i]>> : i \in 1..(n + 1)}
  BY <1>2 DEF Decoder!Contents
<1> HIDE DEF c
<1>6. {<<i - 1, c[i]>> : i \in 1..(n + 1)} = {<<s, fed[s + 1]>> : s \in 0..(n - 1)} \cup {<<n, memory>>}
  <2>1. ASSUME NEW i \in 1..(n + 1)
        PROVE <<i - 1, c[i]>> \in {<<s, fed[s + 1]>> : s \in 0..(n - 1)} \cup {<<n, memory>>}
    <3>1. CASE i = n + 1 BY <3>1, <1>2 DEF c
    <3>2. CASE i \in 1..n
      <4>1. i - 1 \in 0..(n - 1) /\ (i - 1) + 1 = i BY <3>2
      <4> QED BY <4>1, <3>2, <1>2 DEF c
    <3> QED BY <3>1, <3>2
  <2>2. ASSUME NEW s \in 0..(n - 1) PROVE <<s, fed[s + 1]>> \in {<<i - 1, c[i]>> : i \in 1..(n + 1)}
    <3>1. s + 1 \in 1..n /\ s + 1 \in 1..(n + 1) /\ (s + 1) - 1 = s OBVIOUS
    <3> QED BY <3>1, <1>2 DEF c
  <2>3. <<n, memory>> \in {<<i - 1, c[i]>> : i \in 1..(n + 1)}
    <3>1. n + 1 \in 1..(n + 1) /\ (n + 1) - 1 = n OBVIOUS
    <3> QED BY <3>1, <1>2 DEF c
  <2> QED BY <2>1, <2>2, <2>3
<1> QED BY <1>4, <1>5, <1>6 DEF c

\* Windows, attempts and probes share one state, and each pass still decodes as
\* if it had one of its own: nothing left in the caches is ever read.
THEOREM PassesAreAutoregressive == Spec => PassIsAutoregressive
<1>1. Init => Decoder!Init BY DEF Init, Decoder!Init
<1>2. IndInv /\ [Next]_vars => [Decoder!Next]_<<context, read>>
  <2> SUFFICES ASSUME IndInv, [Next]_vars, ~UNCHANGED <<context, read>>
               PROVE Decoder!Next
    OBVIOUS
  <2> USE ContextAssumption, LoopCountFacts
  <2>1. ASSUME NEW token \in Tokens, NEW carried \in BOOLEAN, ProbeStep(token, carried)
        PROVE Decoder!Next
    <3>1. Fed(token) \in Memory BY FedIsMemory DEF IndInv, DecoderInv
    <3>2. context = <<>> /\ MasksAt(0) /\ read' = Attended(Fed(token))
      BY <2>1, FreshMasks DEF ProbeStep, StepOk, IndInv, DecoderInv,
                              StateFollowsPass, PassRecords
    <3>3. <<>> \in Seq(Memory) /\ Len(<<>>) = 0 /\ DOMAIN <<>> = {} OBVIOUS
    <3>4. Attended(Fed(token)) = Decoder!Contents(Append(<<>>, Fed(token)))
      <4> DEFINE nothing == <<>>
      <4>1. /\ nothing \in Seq(Memory) /\ Len(nothing) = 0 /\ DOMAIN nothing = {}
            /\ 0 \in Nat /\ 0 < MaxContext
        BY <3>3
      <4>2. \A i \in DOMAIN nothing : keys[i - 1] = nothing[i] /\ values[i - 1] = nothing[i]
        BY <4>1
      <4> HIDE DEF nothing
      <4>3. Attended(Fed(token)) = Decoder!Contents(Append(nothing, Fed(token)))
        BY <3>2, <4>1, <4>2, AttendsToItsPass
      <4> QED BY <4>3 DEF nothing
    <3>5. context' = Append(context, Fed(token)) BY <2>1, <3>2 DEF ProbeStep
    <3> QED BY <3>1, <3>2, <3>4, <3>5 DEF Decoder!Next, Decoder!Feed
  <2>2. ASSUME NEW token \in Tokens, NEW carried \in BOOLEAN, Decode(token, carried)
        PROVE Decoder!Next
    <3>1. Fed(token) \in Memory BY FedIsMemory DEF IndInv, DecoderInv
    <3>2. /\ context \in Seq(Memory) /\ Len(context) \in Nat /\ Len(context) < MaxContext
          /\ MasksAt(Len(context))
          /\ \A i \in DOMAIN context : keys[i - 1] = context[i] /\ values[i - 1] = context[i]
          /\ read' = Attended(Fed(token))
      BY <2>2 DEF Decode, StepOk, IndInv, DecoderInv, TypeOK, StateFollowsPass
    <3>3. Attended(Fed(token)) = Decoder!Contents(Append(context, Fed(token)))
      BY <3>2, AttendsToItsPass
    <3>4. context' = Append(context, Fed(token)) BY <2>2 DEF Decode
    <3> QED BY <3>1, <3>2, <3>3, <3>4 DEF Decoder!Next, Decoder!Feed
  <2>3. CASE \/ ProbeEnds
             \/ \E next \in Audio : NextPass(next)
    BY <2>3 DEF ProbeEnds, NextPass, Decoder!Next, Decoder!Begin
  <2>4. ASSUME NEW token \in Tokens, NEW at \in Failures,
               ProbeFails(token, at) \/ DecodeFails(token, at)
        PROVE FALSE
    BY <2>4 DEF ProbeFails, DecodeFails, StepErr, IndInv, PassRecords
  <2>5. CASE BeginDecode \/ Completes \/ Commits \/ LoopEnds \/ Capture \/ UNCHANGED vars
    BY <2>5 DEF BeginDecode, Completes, Commits, LoopEnds, Capture, vars, pass
  <2> QED BY <2>1, <2>2, <2>3, <2>4, <2>5 DEF Next
<1> QED BY <1>1, <1>2, Invariance, PTL DEF Spec, PassIsAutoregressive, Decoder!Spec

-----------------------------------------------------------------------------
(* Aligners.  What a list of complaints says: the first of them that holds. *)

LEMMA FirstComplaint ==
  ASSUME NEW n \in Nat, NEW c, DOMAIN c = 1..n
  PROVE  \/ FirstOf(c) = "ok" /\ \A i \in 1..n : ~c[i][1]
         \/ \E i \in 1..n : c[i][1] /\ (\A j \in 1..n : j < i => ~c[j][1]) /\ FirstOf(c) = c[i][2]
<1> DEFINE held == {i \in DOMAIN c : c[i][1]}
           first == CHOOSE i \in held : \A j \in held : i <= j
<1>1. FirstOf(c) = IF held = {} THEN "ok" ELSE c[first][2]
  BY Zenon DEF FirstOf
<1>2. CASE held = {}
  BY <1>1, <1>2
<1>3. CASE held # {}
  <2>1. held \in SUBSET Nat
    OBVIOUS
  <2>2. Min(held) \in held /\ \A j \in held : Min(held) <= j
    BY <1>3, <2>1, MinOfNaturals
  <2>3. first \in held /\ \A j \in held : first <= j
    BY <2>2, Zenon
  <2> HIDE DEF first
  <2>4. first \in 1..n /\ c[first][1] /\ FirstOf(c) = c[first][2]
    BY <1>1, <1>3, <2>3
  <2>5. ASSUME NEW j \in 1..n, j < first PROVE ~c[j][1]
    <3>1. j \in DOMAIN c /\ ~(first <= j)
      BY <2>4, <2>5
    <3>2. j \notin held
      BY <2>3, <3>1
    <3>3. QED
      BY <3>1, <3>2
  <2>6. QED
    BY <2>4, <2>5
<1>4. QED
  BY <1>2, <1>3

LEMMA FirstOfTwo ==
  ASSUME NEW list, DOMAIN list = 1..2
  PROVE  FirstOf(list) =
           IF list[1][1] THEN list[1][2] ELSE IF list[2][1] THEN list[2][2] ELSE "ok"
<1>1. 2 \in Nat
  OBVIOUS
<1>2. \/ FirstOf(list) = "ok" /\ \A i \in 1..2 : ~list[i][1]
      \/ \E i \in 1..2 : list[i][1] /\ (\A j \in 1..2 : j < i => ~list[j][1])
                       /\ FirstOf(list) = list[i][2]
  BY <1>1, FirstComplaint
<1>3. 1 \in 1..2 /\ 2 \in 1..2
      /\ \A i \in 1..2 : i = 1 \/ i = 2
  OBVIOUS
<1>4. QED
  BY <1>2, <1>3

LEMMA FirstOfThree ==
  ASSUME NEW list, DOMAIN list = 1..3
  PROVE  FirstOf(list) =
           IF list[1][1] THEN list[1][2] ELSE IF list[2][1] THEN list[2][2]
           ELSE IF list[3][1] THEN list[3][2] ELSE "ok"
<1>1. 3 \in Nat
  OBVIOUS
<1>2. \/ FirstOf(list) = "ok" /\ \A i \in 1..3 : ~list[i][1]
      \/ \E i \in 1..3 : list[i][1] /\ (\A j \in 1..3 : j < i => ~list[j][1])
                       /\ FirstOf(list) = list[i][2]
  BY <1>1, FirstComplaint
<1>3. 1 \in 1..3 /\ 2 \in 1..3 /\ 3 \in 1..3
      /\ \A i \in 1..3 : i = 1 \/ i = 2 \/ i = 3
  OBVIOUS
<1>4. QED
  BY <1>2, <1>3

LEMMA FirstOfFour ==
  ASSUME NEW list, DOMAIN list = 1..4
  PROVE  FirstOf(list) =
           IF list[1][1] THEN list[1][2] ELSE IF list[2][1] THEN list[2][2]
           ELSE IF list[3][1] THEN list[3][2] ELSE IF list[4][1] THEN list[4][2]
           ELSE "ok"
<1>1. 4 \in Nat
  OBVIOUS
<1>2. \/ FirstOf(list) = "ok" /\ \A i \in 1..4 : ~list[i][1]
      \/ \E i \in 1..4 : list[i][1] /\ (\A j \in 1..4 : j < i => ~list[j][1])
                       /\ FirstOf(list) = list[i][2]
  BY <1>1, FirstComplaint
<1>3. 1 \in 1..4 /\ 2 \in 1..4 /\ 3 \in 1..4 /\ 4 \in 1..4
      /\ \A i \in 1..4 : i = 1 \/ i = 2 \/ i = 3 \/ i = 4
  OBVIOUS
<1>4. QED
  BY <1>2, <1>3

LEMMA FirstOfEight ==
  ASSUME NEW list, DOMAIN list = 1..8
  PROVE  FirstOf(list) =
           IF list[1][1] THEN list[1][2] ELSE IF list[2][1] THEN list[2][2]
           ELSE IF list[3][1] THEN list[3][2] ELSE IF list[4][1] THEN list[4][2]
           ELSE IF list[5][1] THEN list[5][2] ELSE IF list[6][1] THEN list[6][2]
           ELSE IF list[7][1] THEN list[7][2] ELSE IF list[8][1] THEN list[8][2]
           ELSE "ok"
<1>1. 8 \in Nat
  OBVIOUS
<1>2. \/ FirstOf(list) = "ok" /\ \A i \in 1..8 : ~list[i][1]
      \/ \E i \in 1..8 : list[i][1] /\ (\A j \in 1..8 : j < i => ~list[j][1])
                       /\ FirstOf(list) = list[i][2]
  BY <1>1, FirstComplaint
<1>3. 1 \in 1..8 /\ 2 \in 1..8 /\ 3 \in 1..8 /\ 4 \in 1..8 /\ 5 \in 1..8 /\ 6 \in 1..8 /\ 7 \in 1..8 /\ 8 \in 1..8
      /\ \A i \in 1..8 : i = 1 \/ i = 2 \/ i = 3 \/ i = 4 \/ i = 5 \/ i = 6 \/ i = 7 \/ i = 8
  OBVIOUS
<1>4. QED
  BY <1>2, <1>3

-----------------------------------------------------------------------------
(* The gather of alignment rows. *)

\* A quotient is the only one with what it leaves.
LEMMA OneQuotient ==
  ASSUME NEW n \in Nat, NEW d \in Nat \ {0}, NEW q \in Nat, NEW r \in 0 .. d - 1, n = d * q + r
  PROVE  n \div d = q /\ n % d = r
<1> DEFINE a == n \div d
           b == n % d
<1>1. a \in Nat /\ b \in 0 .. d - 1 /\ n = d * a + b
  BY Quotients
<1> HIDE DEF a, b
<1>2. ~(a < q)
  <2> SUFFICES ASSUME a < q PROVE FALSE
    OBVIOUS
  <2>1. PICK k \in Nat : q = a + 1 + k
    BY <1>1
  <2>2. d * q = d * a + d + d * k
    BY <1>1, <2>1
  <2>3. d * a \in Nat /\ d * k \in Nat
    BY <1>1
  <2> QED
    BY <1>1, <2>2, <2>3
<1>3. ~(q < a)
  <2> SUFFICES ASSUME q < a PROVE FALSE
    OBVIOUS
  <2>1. PICK k \in Nat : a = q + 1 + k
    BY <1>1
  <2>2. d * a = d * q + d + d * k
    BY <1>1, <2>1
  <2>3. d * q \in Nat /\ d * k \in Nat
    BY <1>1
  <2> QED
    BY <1>1, <2>2, <2>3
<1>4. a = q
  BY <1>1, <1>2, <1>3
<1>5. b = r
  <2>1. d * q \in Nat
    OBVIOUS
  <2> QED
    BY <1>1, <1>4, <2>1
<1> QED
  BY <1>4, <1>5 DEF a, b

\* What follows on the same row, and what comes after.
LEMMA OnTheSameRow ==
  ASSUME NEW n \in Nat, NEW d \in Nat \ {0}, NEW k \in Nat, (n % d) + k < d
  PROVE  (n + k) \div d = n \div d /\ (n + k) % d = (n % d) + k
<1>1. n \div d \in Nat /\ n % d \in 0 .. d - 1 /\ n = d * (n \div d) + (n % d)
  BY Quotients
<1> DEFINE a == n \div d
           b == n % d
<1> HIDE DEF a, b
<1>2. n + k = d * a + (b + k) /\ b + k \in 0 .. d - 1 /\ a \in Nat
  <2>1. d * a \in Nat
    BY <1>1 DEF a
  <2> QED
    BY <1>1, <2>1 DEF a, b
<1>3. n + k \in Nat
  OBVIOUS
<1>4. (n + k) \div d = a /\ (n + k) % d = b + k
  BY <1>2, <1>3, OneQuotient
<1> QED
  BY <1>4 DEF a, b

LEMMA RowsAreInOrder ==
  ASSUME NEW n \in Nat, NEW d \in Nat \ {0}, NEW m \in Nat, n <= m
  PROVE  n \div d <= m \div d
<1> DEFINE a == n \div d
           b == m \div d
<1>1. /\ a \in Nat /\ n % d \in 0 .. d - 1 /\ n = d * a + (n % d)
      /\ b \in Nat /\ m % d \in 0 .. d - 1 /\ m = d * b + (m % d)
  BY Quotients
<1> HIDE DEF a, b
<1> SUFFICES ASSUME b < a PROVE FALSE
  BY <1>1 DEF a, b
<1>2. PICK k \in Nat : a = b + 1 + k
  BY <1>1
<1>3. d * a = d * b + d + d * k
  BY <1>1, <1>2
<1>4. d * b \in Nat /\ d * k \in Nat
  BY <1>1
<1> QED
  BY <1>1, <1>3, <1>4

\* The state of the loop: where a row stands is where its pitch puts it, and the
\* cells behind are what Swift reads; those to come are untouched.
Jobs == [needed : Nat, cols : Nat \ {0}, rows : Nat, sourceRows : Nat, src : Nat \ {0}, dst : Nat \ {0}]
RowEnd(row) == Lesser(row * gather.dst + gather.cols, Copied)
Behind(cell) == cell[1] < spot.row \/ (cell[1] = spot.row /\ cell[2] < spot.column)
GatherInd ==
  /\ gather \in Jobs
  /\ spot \in [row : Nat, column : Nat, offset : Nat, end : Nat]
  /\ spot.column <= gather.cols
  /\ spot.offset = spot.row * gather.dst + spot.column /\ spot.end = RowEnd(spot.row)
  /\ ~PitchHolds => spot.row = 0
  /\ out = [cell \in (0 .. gather.needed - 1) \X (0 .. gather.cols - 1) |-> out[cell]]
  /\ \A cell \in DOMAIN out :
       out[cell] = IF PitchHolds /\ Behind(cell) THEN SwiftReads(cell[1], cell[2]) ELSE Zero

LEMMA GatherIndHolds == GatherInd => GatherIsSwifts
<1> SUFFICES ASSUME GatherInd, NEW cell \in DOMAIN out
             PROVE  /\ PitchHolds /\ cell[1] < spot.row => out[cell] = SwiftReads(cell[1], cell[2])
                    /\ cell[1] > spot.row => out[cell] = Zero
  BY DEF GatherIsSwifts
<1>1. DOMAIN out = (0 .. gather.needed - 1) \X (0 .. gather.cols - 1) /\ spot.row \in Nat
  BY DEF GatherInd
<1>2. cell[1] \in Int /\ cell[2] \in Int
  BY <1>1
<1>3. out[cell] = IF PitchHolds /\ Behind(cell) THEN SwiftReads(cell[1], cell[2]) ELSE Zero
  BY DEF GatherInd
<1>4. cell[1] < spot.row => Behind(cell)
  BY DEF Behind
<1>5. cell[1] > spot.row => ~Behind(cell)
  BY <1>1, <1>2 DEF Behind
<1> QED
  BY <1>3, <1>4, <1>5

LEMMA GatherInitially ==
  ASSUME NEW job \in Jobs, GatherOf(job)
  PROVE  GatherInd
<1>1. /\ gather = job
      /\ spot = [row |-> 0, column |-> 0, offset |-> 0, end |-> Lesser(job.cols, job.needed * job.cols)]
      /\ out = [cell \in (0 .. job.needed - 1) \X (0 .. job.cols - 1) |-> Zero]
  BY DEF GatherOf
<1>2. 0 * gather.dst = 0 /\ gather.cols \in Nat /\ gather.dst \in Nat
  BY <1>1 DEF Jobs
<1>3. RowEnd(0) = Lesser(job.cols, job.needed * job.cols)
  BY <1>1, <1>2 DEF RowEnd, Copied
<1>4. /\ spot \in [row : Nat, column : Nat, offset : Nat, end : Nat]
      /\ spot.row = 0 /\ spot.column = 0 /\ spot.offset = 0 /\ spot.end = RowEnd(spot.row)
  BY <1>1, <1>2, <1>3 DEF Jobs, Lesser
<1>5. \A cell \in DOMAIN out : out[cell] = Zero /\ ~Behind(cell)
  BY <1>1 DEF Behind
<1> QED
  BY <1>1, <1>2, <1>4, <1>5 DEF GatherInd

\* Where the loop stands, in numbers.
LEMMA SpotFacts ==
  ASSUME GatherInd
  PROVE  /\ gather.needed \in Nat /\ gather.cols \in Nat \ {0} /\ gather.dst \in Nat \ {0}
         /\ SourceRows \in Nat /\ SourcePitch \in Nat \ {0} /\ Copied \in Nat
         /\ PitchHolds => gather.cols <= gather.dst /\ gather.cols <= SourcePitch
         /\ spot.row \in Nat /\ spot.column \in 0 .. gather.cols
         /\ spot.row * gather.dst \in Nat
         /\ spot.offset = spot.row * gather.dst + spot.column /\ spot.end = RowEnd(spot.row)
         /\ RowEnd(spot.row) \in Nat
         /\ RowEnd(spot.row) <= Copied /\ RowEnd(spot.row) <= spot.row * gather.dst + gather.cols
<1>1. gather \in Jobs /\ spot.row \in Nat /\ spot.column \in Nat /\ spot.column <= gather.cols
  BY DEF GatherInd
<1>2. /\ gather.needed \in Nat /\ gather.cols \in Nat \ {0} /\ gather.dst \in Nat \ {0}
      /\ gather.rows \in Nat /\ gather.sourceRows \in Nat /\ gather.src \in Nat \ {0}
  BY <1>1 DEF Jobs
<1>3. SourceRows \in Nat /\ SourcePitch \in Nat \ {0}
  BY <1>2 DEF SourceRows, SourcePitch, Lesser
<1>4. PitchHolds => gather.cols <= gather.dst /\ gather.cols <= SourcePitch
  BY <1>2, <1>3 DEF PitchHolds, SourcePitch
<1>5. Copied \in Nat /\ spot.row * gather.dst \in Nat
  BY <1>1, <1>2 DEF Copied
<1>7. spot.offset = spot.row * gather.dst + spot.column /\ spot.end = RowEnd(spot.row)
  BY DEF GatherInd
<1>8. /\ RowEnd(spot.row) \in Nat
      /\ RowEnd(spot.row) <= Copied /\ RowEnd(spot.row) <= spot.row * gather.dst + gather.cols
  BY <1>2, <1>5 DEF RowEnd, Lesser
<1> QED
  BY <1>1, <1>2, <1>3, <1>4, <1>5, <1>7, <1>8

\* What is left of a run stays in its row, and on its row of the source.
LEMMA RunFacts ==
  ASSUME GatherInd, RunLeft, NEW run \in Nat, run <= spot.end - spot.offset,
         (spot.offset % SourcePitch) + run <= SourcePitch
  PROVE  /\ spot.column + run <= gather.cols
         /\ \A d \in 0 .. run - 1 :
              /\ spot.offset + d < Copied
              /\ (spot.offset + d) \div SourcePitch = spot.offset \div SourcePitch
              /\ (spot.offset + d) % SourcePitch = (spot.offset % SourcePitch) + d
<1>1. spot.offset \in Nat /\ spot.end \in Nat
  BY SpotFacts
<1>2. spot.column + run <= gather.cols
  BY SpotFacts
<1>3. ASSUME NEW d \in 0 .. run - 1
      PROVE  /\ spot.offset + d < Copied
             /\ (spot.offset + d) \div SourcePitch = spot.offset \div SourcePitch
             /\ (spot.offset + d) % SourcePitch = (spot.offset % SourcePitch) + d
  <2>1. spot.offset + d < Copied
    BY <1>1, SpotFacts
  <2>2. SourcePitch \in Nat \ {0} /\ d \in Nat
    BY SpotFacts
  <2>3. spot.offset % SourcePitch \in 0 .. SourcePitch - 1
    BY <1>1, <2>2, Quotients
  <2>4. (spot.offset % SourcePitch) + d < SourcePitch
    BY <2>2, <2>3
  <2> QED
    BY <1>1, <2>1, <2>2, <2>4, OnTheSameRow
<1> QED
  BY <1>2, <1>3

\* When no run is left, nothing of the row is.
LEMMA NothingIsLeft ==
  ASSUME GatherInd, Reading, ~RunLeft, NEW column \in spot.column .. gather.cols - 1
  PROVE  SwiftReads(spot.row, column) = Zero
<1> DEFINE o == spot.row * gather.dst + column
<1>1. o \in Nat /\ spot.offset \in Nat /\ spot.offset <= o
  BY SpotFacts
<1>2. CASE ~(spot.offset < spot.end)
  <2>1. o >= RowEnd(spot.row) /\ o < spot.row * gather.dst + gather.cols
    BY <1>1, <1>2, SpotFacts
  <2>2. o >= Copied
    BY <2>1, <1>1, SpotFacts DEF RowEnd, Lesser
  <2> QED
    BY <1>1, <2>2, SpotFacts DEF SwiftReads
<1>3. CASE spot.offset < spot.end
  <2>1. ~(spot.offset \div SourcePitch < SourceRows)
    BY <1>3 DEF RunLeft
  <2>2. spot.offset \div SourcePitch <= o \div SourcePitch
    BY <1>1, SpotFacts, RowsAreInOrder
  <2>3. spot.offset \div SourcePitch \in Nat /\ o \div SourcePitch \in Nat
    BY <1>1, SpotFacts, Quotients
  <2>4. ~(o \div SourcePitch < SourceRows)
    BY <2>1, <2>2, <2>3, SpotFacts
  <2> QED
    BY <2>4 DEF SwiftReads
<1> QED
  BY <1>2, <1>3

\* What is read of the source changes with the job only.
LEMMA JobStays ==
  ASSUME gather' = gather
  PROVE  /\ PitchHolds' = PitchHolds /\ Copied' = Copied
         /\ \A row, column : SwiftReads(row, column)' = SwiftReads(row, column)
         /\ \A row : RowEnd(row)' = RowEnd(row)
  BY DEF PitchHolds, Copied, SwiftReads, RowEnd, SourceRows, SourcePitch

LEMMA NextRowStep == ASSUME GatherInd, NextRow PROVE GatherInd'
<1>1. Reading /\ ~RunLeft /\ spot' = RowFrom(spot.row + 1) /\ gather' = gather /\ out' = out
  BY DEF NextRow, gatherVars
<1>2. /\ spot'.row = spot.row + 1 /\ spot'.column = 0
      /\ spot'.offset = spot'.row * gather.dst + spot'.column /\ spot'.end = RowEnd(spot'.row)
      /\ spot' \in [row : Nat, column : Nat, offset : Nat, end : Nat]
  <2>1. spot' = [row |-> spot.row + 1, column |-> 0, offset |-> (spot.row + 1) * gather.dst,
                 end |-> RowEnd(spot.row + 1)]
    BY <1>1 DEF RowFrom, RowEnd
  <2>2. /\ (spot.row + 1) * gather.dst \in Nat /\ spot.row + 1 \in Nat
        /\ (spot.row + 1) * gather.dst = (spot.row + 1) * gather.dst + 0
    BY SpotFacts
  <2>3. RowEnd(spot.row + 1) \in Nat
    BY <2>2, SpotFacts DEF RowEnd, Lesser
  <2> QED
    BY <2>1, <2>2, <2>3
<1>3. PitchHolds
  BY <1>1 DEF Reading
<1>4. ASSUME NEW cell \in DOMAIN out
      PROVE  out[cell] = IF PitchHolds /\ Behind(cell)' THEN SwiftReads(cell[1], cell[2]) ELSE Zero
  <2>1. cell[1] \in Nat /\ cell[2] \in 0 .. gather.cols - 1
    BY SpotFacts DEF GatherInd
  <2>2. out[cell] = IF PitchHolds /\ Behind(cell) THEN SwiftReads(cell[1], cell[2]) ELSE Zero
    BY DEF GatherInd
  <2>3. Behind(cell)' <=> Behind(cell) \/ (cell[1] = spot.row /\ cell[2] >= spot.column)
    BY <1>2, <2>1, SpotFacts DEF Behind
  <2>4. cell[1] = spot.row /\ cell[2] >= spot.column => SwiftReads(cell[1], cell[2]) = Zero /\ ~Behind(cell)
    BY <1>1, <2>1, SpotFacts, NothingIsLeft DEF Behind
  <2> QED
    BY <1>3, <2>2, <2>3, <2>4
<1>5. spot'.column <= gather.cols
  BY <1>2, SpotFacts
<1>6. /\ gather \in Jobs
      /\ out = [cell \in (0 .. gather.needed - 1) \X (0 .. gather.cols - 1) |-> out[cell]]
  BY DEF GatherInd
<1>7. \A cell \in DOMAIN out' :
        out'[cell] = IF PitchHolds' /\ Behind(cell)' THEN SwiftReads(cell[1], cell[2])' ELSE Zero
  BY <1>1, <1>4, JobStays
<1>8. ~PitchHolds' => spot'.row = 0
  BY <1>1, <1>3, JobStays
<1> QED
  BY <1>1, <1>2, <1>5, <1>6, <1>7, <1>8, JobStays DEF GatherInd

\* Moving on over a run whose cells are then what Swift reads.
LEMMA Onwards ==
  ASSUME GatherInd, RunLeft, NEW run \in Nat, run <= spot.end - spot.offset,
         (spot.offset % SourcePitch) + run <= SourcePitch, Skipping(run), gather' = gather,
         out' = [cell \in DOMAIN out |-> out'[cell]],
         \A cell \in DOMAIN out :
           out'[cell] = IF cell[1] = spot.row /\ cell[2] \in spot.column .. spot.column + run - 1
                        THEN SwiftReads(cell[1], cell[2]) ELSE out[cell]
  PROVE  GatherInd'
<1>1. /\ spot'.row = spot.row /\ spot'.column = spot.column + run
      /\ spot'.offset = spot'.row * gather.dst + spot'.column /\ spot'.end = RowEnd(spot'.row)
      /\ spot' \in [row : Nat, column : Nat, offset : Nat, end : Nat]
  <2>1. spot \in [row : Nat, column : Nat, offset : Nat, end : Nat]
    BY DEF GatherInd
  <2>2. /\ spot'.row = spot.row /\ spot'.column = spot.column + run
        /\ spot'.offset = spot.offset + run /\ spot'.end = spot.end
    BY <2>1 DEF Skipping
  <2>4. spot.offset + run \in Nat /\ spot.column + run \in Nat
    BY <2>1
  <2>5. spot' \in [row : Nat, column : Nat, offset : Nat, end : Nat]
    BY <2>1, <2>4 DEF Skipping
  <2>3. (spot.row * gather.dst + spot.column) + run = spot.row * gather.dst + (spot.column + run)
    BY SpotFacts
  <2> QED
    BY <2>2, <2>3, <2>5, SpotFacts
<1>2. PitchHolds
  BY DEF RunLeft, Reading
<1>3. ASSUME NEW cell \in DOMAIN out
      PROVE  out'[cell] = IF PitchHolds /\ Behind(cell)' THEN SwiftReads(cell[1], cell[2]) ELSE Zero
  <2>1. cell[1] \in Nat /\ cell[2] \in Nat
    BY SpotFacts DEF GatherInd
  <2>2. out[cell] = IF PitchHolds /\ Behind(cell) THEN SwiftReads(cell[1], cell[2]) ELSE Zero
    BY DEF GatherInd
  <2>3. Behind(cell)' <=> \/ Behind(cell)
                          \/ cell[1] = spot.row /\ cell[2] \in spot.column .. spot.column + run - 1
    BY <1>1, <2>1, SpotFacts DEF Behind
  <2> QED
    BY <1>2, <2>2, <2>3
<1>4. spot'.row \in Nat /\ spot'.column \in Nat /\ spot'.column <= gather.cols
  BY <1>1, SpotFacts, RunFacts
<1>5. /\ DOMAIN out' = DOMAIN out
      /\ DOMAIN out = (0 .. gather.needed - 1) \X (0 .. gather.cols - 1)
  BY DEF GatherInd
<1>6. gather \in Jobs
  BY DEF GatherInd
<1> QED
  BY <1>1, <1>2, <1>3, <1>4, <1>5, <1>6, JobStays DEF GatherInd

LEMMA CopyRunStep == ASSUME GatherInd, CopyRun PROVE GatherInd'
<1> DEFINE row == spot.offset \div SourcePitch
           column == spot.offset % SourcePitch
           run == Lesser(gather.cols - column, spot.end - spot.offset)
<1>1. /\ RunLeft /\ column < gather.cols /\ Skipping(run) /\ gather' = gather
      /\ out' = [cell \in DOMAIN out |->
                   IF cell[1] = spot.row /\ cell[2] \in spot.column .. spot.column + run - 1
                   THEN <<row, column + cell[2] - spot.column>> ELSE out[cell]]
  BY DEF CopyRun
<1>2. spot.offset \in Nat /\ spot.end \in Nat /\ column \in 0 .. SourcePitch - 1 /\ SourcePitch \in Nat \ {0}
  <2>1. spot.offset \in Nat /\ spot.end \in Nat /\ SourcePitch \in Nat \ {0}
    BY SpotFacts
  <2> QED
    BY <2>1, Quotients
<1>3. PitchHolds /\ spot.offset < spot.end /\ row < SourceRows
  BY <1>1 DEF RunLeft, Reading
<1>4. gather.cols <= SourcePitch /\ gather.cols \in Nat
  BY <1>3, SpotFacts
<1>5. run \in Nat /\ run <= spot.end - spot.offset /\ run <= gather.cols - column
  BY <1>1, <1>2, <1>3, <1>4 DEF Lesser
<1> HIDE DEF run, column, row
<1>6. column + run <= SourcePitch
  BY <1>2, <1>4, <1>5
<1>7. ASSUME NEW cell \in DOMAIN out, cell[1] = spot.row, cell[2] \in spot.column .. spot.column + run - 1
      PROVE  SwiftReads(cell[1], cell[2]) = <<row, column + cell[2] - spot.column>>
  <2> DEFINE d == cell[2] - spot.column
  <2>1. d \in 0 .. run - 1 /\ spot.row * gather.dst + cell[2] = spot.offset + d
        /\ column + d = column + cell[2] - spot.column
    BY <1>2, <1>5, <1>7, SpotFacts
  <2>2. /\ spot.offset + d < Copied
        /\ (spot.offset + d) \div SourcePitch = row
        /\ (spot.offset + d) % SourcePitch = column + d
    BY <1>1, <1>5, <1>6, <2>1, RunFacts DEF row, column
  <2>3. column + d < gather.cols
    BY <1>2, <1>4, <1>5, <2>1
  <2> HIDE DEF d
  <2> QED
    BY <1>3, <1>7, <2>1, <2>2, <2>3 DEF SwiftReads
<1>8. \A cell \in DOMAIN out :
        out'[cell] = IF cell[1] = spot.row /\ cell[2] \in spot.column .. spot.column + run - 1
                     THEN SwiftReads(cell[1], cell[2]) ELSE out[cell]
  BY <1>1, <1>7
<1>9. out' = [cell \in DOMAIN out |-> out'[cell]]
  BY <1>1
<1>10. (spot.offset % SourcePitch) + run <= SourcePitch
  BY <1>6 DEF column
<1> QED
  BY <1>1, <1>5, <1>8, <1>9, <1>10, Onwards

LEMMA SkipPaddingStep == ASSUME GatherInd, SkipPadding PROVE GatherInd'
<1> DEFINE column == spot.offset % SourcePitch
           run == Lesser(SourcePitch - column, spot.end - spot.offset)
<1>1. RunLeft /\ column >= gather.cols /\ Skipping(run) /\ gather' = gather /\ out' = out
  BY DEF SkipPadding
<1>2. spot.offset \in Nat /\ spot.end \in Nat /\ column \in 0 .. SourcePitch - 1 /\ SourcePitch \in Nat \ {0}
  <2>1. spot.offset \in Nat /\ spot.end \in Nat /\ SourcePitch \in Nat \ {0}
    BY SpotFacts
  <2> QED
    BY <2>1, Quotients
<1>3. spot.offset < spot.end
  BY <1>1 DEF RunLeft
<1>4. run \in Nat /\ run <= spot.end - spot.offset /\ column + run <= SourcePitch
  BY <1>2, <1>3 DEF Lesser
<1> HIDE DEF run, column
<1>5. ASSUME NEW cell \in DOMAIN out, cell[1] = spot.row, cell[2] \in spot.column .. spot.column + run - 1
      PROVE  out[cell] = SwiftReads(cell[1], cell[2])
  <2> DEFINE d == cell[2] - spot.column
  <2>1. d \in 0 .. run - 1 /\ spot.row * gather.dst + cell[2] = spot.offset + d
    BY <1>2, <1>4, <1>5, SpotFacts
  <2>2. (spot.offset + d) % SourcePitch = column + d
    BY <1>1, <1>4, <2>1, RunFacts DEF column
  <2>3. ~(column + d < gather.cols)
    BY <1>1, <1>2, <1>4, <2>1, SpotFacts
  <2> HIDE DEF d
  <2>4. SwiftReads(cell[1], cell[2]) = Zero
    BY <1>5, <2>1, <2>2, <2>3 DEF SwiftReads
  <2>5. ~Behind(cell)
    BY <1>5, SpotFacts DEF Behind
  <2> QED
    BY <2>4, <2>5 DEF GatherInd
<1>6. \A cell \in DOMAIN out :
        out'[cell] = IF cell[1] = spot.row /\ cell[2] \in spot.column .. spot.column + run - 1
                     THEN SwiftReads(cell[1], cell[2]) ELSE out[cell]
  BY <1>1, <1>5
<1>7. out' = [cell \in DOMAIN out |-> out'[cell]]
  BY <1>1 DEF GatherInd
<1>8. (spot.offset % SourcePitch) + run <= SourcePitch
  BY <1>4 DEF column
<1> QED
  BY <1>1, <1>4, <1>6, <1>7, <1>8, Onwards

LEMMA GatherStep == ASSUME GatherInd, [GatherNext]_gatherVars PROVE GatherInd'
<1>1. CASE UNCHANGED gatherVars
  <2>1. gather' = gather /\ spot' = spot /\ out' = out
    BY <1>1 DEF gatherVars
  <2>2. GatherInd' <=> GatherInd
    BY <2>1, JobStays DEF GatherInd, Jobs, Behind
  <2> QED
    BY <2>2
<1> QED
  BY <1>1, CopyRunStep, SkipPaddingStep, NextRowStep DEF GatherNext

\* For any matrix, however its rows are padded and however many of them there
\* are: a row the gather has left holds what Swift reads of it.
THEOREM RowsAreGathered ==
  (\E job \in Jobs : GatherOf(job)) /\ [][GatherNext]_gatherVars => []GatherIsSwifts
<1>1. (\E job \in Jobs : GatherOf(job)) => GatherInd
  BY GatherInitially
<1>2. GatherInd /\ [GatherNext]_gatherVars => GatherInd'
  BY GatherStep
<1> QED
  BY <1>1, <1>2, GatherIndHolds, PTL

\* The same of the system the run checks.
THEOREM RowsAreGatheredInTheRun == MCSpec => []GatherIsSwifts
<1>1. MCInit => GatherInd
  <2>1. Idle \in Jobs
    BY DEF Idle, Jobs
  <2>2. GatherInit => \E job \in Jobs : GatherOf(job)
    <3>1. \A n \in 1 .. 4, c \in 1 .. 3, t \in 0 .. 4, r \in 0 .. 4, s \in 1 .. 5, d \in 1 .. 5 :
            [needed |-> n, cols |-> c, rows |-> t, sourceRows |-> r, src |-> s, dst |-> d] \in Jobs
      BY DEF Jobs
    <3> QED
      BY <3>1 DEF GatherInit
  <2> QED
    BY <2>1, <2>2, GatherInitially DEF MCInit
<1>2. GatherInd /\ [MCNext]_inferenceVars => GatherInd'
  <2>1. [MCNext]_inferenceVars => [GatherNext]_gatherVars
    BY DEF MCNext, inferenceVars
  <2> QED
    BY <2>1, GatherStep
<1> QED
  BY <1>1, <1>2, GatherIndHolds, PTL DEF MCSpec

-----------------------------------------------------------------------------
(* Spelling. *)

\* Any list of pairs, under any statement.
Written ==
  /\ \E S : given \in Seq(S)
  /\ stated.contract.delimiter \in {"Pipe", "Space", "Absent"}
  /\ stated.contract.case \in {"Upper", "AsWritten"}
  /\ stated.delimited \in BOOLEAN

\* n places named by n entries, none of them missing: each entry has its own.
LEMMA EachPlaceOnce ==
  ASSUME NEW n \in Nat, NEW place, \A id \in 0..(n - 1) : \E i \in 1..n : place[i] = id
  PROVE  /\ \A i \in 1..n : place[i] \in 0..(n - 1)
         /\ \A i, j \in 1..n : place[i] = place[j] => i = j
<1> DEFINE images == {place[i] : i \in 1..n}
           f == [i \in 1..n |-> place[i]]
<1>1. IsFiniteSet(1..n) /\ Cardinality(1..n) = n
  BY FS_Interval
<1>2. IsFiniteSet(0..(n - 1)) /\ Cardinality(0..(n - 1)) = n
  <2>1. 0 \in Int /\ n - 1 \in Int /\ (IF 0 > n - 1 THEN 0 ELSE n - 1 - 0 + 1) = n
    OBVIOUS
  <2>2. QED
    BY <2>1, FS_Interval
<1>3. f \in Surjection(1..n, images)
  BY DEF Surjection
<1>4. /\ IsFiniteSet(images) /\ Cardinality(images) <= n
      /\ Cardinality(images) = n <=> f \in Injection(1..n, images)
  BY <1>1, <1>3, FS_Surjection
<1>5. 0..(n - 1) \subseteq images
  OBVIOUS
<1>6. images = 0..(n - 1)
  <2> HIDE DEF images
  <2>1. Cardinality(0..(n - 1)) <= Cardinality(images) /\ Cardinality(images) \in Nat
        /\ (Cardinality(0..(n - 1)) = Cardinality(images) => 0..(n - 1) = images)
    BY <1>4, <1>5, FS_Subset, FS_CardinalityType
  <2>2. QED
    BY <1>2, <1>4, <2>1
<1>7. f \in Injection(1..n, images)
  <2> HIDE DEF images, f
  <2>1. QED
    BY <1>2, <1>4, <1>6
<1>8. \A i, j \in 1..n : f[i] = f[j] => i = j
  <2> HIDE DEF images, f
  <2>1. QED
    BY <1>7 DEF Injection, IsInjective
<1>9. QED
  BY <1>6, <1>8

LEMMA FromJsonFacts ==
  ASSUME NEW S, NEW pairs \in Seq(S)
  PROVE  /\ FromJson(pairs).what \in {"ok", "DuplicateToken", "Empty", "MissingId"}
         /\ FromJson(pairs).what = "ok" =>
              /\ DOMAIN FromJson(pairs).table = 0..(Len(pairs) - 1)
              /\ \A i \in 1..Len(pairs) : FromJson(pairs).table[pairs[i][2]] = pairs[i][1]
<1> DEFINE size == Len(pairs)
           ids == {pairs[i][2] : i \in 1..size}
           missing == {id \in 0..size - 1 : id \notin ids}
           twice == \E i, j \in 1..size : i # j /\ pairs[i][1] = pairs[j][1]
           none == size = 0
           lacking == missing # {}
           parsed == FirstOf(<< <<twice, "DuplicateToken">>, <<none, "Empty">>,
                              <<lacking, "MissingId">> >>)
           table == [id \in 0..size - 1 |-> pairs[CHOOSE i \in 1..size : pairs[i][2] = id][1]]
<1>1. FromJson(pairs) = [what |-> parsed, table |-> IF parsed # "ok" THEN <<>> ELSE table]
  BY Zenon DEF FromJson
<1>2. twice \in BOOLEAN /\ none \in BOOLEAN /\ lacking \in BOOLEAN
  OBVIOUS
<1> HIDE DEF twice, none, lacking
<1>3. parsed = IF twice THEN "DuplicateToken" ELSE IF none THEN "Empty"
             ELSE IF lacking THEN "MissingId" ELSE "ok"
  <2>1. \A a, b, c \in BOOLEAN :
          FirstOf(<< <<a, "DuplicateToken">>, <<b, "Empty">>, <<c, "MissingId">> >>)
            = IF a THEN "DuplicateToken" ELSE IF b THEN "Empty" ELSE IF c THEN "MissingId" ELSE "ok"
    BY FirstOfThree
  <2>2. QED
    BY <1>2, <2>1
<1> HIDE DEF parsed
<1>4. parsed \in {"ok", "DuplicateToken", "Empty", "MissingId"} /\ (parsed = "ok" => missing = {})
  BY <1>3 DEF lacking
<1>5. ASSUME missing = {}, NEW i \in 1..size PROVE table[pairs[i][2]] = pairs[i][1]
  <2> DEFINE place == [k \in 1..size |-> pairs[k][2]]
  <2>1. size \in Nat /\ \A id \in 0..(size - 1) : \E k \in 1..size : place[k] = id
    BY <1>5
  <2> HIDE DEF place
  <2>2. /\ \A k \in 1..size : place[k] \in 0..(size - 1)
        /\ \A k, l \in 1..size : place[k] = place[l] => k = l
    BY <2>1, EachPlaceOnce
  <2>3. /\ pairs[i][2] \in 0..(size - 1)
        /\ \A k \in 1..size : pairs[k][2] = pairs[i][2] => k = i
    BY <2>2 DEF place
  <2>4. (CHOOSE k \in 1..size : pairs[k][2] = pairs[i][2]) = i
    BY <2>3
  <2>5. QED
    BY <2>3, <2>4
<1>6. DOMAIN table = 0..(size - 1)
  OBVIOUS
<1> HIDE DEF table, missing
<1>7. FromJson(pairs).what = parsed /\ (parsed = "ok" => FromJson(pairs).table = table)
  BY <1>1
<1>8. QED
  BY <1>4, <1>5, <1>6, <1>7

\* What a load says, check by check.
LEMMA TokenizationFacts ==
  ASSUME NEW table, NEW contract, NEW delimited \in BOOLEAN
  PROVE  LET what == CheckTokenization(table, contract, delimited)
             lexical == Lexical(table, contract)
         IN  /\ what # "ReservedSetMismatch"
             /\ what = "ok" =>
                  /\ ~EmptySpecial(table, contract)
                  /\ \A token \in lexical : ~IsWhitespace(token) /\ IsOneScalar(token)
                  /\ contract.case = "Upper" => lexical \cap Lowercase = {}
<1> DEFINE lexical == Lexical(table, contract)
           spells == contract.delimiter # "Absent"
           empty == EmptySpecial(table, contract)
           white == \E token \in lexical : IsWhitespace(token)
           absent == spells /\ delimited /\ ~Contains(table, SeamToken(contract.delimiter))
           unused == spells /\ ~delimited
           required == ~spells /\ delimited
           lower == contract.case = "Upper" /\ lexical \cap Lowercase # {}
           upper == contract.case = "AsWritten" /\ lexical \cap Uppercase # {} /\ lexical \cap Lowercase = {}
           long == \E token \in lexical : ~IsOneScalar(token)
           list == << <<empty, "EmptySpecial">>, <<white, "WhitespaceToken">>,
                      <<absent, "DelimiterMissing">>, <<unused, "DelimiterUnused">>,
                      <<required, "DelimiterRequired">>, <<lower, "UpperWithLowercase">>,
                      <<upper, "ProjectedAsWritten">>, <<long, "NotCharacterLevel">> >>
<1>1. CheckTokenization(table, contract, delimited) = FirstOf(list)
  BY Zenon DEF CheckTokenization
<1>2. /\ empty \in BOOLEAN /\ white \in BOOLEAN /\ absent \in BOOLEAN /\ unused \in BOOLEAN
      /\ required \in BOOLEAN /\ lower \in BOOLEAN /\ upper \in BOOLEAN /\ long \in BOOLEAN
  BY DEF EmptySpecial
<1> HIDE DEF empty, white, absent, unused, required, lower, upper, long
<1>3. DOMAIN list = 1..8
  OBVIOUS
<1>4. FirstOf(list) =
        IF empty THEN "EmptySpecial" ELSE IF white THEN "WhitespaceToken"
        ELSE IF absent THEN "DelimiterMissing" ELSE IF unused THEN "DelimiterUnused"
        ELSE IF required THEN "DelimiterRequired" ELSE IF lower THEN "UpperWithLowercase"
        ELSE IF upper THEN "ProjectedAsWritten" ELSE IF long THEN "NotCharacterLevel" ELSE "ok"
  BY <1>2, <1>3, FirstOfEight
<1> HIDE DEF list
<1>5. FirstOf(list) # "ReservedSetMismatch"
      /\ (FirstOf(list) = "ok" => ~empty /\ ~white /\ ~lower /\ ~long)
  BY <1>4
<1>6. QED
  BY <1>1, <1>5, Zenon DEF empty, white, lower, long

LEMMA LoadFacts ==
  ASSUME NEW table, NEW contract, NEW delimited \in BOOLEAN, NEW width
  PROVE  LET what == LoadWithVocabulary(table, contract, delimited, width)
             disagreement == CheckTokenization(table, contract, delimited)
         IN  /\ what = "ReservedSetMismatch" =>
                  /\ CheckBlank(table, contract) /\ disagreement = "ok"
                  /\ ~CheckReserved(table, contract)
             /\ what = "ok" =>
                  /\ CheckBlank(table, contract) /\ disagreement = "ok"
                  /\ CheckReserved(table, contract)
<1> DEFINE disagreement == CheckTokenization(table, contract, delimited)
           outside == ~CheckBlank(table, contract)
           disagrees == disagreement # "ok"
           mismatched == ~CheckReserved(table, contract)
           narrow == Cardinality(DOMAIN table) # width
           list == << <<outside, "BlankOutOfVocabulary">>, <<disagrees, disagreement>>,
                      <<mismatched, "ReservedSetMismatch">>, <<narrow, "VocabularyMismatch">> >>
<1>1. LoadWithVocabulary(table, contract, delimited, width) = FirstOf(list)
  BY Zenon DEF LoadWithVocabulary
<1>2. /\ outside \in BOOLEAN /\ disagrees \in BOOLEAN /\ mismatched \in BOOLEAN
      /\ narrow \in BOOLEAN
  OBVIOUS
<1>3. disagreement # "ReservedSetMismatch"
  BY TokenizationFacts
<1> HIDE DEF disagreement, outside, disagrees, mismatched, narrow
<1>4. FirstOf(list) =
        IF outside THEN "BlankOutOfVocabulary" ELSE IF disagrees THEN disagreement
        ELSE IF mismatched THEN "ReservedSetMismatch" ELSE IF narrow THEN "VocabularyMismatch" ELSE "ok"
  <2>1. DOMAIN list = 1..4
    OBVIOUS
  <2>2. QED
    BY <1>2, <2>1, FirstOfFour
<1> HIDE DEF list
<1>5. /\ FirstOf(list) = "ReservedSetMismatch" => ~outside /\ disagreement = "ok" /\ mismatched
      /\ FirstOf(list) = "ok" => ~outside /\ disagreement = "ok" /\ ~mismatched
  BY <1>3, <1>4 DEF disagrees
<1>6. QED
  BY <1>1, <1>5, Zenon DEF disagreement, outside, mismatched

\* The seam reserves what the contract declares.  It adds its blank, the token
\* it delimits with and the unknown one; each is declared, or is no letter and
\* would have been refused.  It drops a special that spells nothing; that one
\* is reserved anyway, or would have been refused.
LEMMA WhatIsDeclaredIsReserved ==
  ASSUME NEW table, NEW contract, NEW delimited \in BOOLEAN,
         contract.delimiter \in {"Pipe", "Space", "Absent"},
         CheckBlank(table, contract), CheckTokenization(table, contract, delimited) = "ok"
  PROVE  CheckReserved(table, contract)
<1> DEFINE document == TokenizerDocument(table, contract)
           reserved == SeamReserved(document, contract)
           declared == NonLexical(table, contract)
           letters == DOMAIN table \ declared
<1>1. document.vocab = table /\ document.special = declared /\ document.unknown = "<unk>"
  BY DEF TokenizerDocument
<1>2. /\ contract.blank \in DOMAIN table /\ ~EmptySpecial(table, contract)
      /\ \A token \in Lexical(table, contract) : IsOneScalar(token)
  BY TokenizationFacts DEF CheckBlank
<1>3. \A id \in letters : table[id] # "" /\ table[id] # "<unk>"
  BY <1>2 DEF Lexical, IsOneScalar, Names
<1>4. declared \subseteq DOMAIN table
  BY DEF NonLexical, IdOf
<1>5. ASSUME NEW id \in declared PROVE id \in reserved
  <2>1. CASE table[id] # ""
    BY <1>1, <1>5, <2>1 DEF SeamReserved, ParsedSpecials
  <2>2. CASE table[id] = ""
    <3>1. CASE id = contract.blank
      BY <3>1 DEF SeamReserved
    <3>2. CASE id \in IdOf(table, SeamToken(contract.delimiter))
      BY <1>1, <3>2 DEF SeamReserved
    <3>3. CASE id # contract.blank /\ id \notin IdOf(table, SeamToken(contract.delimiter))
      <4>1. PICK special \in contract.specials : id \in IdOf(table, special)
        BY <1>5, <3>3 DEF NonLexical
      <4>2. "" \in contract.specials /\ id \in IdOf(table, "")
        BY <2>2, <4>1 DEF IdOf
      <4>3. IdOf(table, SeamToken(contract.delimiter)) = {id}
        BY <1>2, <3>3, <4>2 DEF EmptySpecial
      <4>4. QED
        BY <3>3, <4>3
    <3>4. QED
      BY <3>1, <3>2, <3>3
  <2>3. QED
    BY <2>1, <2>2
<1>6. ASSUME NEW id \in reserved PROVE id \in declared
  <2>1. CASE id \in ParsedSpecials(document)
    BY <1>1, <2>1 DEF ParsedSpecials
  <2>2. CASE id = contract.blank
    BY <1>2, <2>2 DEF NonLexical
  <2>3. CASE id \in IdOf(table, "<unk>")
    <3>1. id \in DOMAIN table /\ table[id] = "<unk>"
      BY <2>3 DEF IdOf
    <3>2. QED
      BY <1>3, <3>1
  <2>4. CASE id \in IdOf(table, SeamToken(contract.delimiter))
    <3>1. CASE contract.delimiter # "Absent"
      BY <2>4, <3>1 DEF NonLexical
    <3>2. CASE contract.delimiter = "Absent"
      <4>1. id \in DOMAIN table /\ table[id] = ""
        BY <2>4, <3>2 DEF IdOf, SeamToken
      <4>2. QED
        BY <1>3, <4>1
    <3>3. QED
      BY <3>1, <3>2
  <2>5. QED
    BY <1>1, <1>6, <2>1, <2>2, <2>3, <2>4 DEF SeamReserved
<1>7. QED
  BY <1>5, <1>6 DEF CheckReserved

\* A column that is not reserved is the one its own token is read in.
LEMMA ALetterIsRead ==
  ASSUME NEW table, NEW contract, NEW delimited \in BOOLEAN, NEW id \in DOMAIN table,
         contract.case \in {"Upper", "AsWritten"},
         CheckTokenization(table, contract, delimited) = "ok", CheckReserved(table, contract),
         id \notin SeamReserved(TokenizerDocument(table, contract), contract)
  PROVE  id \in ColumnsRead(TokenizerDocument(table, contract), contract, table[id])
<1>1. table[id] \in Lexical(table, contract)
  BY DEF CheckReserved, Lexical
<1>2. /\ ~IsWhitespace(table[id]) /\ IsOneScalar(table[id])
      /\ contract.case = "Upper" => table[id] \notin Lowercase
  BY <1>1, TokenizationFacts
<1>3. InCase(contract.case, table[id]) = table[id]
  BY <1>2 DEF InCase, Lowercase
<1>4. id \in IdOf(TokenizerDocument(table, contract).vocab, table[id])
  BY DEF IdOf, TokenizerDocument
<1>5. QED
  BY <1>2, <1>3, <1>4 DEF ColumnsRead

\* The table that is read is spelt with as its contract says.
LEMMA SpellingStep ==
  ASSUME Written, SpellingNext
  PROVE  SpellingHolds'
<1> DEFINE parsed == FromJson(given)
           said == LoadWithVocabulary(parsed.table, stated.contract, stated.delimited, stated.width)
<1>1. /\ UNCHANGED <<given, stated>>
      /\ load' = IF parsed.what # "ok" THEN parsed ELSE [what |-> said, table |-> parsed.table]
  BY Zenon DEF SpellingNext
<1>2. PICK S : given \in Seq(S)
  BY DEF Written
<1>3. /\ parsed.what \in {"ok", "DuplicateToken", "Empty", "MissingId"}
      /\ parsed.what = "ok" =>
           /\ DOMAIN parsed.table = 0..(Len(given) - 1)
           /\ \A i \in 1..Len(given) : parsed.table[given[i][2]] = given[i][1]
  BY <1>2, FromJsonFacts
<1>4. /\ said = "ReservedSetMismatch" =>
           /\ CheckBlank(parsed.table, stated.contract)
           /\ CheckTokenization(parsed.table, stated.contract, stated.delimited) = "ok"
           /\ ~CheckReserved(parsed.table, stated.contract)
      /\ said = "ok" =>
           /\ CheckTokenization(parsed.table, stated.contract, stated.delimited) = "ok"
           /\ CheckReserved(parsed.table, stated.contract)
  BY LoadFacts DEF Written
<1>5. said # "ReservedSetMismatch"
  <2>1. SUFFICES ASSUME said = "ReservedSetMismatch" PROVE FALSE
    OBVIOUS
  <2>2. CheckReserved(parsed.table, stated.contract)
    BY <1>4, <2>1, WhatIsDeclaredIsReserved DEF Written
  <2>3. QED
    BY <1>4, <2>1, <2>2
<1> HIDE DEF parsed, said
<1>6. CASE parsed.what # "ok"
  <2>1. load' = parsed /\ load.what' = parsed.what
    BY <1>1, <1>6
  <2>2. QED
    BY <1>3, <1>6, <2>1 DEF SpellingHolds, ReservedAsDeclared, EveryColumnIsReadOrReserved
<1>7. CASE parsed.what = "ok"
  <2>1. load'.what = said /\ load'.table = parsed.table
    BY <1>1, <1>7
  <2>2. ASSUME said = "ok", NEW id \in DOMAIN parsed.table,
               id \notin SeamReserved(TokenizerDocument(parsed.table, stated.contract), stated.contract)
        PROVE  id \in ColumnsRead(TokenizerDocument(parsed.table, stated.contract),
                                  stated.contract, parsed.table[id])
    BY <1>4, <2>2, ALetterIsRead DEF Written
  <2>3. ReservedAsDeclared'
    BY <1>5, <2>1 DEF ReservedAsDeclared
  <2>4. EveryColumnIsReadOrReserved'
    <3>1. given' = given /\ stated' = stated
      BY <1>1
    <3>2. QED
      BY <1>3, <1>7, <2>1, <2>2, <3>1 DEF EveryColumnIsReadOrReserved
  <2>5. QED
    BY <2>3, <2>4 DEF SpellingHolds
<1>8. QED
  BY <1>6, <1>7

-----------------------------------------------------------------------------
(* Alignment. *)

\* The frames of the real samples are frames of the window.
LEMMA FramesAreTheWindows ==
  /\ DeclaredFrames \in Nat
  /\ \A real \in Nat : TruncatedFrameCount(real) \in 0..DeclaredFrames
<1>1. \A n \in Nat : GeometryFrames(n) \in Nat
  <2>1. \A n \in Nat, h \in Nat \ {0} : n \div h \in Nat
    OBVIOUS
  <2>2. TAKE n \in Nat
  <2>3. CASE n < ReceptiveField
    BY <2>3 DEF GeometryFrames
  <2>4. CASE ~(n < ReceptiveField)
    <3>1. PICK m \in Nat : m = n - ReceptiveField
      BY <2>4, GeometryAssumption
    <3>2. m \div Hop \in Nat
      BY <2>1, GeometryAssumption
    <3>3. GeometryFrames(n) = m \div Hop + 1
      BY <2>4, <3>1 DEF GeometryFrames
    <3>4. QED
      BY <3>2, <3>3
  <2>5. QED
    BY <2>3, <2>4
<1>2. DeclaredFrames \in Nat
  BY <1>1, GeometryAssumption DEF DeclaredFrames
<1>3. ASSUME NEW real \in Nat PROVE TruncatedFrameCount(real) \in 0..DeclaredFrames
  <2>1. PICK padded \in Nat : padded = IF real < ReceptiveField THEN ReceptiveField ELSE real
    BY GeometryAssumption
  <2>2. PICK frames \in Nat : frames = GeometryFrames(padded)
    BY <1>1
  <2>3. TruncatedFrameCount(real) =
          IF real = 0 THEN 0 ELSE IF frames < DeclaredFrames THEN frames ELSE DeclaredFrames
    BY <2>1, <2>2, Zenon DEF TruncatedFrameCount
  <2>4. QED
    BY <1>2, <2>2, <2>3
<1>4. QED
  BY <1>2, <1>3

\* A prediction that is taken brings its rows, and rows that are
\* log-probabilities are each a distribution or a saturated one.
LEMMA EmissionFacts ==
  ASSUME NEW aligner, NEW real \in Nat, NEW prediction,
         prediction.rows \in [1..DeclaredFrames -> RowKinds],
         prediction.what \in {"ok", "Prediction", "Tensor", "OutputShape"}
  PROVE  LET heard == Emissions(aligner, EncoderInput(real), prediction)
         IN  /\ heard.what \in {"ok", "InputTooLong", "Prediction", "Tensor", "OutputShape",
                                "CorruptEmissions", "UnnormalizedEmissions"}
             /\ heard.rows \in Seq(RowKinds) /\ Len(heard.rows) = TruncatedFrameCount(real)
             /\ heard.what \in Corrupt => \E i \in DOMAIN heard.rows : heard.rows[i] # "own"
             /\ heard.what = "ok" /\ aligner.output = "LogProbabilities" =>
                  \A i \in DOMAIN heard.rows :
                    /\ heard.rows[i] # "shifted"
                    /\ aligner.band => heard.rows[i] # "saturated"
<1> DEFINE input == EncoderInput(real)
           kept == SubSeq(prediction.rows, 1, TruncatedFrameCount(real))
           domain == CheckValueDomain(kept, aligner)
           long == ~CheckWindow(input)
           fails == prediction.what # "ok"
           corrupt == domain # "ok"
           list == << <<long, "InputTooLong">>, <<fails, prediction.what>>, <<corrupt, domain>> >>
<1>1. input.real = real
  BY DEF EncoderInput
<1>2. Emissions(aligner, input, prediction) = [rows |-> kept, what |-> FirstOf(list)]
  BY <1>1, Zenon DEF Emissions
<1>3. kept \in Seq(RowKinds) /\ Len(kept) = TruncatedFrameCount(real)
  <2>1. TruncatedFrameCount(real) \in 0..DeclaredFrames /\ DeclaredFrames \in Nat
    BY FramesAreTheWindows
  <2>2. \A i \in 1..TruncatedFrameCount(real) : prediction.rows[i] \in RowKinds
    BY <2>1
  <2>3. QED
    BY <2>1, <2>2, SubSeqProperties
<1> HIDE DEF input, kept
<1>4. /\ domain \in {"ok"} \cup Corrupt
      /\ domain \in Corrupt => ~CheckSentinelBand(kept, aligner.band) \/ ~CheckLogProbNormalization(kept)
      /\ domain = "ok" /\ aligner.output # "Logits" =>
           CheckSentinelBand(kept, aligner.band) /\ CheckLogProbNormalization(kept)
  <2> DEFINE odd == ~CheckSentinelBand(kept, aligner.band)
             off == ~CheckLogProbNormalization(kept)
             checks == << <<odd, "CorruptEmissions">>, <<off, "UnnormalizedEmissions">> >>
  <2>1. domain = IF aligner.output = "Logits" THEN "ok" ELSE FirstOf(checks)
    BY Zenon DEF CheckValueDomain
  <2>2. odd \in BOOLEAN /\ off \in BOOLEAN
    OBVIOUS
  <2> HIDE DEF odd, off
  <2>3. FirstOf(checks) = IF odd THEN "CorruptEmissions"
                          ELSE IF off THEN "UnnormalizedEmissions" ELSE "ok"
    <3>1. DOMAIN checks = 1..2
      OBVIOUS
    <3>2. QED
      BY <2>2, <3>1, FirstOfTwo
  <2> HIDE DEF checks, domain
  <2>4. QED
    BY <2>1, <2>3 DEF odd, off, Corrupt
<1>5. long \in BOOLEAN /\ fails \in BOOLEAN /\ corrupt \in BOOLEAN
  OBVIOUS
<1> HIDE DEF long, fails, corrupt, domain
<1>6. FirstOf(list) = IF long THEN "InputTooLong" ELSE IF fails THEN prediction.what
                      ELSE IF corrupt THEN domain ELSE "ok"
  <2>1. DOMAIN list = 1..3
    OBVIOUS
  <2>2. QED
    BY <1>5, <2>1, FirstOfThree
<1> HIDE DEF list
<1>7. /\ FirstOf(list) \in {"ok", "InputTooLong", "Prediction", "Tensor", "OutputShape",
                            "CorruptEmissions", "UnnormalizedEmissions"}
      /\ FirstOf(list) \in Corrupt => domain \in Corrupt
      /\ FirstOf(list) = "ok" => domain = "ok"
  BY <1>4, <1>6 DEF fails, corrupt, Corrupt
<1>8. domain \in Corrupt => \E i \in DOMAIN kept : kept[i] # "own"
  BY <1>4 DEF CheckSentinelBand, CheckLogProbNormalization
<1>9. domain = "ok" /\ aligner.output = "LogProbabilities" =>
        \A i \in DOMAIN kept : kept[i] # "shifted" /\ (aligner.band => kept[i] # "saturated")
  BY <1>4 DEF CheckSentinelBand, CheckLogProbNormalization
<1>10. PICK heard : /\ heard = Emissions(aligner, EncoderInput(real), prediction)
                    /\ heard.rows = kept /\ heard.what = FirstOf(list)
  BY <1>2 DEF input
<1>11. QED
  BY <1>3, <1>7, <1>8, <1>9, <1>10

LEMMA PrepareFacts ==
  ASSUME NEW name, NEW wording, NEW decided, NEW aborted \in BOOLEAN
  PROVE  LET said == Prepare(name, wording, decided, aborted)
         IN  /\ said \in {"ok", "Aborted", "Tokenization", "trivial", "SemanticOutOfVocab"}
             /\ said = "ok" => /\ decided.read.text = wording /\ decided.read.aligner = name
                               /\ RefusedPositions(decided) = {}
<1> DEFINE foreign == decided.read.text # wording \/ decided.read.aligner # name
           nothing == Texts[wording].tokens = 0
           refuses == RefusedPositions(decided) # {}
           list == << <<aborted, "Aborted">>, <<foreign, "Tokenization">>,
                      <<nothing, "trivial">>, <<refuses, "SemanticOutOfVocab">> >>
<1>1. Prepare(name, wording, decided, aborted) = FirstOf(list)
  BY Zenon DEF Prepare
<1>2. foreign \in BOOLEAN /\ nothing \in BOOLEAN /\ refuses \in BOOLEAN
  OBVIOUS
<1> HIDE DEF foreign, nothing, refuses
<1>3. FirstOf(list) = IF aborted THEN "Aborted" ELSE IF foreign THEN "Tokenization"
                      ELSE IF nothing THEN "trivial" ELSE IF refuses THEN "SemanticOutOfVocab" ELSE "ok"
  <2>1. DOMAIN list = 1..4
    OBVIOUS
  <2>2. QED
    BY <1>2, <2>1, FirstOfFour
<1> HIDE DEF list
<1>4. /\ FirstOf(list) \in {"ok", "Aborted", "Tokenization", "trivial", "SemanticOutOfVocab"}
      /\ FirstOf(list) = "ok" => ~foreign /\ ~refuses
  BY <1>3
<1>5. QED
  BY <1>1, <1>4 DEF foreign, refuses

LEMMA FinishFacts ==
  ASSUME NEW wording, NEW kept, NEW speech
  PROVE  LET said == Finish(wording, kept, speech)
         IN  /\ said \in {"ok", "Emissions", "NoAlignmentPath", "NoSurvivingWords"}
             /\ said \in {"ok", "NoSurvivingWords"} => SeamAccepts(kept)
<1> DEFINE refused == ~SeamAccepts(kept)
           short == Len(kept) < Texts[wording].tokens
           silent == speech = "none"
           list == << <<refused, "Emissions">>, <<short, "NoAlignmentPath">>,
                      <<silent, "NoSurvivingWords">> >>
<1>1. Finish(wording, kept, speech) = FirstOf(list)
  BY Zenon DEF Finish
<1>2. refused \in BOOLEAN /\ short \in BOOLEAN /\ silent \in BOOLEAN
  OBVIOUS
<1> HIDE DEF refused, short, silent
<1>3. FirstOf(list) = IF refused THEN "Emissions" ELSE IF short THEN "NoAlignmentPath"
                      ELSE IF silent THEN "NoSurvivingWords" ELSE "ok"
  <2>1. DOMAIN list = 1..3
    OBVIOUS
  <2>2. QED
    BY <1>2, <2>1, FirstOfThree
<1> HIDE DEF list
<1>4. /\ FirstOf(list) \in {"ok", "Emissions", "NoAlignmentPath", "NoSurvivingWords"}
      /\ FirstOf(list) \in {"ok", "NoSurvivingWords"} => ~refused
  BY <1>3
<1>5. QED
  BY <1>1, <1>4 DEF refused

\* A chunk: of a length asked for, with a prediction of the whole window.
IsChunk(c) ==
  /\ c.samples \in Nat /\ c.aborted \in BOOLEAN
  /\ c.prediction.rows \in [1..DeclaredFrames -> RowKinds]
  /\ c.prediction.what \in {"ok", "Prediction", "Tensor", "OutputShape"}

PassOutcomes ==
  {"words", "NoSurvivingWords", "InputTooLong", "Span", "Refused", "NoAlignmentPath",
   "Alignment", "NoAlignableText", "Prediction", "Tensor", "OutputShape",
   "CorruptEmissions", "UnnormalizedEmissions"}

\* Words only of the text that was decided about, with no position refused, on
\* rows of the chunk's samples that the model made.
RestsOn(came, name, c, decided) ==
  /\ came.what \in Aligned =>
       /\ decided.read.text = c.text /\ decided.read.aligner = name
       /\ RefusedPositions(decided) = {} /\ c.samples > 0
       /\ Len(came.rows) = TruncatedFrameCount(c.samples)
       /\ Aligners[name].output = "LogProbabilities" =>
            \A i \in DOMAIN came.rows :
              came.rows[i] \in {"own"} \cup IF Aligners[name].band THEN {} ELSE {"saturated"}
  /\ came.what \in Corrupt => \E i \in DOMAIN came.rows : came.rows[i] # "own"

\* What one aligner makes of a chunk; it has no complaint about the set, which
\* is not asked here.
LEMMA AlignWithFacts ==
  ASSUME NEW name, NEW c, IsChunk(c), NEW decided
  PROVE  LET came == AlignWith(name, c, decided)
         IN  /\ came.what \in PassOutcomes
             /\ came = [what |-> came.what, refused |-> came.refused, rows |-> came.rows]
             /\ came.refused = {[at |-> i, language |-> Aligners[name].language] :
                                  i \in RefusedPositions(decided)}
             /\ came.what = "Refused" => RefusedPositions(decided) # {}
             /\ RestsOn(came, name, c, decided)
<1> DEFINE refused == RefusedPositions(decided)
           prepared == Prepare(name, c.text, decided, c.aborted)
           heard == Emissions(Aligners[name], EncoderInput(c.samples), c.prediction)
           finished == Finish(c.text, heard.rows, c.speech)
           long == c.samples > ModelWindow
           foreign == c.speech = "othertimebase"
           unprepared == prepared \notin {"ok", "trivial"}
           trivial == prepared = "trivial"
           empty == c.samples = 0
           unheard == heard.what # "ok"
           silent == finished = "NoSurvivingWords"
           unfinished == finished # "ok"
           before == SeamError(prepared, refused)
           after == SeamError(finished, refused)
           list == << <<long, "InputTooLong">>, <<foreign, "Span">>, <<unprepared, before>>,
                      <<trivial, "NoAlignableText">>, <<empty, "NoAlignmentPath">>,
                      <<unheard, heard.what>>, <<silent, "NoSurvivingWords">>, <<unfinished, after>> >>
           what == FirstOf(list)
           spoken == IF what = "ok" THEN "words" ELSE what
<1>1. AlignWith(name, c, decided) =
        [what |-> spoken,
         refused |-> {[at |-> i, language |-> Aligners[name].language] : i \in refused},
         rows |-> IF spoken \in Aligned \cup Corrupt THEN heard.rows ELSE <<>>]
  BY Zenon DEF AlignWith
<1>2. /\ heard.what \in {"ok", "InputTooLong", "Prediction", "Tensor", "OutputShape",
                         "CorruptEmissions", "UnnormalizedEmissions"}
      /\ heard.rows \in Seq(RowKinds) /\ Len(heard.rows) = TruncatedFrameCount(c.samples)
      /\ heard.what \in Corrupt => \E i \in DOMAIN heard.rows : heard.rows[i] # "own"
      /\ heard.what = "ok" /\ Aligners[name].output = "LogProbabilities" =>
           \A i \in DOMAIN heard.rows :
             /\ heard.rows[i] # "shifted"
             /\ Aligners[name].band => heard.rows[i] # "saturated"
  BY EmissionFacts DEF IsChunk
<1>3. /\ prepared \in {"ok", "Aborted", "Tokenization", "trivial", "SemanticOutOfVocab"}
      /\ prepared = "ok" => /\ decided.read.text = c.text /\ decided.read.aligner = name
                            /\ refused = {}
  BY PrepareFacts DEF IsChunk
<1>4. /\ finished \in {"ok", "Emissions", "NoAlignmentPath", "NoSurvivingWords"}
      /\ finished \in {"ok", "NoSurvivingWords"} => SeamAccepts(heard.rows)
  BY FinishFacts
<1> HIDE DEF refused, prepared, heard, finished
<1>5. \A said : /\ SeamError(said, refused) \in {"Refused", "NoAlignmentPath", "Alignment"}
                /\ SeamError(said, refused) = "Refused" => refused # {}
  BY DEF SeamError
<1>6. /\ long \in BOOLEAN /\ foreign \in BOOLEAN /\ unprepared \in BOOLEAN /\ trivial \in BOOLEAN
      /\ empty \in BOOLEAN /\ unheard \in BOOLEAN /\ silent \in BOOLEAN /\ unfinished \in BOOLEAN
  OBVIOUS
<1>7. before \in {"Refused", "NoAlignmentPath", "Alignment"} /\ (before = "Refused" => refused # {})
      /\ after \in {"Refused", "NoAlignmentPath", "Alignment"} /\ (after = "Refused" => refused # {})
  BY <1>5, Zenon
<1> HIDE DEF long, foreign, unprepared, trivial, empty, unheard, silent, unfinished, before, after
<1>8. what = IF long THEN "InputTooLong" ELSE IF foreign THEN "Span"
             ELSE IF unprepared THEN before ELSE IF trivial THEN "NoAlignableText"
             ELSE IF empty THEN "NoAlignmentPath" ELSE IF unheard THEN heard.what
             ELSE IF silent THEN "NoSurvivingWords" ELSE IF unfinished THEN after ELSE "ok"
  <2>1. DOMAIN list = 1..8
    OBVIOUS
  <2>2. QED
    BY <1>6, <2>1, FirstOfEight
<1> HIDE DEF list, what
<1>9. /\ spoken \in PassOutcomes
      /\ spoken = "Refused" => refused # {}
      /\ spoken \in Aligned => ~unprepared /\ ~trivial /\ ~empty /\ ~unheard /\ (silent \/ ~unfinished)
      /\ spoken \in Corrupt => heard.what \in Corrupt
  BY <1>2, <1>7, <1>8 DEF Aligned, Corrupt, PassOutcomes, unheard
<1> HIDE DEF spoken
<1>10. PICK came :
         /\ came = AlignWith(name, c, decided)
         /\ came.what = spoken
         /\ came = [what |-> came.what, refused |-> came.refused, rows |-> came.rows]
         /\ came.refused = {[at |-> i, language |-> Aligners[name].language] : i \in refused}
         /\ came.rows = IF spoken \in Aligned \cup Corrupt THEN heard.rows ELSE <<>>
  BY <1>1
<1>11. ASSUME spoken \in Aligned
       PROVE  /\ prepared = "ok" /\ c.samples > 0 /\ came.rows = heard.rows
              /\ \A i \in DOMAIN heard.rows : heard.rows[i] \in RowKinds /\ heard.rows[i] # "notfinite"
              /\ heard.what = "ok"
  <2>1. prepared = "ok"
    BY <1>9, <1>11 DEF unprepared, trivial
  <2>2. c.samples > 0 /\ heard.what = "ok"
    BY <1>9, <1>11 DEF empty, unheard, IsChunk
  <2>3. SeamAccepts(heard.rows)
    BY <1>4, <1>9, <1>11 DEF silent, unfinished
  <2>4. came.rows = heard.rows
    BY <1>10, <1>11
  <2>5. QED
    BY <1>2, <2>1, <2>2, <2>3, <2>4 DEF SeamAccepts
<1>12. ASSUME spoken \in Aligned, Aligners[name].output = "LogProbabilities",
              NEW i \in DOMAIN heard.rows
       PROVE  heard.rows[i] \in {"own"} \cup IF Aligners[name].band THEN {} ELSE {"saturated"}
  BY <1>2, <1>11, <1>12 DEF RowKinds
<1>13. spoken \in Corrupt => \E i \in DOMAIN came.rows : came.rows[i] # "own"
  BY <1>2, <1>9, <1>10
<1>14. RestsOn(came, name, c, decided)
  BY <1>2, <1>3, <1>10, <1>11, <1>12, <1>13 DEF refused, RestsOn
<1>15. QED
  BY <1>9, <1>10, <1>14 DEF refused

-----------------------------------------------------------------------------
(* The sets, and what is decided for them.                                 *)

SetType ==
  [aligners : UNION {[names -> DOMAIN Aligners] : names \in SUBSET (Languages \cup {AnyLanguage})},
   fallback : Fallbacks]

\* What was read of a text is what the route of its set and language leads to,
\* now as then: no set changes once it is built.
Follows(request) ==
  /\ request.made \in 1..Len(sets)
  /\ Binding(sets[request.made], request.language) = "Miss" => request.read = Undetected
  /\ Binding(sets[request.made], request.language) # "Miss" =>
       \E wording \in DOMAIN Texts :
         request.read = DetectedBy(Bound(sets[request.made], request.language), wording)

AlignInd ==
  /\ builder \in SetType /\ sets \in Seq(SetType)
  /\ detection # NoDetection => Follows(detection)
  /\ resolution # NoResolution => Follows(resolution)
  /\ DecisionsHold

LEMMA NothingToldYet == ASSUME told = NothingTold PROVE DecisionsHold
<1>1. told.what = "nothing"
  BY DEF NothingTold
<1>2. QED
  BY <1>1 DEF DecisionsHold, DecisionsAnswerTheirRequest, NeverMisrouted, RefusalsAreNamed,
              RoutesAreStrict, WordsRestOnTheModel, WordsRestOnOwnRows, Aligned, Corrupt

LEMMA AlignInitially == AlignInit => AlignInd
<1> SUFFICES ASSUME AlignInit PROVE AlignInd
  OBVIOUS
<1>1. builder \in SetType
  <2>1. <<>> \in [{} -> DOMAIN Aligners] /\ {} \in SUBSET (Languages \cup {AnyLanguage})
    OBVIOUS
  <2>2. QED
    BY <2>1 DEF AlignInit, NewBuilder, SetType, Fallbacks
<1>2. sets \in Seq(SetType) /\ detection = NoDetection /\ resolution = NoResolution
  BY DEF AlignInit
<1>3. DecisionsHold
  BY NothingToldYet DEF AlignInit
<1>4. QED
  BY <1>1, <1>2, <1>3 DEF AlignInd

\* Sets are only added.
LEMMA FollowingGoesOn ==
  ASSUME sets \in Seq(SetType), sets' = sets \/ \E set \in SetType : sets' = Append(sets, set),
         NEW request, Follows(request)
  PROVE  /\ request.made \in 1..Len(sets')
         /\ Binding(sets'[request.made], request.language) = "Miss" => request.read = Undetected
         /\ Binding(sets'[request.made], request.language) # "Miss" =>
              \E wording \in DOMAIN Texts :
                request.read = DetectedBy(Bound(sets'[request.made], request.language), wording)
<1>1. request.made \in 1..Len(sets') /\ sets'[request.made] = sets[request.made]
  <2>1. CASE sets' = sets
    BY <2>1 DEF Follows
  <2>2. CASE \E set \in SetType : sets' = Append(sets, set)
    BY <2>2 DEF Follows
  <2>3. QED
    BY <2>1, <2>2
<1>2. QED
  BY <1>1 DEF Follows

LEMMA WhatIsMissedIsNotRead ==
  ASSUME NEW name, NEW wording PROVE DetectedBy(name, wording) # Undetected
<1>1. "aligner" \in DOMAIN DetectedBy(name, wording) /\ "aligner" \notin DOMAIN Undetected
  BY DEF DetectedBy, Undetected
<1>2. QED
  BY <1>1

\* What a set answers: refusals under the language that was asked for, a miss
\* only of a language it has no aligner for, and what its aligner made of it.
AnswersWith(came, id, language, c, decided) ==
  /\ came.what \in PassOutcomes \cup {"Skipped", "LanguageUnsupported"}
  /\ came.what = "Refused" =>
       /\ came.refused # {}
       /\ came.refused = {[at |-> i, language |-> language] : i \in RefusedPositions(decided)}
  /\ came.what \in {"Skipped", "LanguageUnsupported"} =>
       DOMAIN sets[id].aligners \cap {language, AnyLanguage} = {}
  /\ RestsOn(came, Bound(sets[id], language), c, decided)

\* An answer of the set the decisions were made for, in their language.
LEMMA AnsweredFacts ==
  ASSUME NEW id, NEW language, NEW c, IsChunk(c), NEW decided,
         Follows(decided), decided.made = id, decided.language = language
  PROVE  AnswersWith(Answered(sets[id], language, c, decided), id, language, c, decided)
<1> DEFINE set == sets[id]
           missed == Binding(set, language) = "Miss"
           undecided == decided.read = Undetected
           passed == IF set.fallback = "SkipChunk" THEN "Skipped" ELSE "LanguageUnsupported"
           with == AlignWith(Bound(set, language), c, decided)
<1>1. missed <=> undecided
  BY WhatIsMissedIsNotRead DEF Follows
<1>2. CASE missed
  <2>1. Answered(set, language, c, decided) = [what |-> passed, rows |-> <<>>, refused |-> {}]
    BY <1>1, <1>2 DEF Answered
  <2>2. DOMAIN set.aligners \cap {language, AnyLanguage} = {}
    BY <1>2 DEF Binding
  <2>3. passed \in {"Skipped", "LanguageUnsupported"}
    OBVIOUS
  <2> HIDE DEF passed
  <2>4. QED
    BY <2>1, <2>2, <2>3 DEF Aligned, Corrupt, RestsOn, AnswersWith
<1>3. CASE ~missed
  <2>1. Answered(set, language, c, decided) = ForRequest(with, language)
    BY <1>1, <1>3 DEF Answered
  <2>2. PICK came : came = with
    OBVIOUS
  <2>3. /\ came.what \in PassOutcomes
        /\ came = [what |-> came.what, refused |-> came.refused, rows |-> came.rows]
        /\ came.refused = {[at |-> i, language |-> Aligners[Bound(set, language)].language] :
                             i \in RefusedPositions(decided)}
        /\ came.what = "Refused" => RefusedPositions(decided) # {}
        /\ RestsOn(came, Bound(set, language), c, decided)
    BY <2>2, AlignWithFacts
  <2> DEFINE renamed == {[position EXCEPT !.language = language] : position \in came.refused}
             names == {[at |-> i, language |-> language] : i \in RefusedPositions(decided)}
  <2>4. renamed = names
    <3>1. \A i, other : [[at |-> i, language |-> other] EXCEPT !.language = language]
                          = [at |-> i, language |-> language]
      OBVIOUS
    <3>2. PICK own : own = Aligners[Bound(set, language)].language
      OBVIOUS
    <3>3. came.refused = {[at |-> i, language |-> own] : i \in RefusedPositions(decided)}
      BY <2>3, <3>2
    <3>4. ASSUME NEW x \in renamed PROVE x \in names
      <4>1. PICK position \in came.refused : x = [position EXCEPT !.language = language]
        OBVIOUS
      <4>2. PICK i \in RefusedPositions(decided) : position = [at |-> i, language |-> own]
        BY <3>3
      <4>3. x = [at |-> i, language |-> language]
        BY <3>1, <4>1, <4>2
      <4>4. QED
        BY <4>3
    <3>5. ASSUME NEW i \in RefusedPositions(decided)
          PROVE  [at |-> i, language |-> language] \in renamed
      <4>1. [at |-> i, language |-> own] \in came.refused
        BY <3>3
      <4>2. [[at |-> i, language |-> own] EXCEPT !.language = language] \in renamed
        BY <4>1
      <4>3. QED
        BY <3>1, <4>2
    <3> HIDE DEF renamed, names
    <3>6. renamed \subseteq names
      BY <3>4
    <3>7. names \subseteq renamed
      <4>1. ASSUME NEW x \in names PROVE x \in renamed
        <5>1. PICK i \in RefusedPositions(decided) : x = [at |-> i, language |-> language]
          BY DEF names
        <5>2. QED
          BY <3>5, <5>1
      <4>2. QED
        BY <4>1
    <3>8. QED
      BY <3>6, <3>7
  <2>5. Answered(set, language, c, decided) = [came EXCEPT !.refused = renamed]
    BY <2>1, <2>2, Zenon DEF ForRequest
  <2> HIDE DEF renamed
  <2>6. [came EXCEPT !.refused = renamed] = [what |-> came.what, refused |-> renamed, rows |-> came.rows]
    BY <2>3
  <2>7. PICK reply : /\ reply = Answered(set, language, c, decided)
                     /\ reply.what = came.what /\ reply.rows = came.rows /\ reply.refused = names
    BY <2>4, <2>5, <2>6
  <2>8. RestsOn(reply, Bound(set, language), c, decided)
    BY <2>3, <2>7 DEF RestsOn
  <2>9. QED
    <3>1. RefusedPositions(decided) # {} => names # {}
      OBVIOUS
    <3>2. reply.what \notin {"Skipped", "LanguageUnsupported"}
      BY <2>3, <2>7 DEF PassOutcomes
    <3>3. QED
      BY <2>3, <2>7, <2>8, <3>1, <3>2 DEF AnswersWith
<1>4. QED
  BY <1>2, <1>3

\* A chunk is what the next step makes it of.
LEMMA ChunksAre ==
  ASSUME NEW id, NEW language, NEW wording, NEW c \in ChunksFor(id, language, wording)
  PROVE  IsChunk(c) /\ c.text = wording
<1>1. DeclaredFrames \in Nat /\ ModelWindow \in Nat /\ Lengths \subseteq Nat
  BY FramesAreTheWindows, GeometryAssumption
<1>2. PICK own : own = [i \in 1..DeclaredFrames |-> "own"]
  OBVIOUS
<1>3. own \in [1..DeclaredFrames -> RowKinds]
  BY <1>2 DEF RowKinds
<1>4. PlainChunk(wording) =
        [text |-> wording, samples |-> ModelWindow, speech |-> "all", aborted |-> FALSE,
         prediction |-> [what |-> "ok", rows |-> own]]
  BY <1>2 DEF PlainChunk
<1>5. IsChunk(PlainChunk(wording)) /\ PlainChunk(wording).text = wording
  BY <1>1, <1>3, <1>4 DEF IsChunk
<1>6. ASSUME NEW p \in Predictions
      PROVE  /\ p.rows \in [1..DeclaredFrames -> RowKinds]
             /\ p.what \in {"ok", "Prediction", "Tensor", "OutputShape"}
  BY <1>2, <1>3 DEF Predictions
<1>7. CASE c = PlainChunk(wording)
  BY <1>5, <1>7
<1>8. ASSUME NEW n \in Lengths, NEW p \in Predictions,
             c = [PlainChunk(wording) EXCEPT !.samples = n, !.prediction = p]
      PROVE  IsChunk(c) /\ c.text = wording
  <2>1. c = [text |-> wording, samples |-> n, speech |-> "all", aborted |-> FALSE, prediction |-> p]
    <3>1. PICK plain : plain = PlainChunk(wording)
      OBVIOUS
    <3>2. plain = [text |-> wording, samples |-> ModelWindow, speech |-> "all", aborted |-> FALSE,
                   prediction |-> [what |-> "ok", rows |-> own]]
          /\ c = [plain EXCEPT !.samples = n, !.prediction = p]
      BY <1>4, <1>8, <3>1, Zenon
    <3>3. QED
      BY <3>2
  <2>2. QED
    BY <1>1, <1>6, <2>1 DEF IsChunk
<1>9. ASSUME NEW s, c = [PlainChunk(wording) EXCEPT !.speech = s]
      PROVE  IsChunk(c) /\ c.text = wording
  BY <1>1, <1>3, <1>4, <1>9 DEF IsChunk
<1>10. CASE c = [PlainChunk(wording) EXCEPT !.aborted = TRUE]
  BY <1>1, <1>3, <1>4, <1>10 DEF IsChunk
<1>11. QED
  <2>1. c \in Chunks(wording) \/ c = PlainChunk(wording)
    BY DEF ChunksFor
  <2>2. CASE c \in Chunks(wording)
    <3>1. \/ \E n \in Lengths, p \in Predictions :
               c = [PlainChunk(wording) EXCEPT !.samples = n, !.prediction = p]
          \/ \E s \in {"some", "none", "othertimebase"} : c = [PlainChunk(wording) EXCEPT !.speech = s]
          \/ c = [PlainChunk(wording) EXCEPT !.aborted = TRUE]
      <4> DEFINE Asked(n, p) == [PlainChunk(wording) EXCEPT !.samples = n, !.prediction = p]
                 Spoken(s) == [PlainChunk(wording) EXCEPT !.speech = s]
                 stopped == [PlainChunk(wording) EXCEPT !.aborted = TRUE]
      <4>1. Chunks(wording) = {Asked(n, p) : n \in Lengths, p \in Predictions}
                           \cup {Spoken(s) : s \in {"some", "none", "othertimebase"}} \cup {stopped}
        BY DEF Chunks
      <4> HIDE DEF Asked, Spoken, stopped
      <4>2. \/ \E n \in Lengths, p \in Predictions : c = Asked(n, p)
            \/ \E s \in {"some", "none", "othertimebase"} : c = Spoken(s)
            \/ c = stopped
        BY <2>2, <4>1
      <4>3. QED
        BY <4>2, Zenon DEF Asked, Spoken, stopped
    <3>2. QED
      BY <1>8, <1>9, <1>10, <3>1, Zenon
  <2>3. QED
    BY <1>7, <2>1, <2>2

LEMMA AlignChunkInd ==
  ASSUME AlignInd, NEW id \in DOMAIN sets, NEW language, NEW c, IsChunk(c),
         AlignChunk(id, language, c)
  PROVE  DecisionsHold'
<1> DEFINE check == CheckResolution(id, language, resolution)
           came == IF check = "ok" THEN Answered(sets[id], language, c, resolution)
                   ELSE [what |-> check, rows |-> <<>>, refused |-> {}]
<1>1. /\ resolution # NoResolution /\ sets' = sets
      /\ told' = [what |-> came.what, set |-> id, language |-> language, text |-> c.text,
                  samples |-> c.samples, decided |-> resolution,
                  rows |-> came.rows, refused |-> came.refused]
  BY Zenon DEF AlignChunk
<1>2. /\ check \in {"ok", "ForeignResolution", "DecisionLanguage"}
      /\ check = "ok" => resolution.made = id /\ resolution.language = language
  <2> DEFINE foreign == resolution.made # id
             other == resolution.language # language
             list == << <<foreign, "ForeignResolution">>, <<other, "DecisionLanguage">> >>
  <2>1. check = FirstOf(list)
    BY Zenon DEF CheckResolution
  <2>2. foreign \in BOOLEAN /\ other \in BOOLEAN /\ DOMAIN list = 1..2
    OBVIOUS
  <2> HIDE DEF foreign, other
  <2>3. FirstOf(list) = IF foreign THEN "ForeignResolution" ELSE IF other THEN "DecisionLanguage" ELSE "ok"
    BY <2>2, FirstOfTwo
  <2> HIDE DEF list
  <2>4. QED
    BY <2>1, <2>3 DEF foreign, other
<1> HIDE DEF check
<1>3. CASE check # "ok"
  <2>1. came.what \in Bindings /\ came.what \notin Aligned /\ came.what \notin Corrupt
        /\ came.what \notin {"MisroutedResolution", "Skipped", "LanguageUnsupported"}
    BY <1>2, <1>3 DEF Bindings, Aligned, Corrupt
  <2> HIDE DEF came
  <2>2. told'.what = came.what
    BY <1>1
  <2>3. QED
    BY <2>1, <2>2 DEF DecisionsHold, DecisionsAnswerTheirRequest, NeverMisrouted, RefusalsAreNamed,
                      RoutesAreStrict, WordsRestOnTheModel, WordsRestOnOwnRows
<1>4. CASE check = "ok"
  <2>1. /\ came.what \in PassOutcomes \cup {"Skipped", "LanguageUnsupported"}
        /\ came.what = "Refused" =>
             /\ came.refused # {}
             /\ came.refused = {[at |-> i, language |-> language] : i \in RefusedPositions(resolution)}
        /\ came.what \in {"Skipped", "LanguageUnsupported"} =>
             DOMAIN sets[id].aligners \cap {language, AnyLanguage} = {}
        /\ RestsOn(came, Bound(sets[id], language), c, resolution)
    <3>1. came = Answered(sets[id], language, c, resolution)
      BY <1>4
    <3>2. Follows(resolution) /\ resolution.made = id /\ resolution.language = language
      BY <1>1, <1>2, <1>4 DEF AlignInd
    <3>3. AnswersWith(Answered(sets[id], language, c, resolution), id, language, c, resolution)
      BY <3>2, AnsweredFacts
    <3>4. AnswersWith(came, id, language, c, resolution)
      BY <3>1, <3>3
    <3> HIDE DEF came
    <3>5. QED
      BY <3>4 DEF AnswersWith
  <2> HIDE DEF came
  <2>2. /\ told'.what = came.what /\ told'.set = id /\ told'.language = language
        /\ told'.text = c.text /\ told'.samples = c.samples /\ told'.decided = resolution
        /\ told'.rows = came.rows /\ told'.refused = came.refused
    BY <1>1
  <2>3. resolution.made = id /\ resolution.language = language
    BY <1>2, <1>4
  <2>4. DecisionsAnswerTheirRequest'
    BY <1>1, <2>1, <2>2, <2>3 DEF DecisionsAnswerTheirRequest, RestsOn, Bound, Binding
  <2>5. NeverMisrouted'
    BY <2>1, <2>2 DEF NeverMisrouted, PassOutcomes
  <2>6. RefusalsAreNamed'
    BY <2>1, <2>2 DEF RefusalsAreNamed, RestsOn, RefusedPositions
  <2>7. RoutesAreStrict'
    BY <1>1, <2>1, <2>2 DEF RoutesAreStrict
  <2>8. WordsRestOnTheModel'
    BY <2>1, <2>2 DEF WordsRestOnTheModel, WordsRestOnOwnRows, RestsOn, TruncatedFrameCount
  <2>9. QED
    BY <2>4, <2>5, <2>6, <2>7, <2>8 DEF DecisionsHold
<1>5. QED
  BY <1>3, <1>4

\* Whatever is added to the sets, what is asked of them goes on.
LEMMA RequestsGoOn ==
  ASSUME sets \in Seq(SetType), sets' = sets \/ \E set \in SetType : sets' = Append(sets, set),
         NEW request, Follows(request)
  PROVE  Follows(request)'
BY FollowingGoesOn DEF Follows, Binding, Bound, DetectedBy, Undetected

LEMMA AlignStep == AlignInd /\ [AlignNext]_setVars => AlignInd'
<1> SUFFICES ASSUME AlignInd, [AlignNext]_setVars PROVE AlignInd'
  OBVIOUS
<1>1. /\ builder \in SetType /\ sets \in Seq(SetType)
      /\ detection # NoDetection => Follows(detection)
      /\ resolution # NoResolution => Follows(resolution)
  BY DEF AlignInd
<1>2. told' = NothingTold => DecisionsHold'
  <2>1. SUFFICES ASSUME told' = NothingTold PROVE DecisionsHold'
    OBVIOUS
  <2>2. told'.what = "nothing"
    BY <2>1 DEF NothingTold
  <2>3. QED
    BY <2>1, <2>2 DEF DecisionsHold, DecisionsAnswerTheirRequest, NeverMisrouted, RefusalsAreNamed,
              RoutesAreStrict, WordsRestOnTheModel, WordsRestOnOwnRows, Aligned, Corrupt, NothingTold
<1>3. CASE UNCHANGED setVars
  <2>1. DecisionsHold'
    BY <1>3 DEF AlignInd, setVars, DecisionsHold, DecisionsAnswerTheirRequest, NeverMisrouted,
              RefusalsAreNamed, RoutesAreStrict, WordsRestOnTheModel, WordsRestOnOwnRows, Bound, Binding,
              RefusedPositions, TruncatedFrameCount, NothingTold
  <2>2. QED
    BY <1>1, <1>3, <2>1 DEF AlignInd, setVars, Follows, Binding, Bound, NoDetection, NoResolution
<1>4. CASE AlignNext
  <2>1. told = NothingTold
    BY <1>4 DEF AlignNext
  <2>2. ASSUME builder' \in SetType, UNCHANGED <<sets, detection, resolution, told>> PROVE AlignInd'
    <3>1. Follows(detection)' = Follows(detection) /\ Follows(resolution)' = Follows(resolution)
      BY <2>2 DEF Follows, Binding, Bound
    <3>2. QED
      BY <1>1, <1>2, <2>1, <2>2, <3>1 DEF AlignInd, NoDetection, NoResolution
  <2>3. ASSUME NEW key \in Languages \cup {AnyLanguage}, NEW name \in DOMAIN Aligners,
               Register(key, name)
        PROVE  AlignInd'
    <3>1. PICK names \in SUBSET (Languages \cup {AnyLanguage}) :
            builder.aligners \in [names -> DOMAIN Aligners]
      BY <1>1 DEF SetType
    <3>2. PICK more : more = [k \in DOMAIN builder.aligners \cup {key} |->
                               IF k = key THEN name ELSE builder.aligners[k]]
      OBVIOUS
    <3>3. more \in [names \cup {key} -> DOMAIN Aligners]
          /\ names \cup {key} \in SUBSET (Languages \cup {AnyLanguage})
      BY <3>1, <3>2
    <3>4. builder' = [builder EXCEPT !.aligners = more]
          /\ UNCHANGED <<sets, detection, resolution, told>>
      BY <2>3, <3>2 DEF Register
    <3>5. builder' \in SetType
      BY <1>1, <3>3, <3>4 DEF SetType
    <3>6. QED
      BY <2>2, <3>4, <3>5
  <2>4. ASSUME NEW fallback \in Fallbacks, SetFallback(fallback) PROVE AlignInd'
    <3>1. builder' \in SetType /\ UNCHANGED <<sets, detection, resolution, told>>
      BY <1>1, <2>4 DEF SetFallback, SetType
    <3>2. QED
      BY <2>2, <3>1
  <2>5. CASE Build
    <3>1. /\ sets' = Append(sets, builder) /\ builder' = NewBuilder
          /\ UNCHANGED <<detection, resolution, told>>
      BY <2>5 DEF Build
    <3>2. builder' \in SetType
      <4>1. <<>> \in [{} -> DOMAIN Aligners] /\ {} \in SUBSET (Languages \cup {AnyLanguage})
        OBVIOUS
      <4>2. QED
        BY <3>1, <4>1 DEF NewBuilder, SetType, Fallbacks
    <3>3. sets' \in Seq(SetType)
      BY <1>1, <3>1
    <3>4. ASSUME NEW request, Follows(request) PROVE Follows(request)'
      BY <1>1, <3>1, <3>4, RequestsGoOn
    <3>5. /\ detection' # NoDetection => Follows(detection)'
          /\ resolution' # NoResolution => Follows(resolution)'
      BY <1>1, <3>1, <3>4 DEF Follows
    <3>6. QED
      BY <1>2, <2>1, <3>1, <3>2, <3>3, <3>5 DEF AlignInd, NoDetection, NoResolution
  <2>6. ASSUME NEW id \in DOMAIN sets, NEW language \in Languages, NEW wording \in DOMAIN Texts,
               Detect(id, language, wording)
        PROVE  AlignInd'
    <3>1. /\ detection' = [made |-> id, language |-> language,
                           read |-> IF Binding(sets[id], language) = "Miss" THEN Undetected
                                    ELSE DetectedBy(Bound(sets[id], language), wording)]
          /\ UNCHANGED <<builder, sets, resolution, told>>
      BY <2>6, Zenon DEF Detect
    <3>2. PICK parsed : parsed = IF Binding(sets[id], language) = "Miss" THEN Undetected
                             ELSE DetectedBy(Bound(sets[id], language), wording)
      OBVIOUS
    <3>3. detection'.made = id /\ detection'.language = language /\ detection'.read = parsed
      BY <3>1, <3>2
    <3>4. id \in 1..Len(sets)
      BY <1>1
    <3>5. Follows(detection)'
      BY <3>1, <3>2, <3>3, <3>4 DEF Follows, Binding, Bound
    <3>6. Follows(resolution)' = Follows(resolution)
      BY <3>1 DEF Follows, Binding, Bound
    <3>7. QED
      BY <1>1, <1>2, <2>1, <3>1, <3>5, <3>6 DEF AlignInd, NoDetection, NoResolution
  <2>7. CASE Decide
    <3>1. PICK decisions : resolution' = [made |-> detection.made, language |-> detection.language,
                                          read |-> detection.read, decisions |-> decisions]
      BY <2>7, Zenon DEF Decide
    <3>2. detection # NoDetection /\ detection' = NoDetection /\ UNCHANGED <<builder, sets, told>>
      BY <2>7 DEF Decide
    <3>3. /\ resolution'.made = detection.made /\ resolution'.language = detection.language
          /\ resolution'.read = detection.read
      BY <3>1
    <3>4. Follows(resolution)'
      BY <1>1, <3>2, <3>3 DEF Follows, Binding, Bound
    <3>5. QED
      BY <1>1, <1>2, <2>1, <3>2, <3>4 DEF AlignInd, NoDetection, NoResolution
  <2>8. ASSUME NEW id \in DOMAIN sets, NEW language \in Languages, NEW wording \in DOMAIN Texts,
               NEW c \in ChunksFor(id, language, wording), AlignChunk(id, language, c)
        PROVE  AlignInd'
    <3>1. IsChunk(c)
      BY ChunksAre
    <3>2. DecisionsHold'
      BY <2>8, <3>1, AlignChunkInd
    <3>3. resolution' = NoResolution /\ UNCHANGED <<builder, sets, detection>>
      BY <2>8 DEF AlignChunk
    <3>4. Follows(detection)' = Follows(detection)
      BY <3>3 DEF Follows, Binding, Bound
    <3>5. QED
      BY <1>1, <3>2, <3>3, <3>4 DEF AlignInd, NoDetection, NoResolution
  <2>9. QED
    BY <1>4, <2>3, <2>4, <2>5, <2>6, <2>7, <2>8 DEF AlignNext
<1>5. QED
  BY <1>3, <1>4

-----------------------------------------------------------------------------
(* The theorems about aligners.                                            *)

LEMMA TableStands ==
  ASSUME Written, SpellingHolds, UNCHANGED spellingVars PROVE Written' /\ SpellingHolds'
<1>1. given' = given /\ stated' = stated /\ load' = load
  BY DEF spellingVars
<1>2. Written'
  BY <1>1 DEF Written
<1>3. ReservedAsDeclared'
  BY <1>1 DEF SpellingHolds, ReservedAsDeclared
<1>4. EveryColumnIsReadOrReserved'
  BY <1>1 DEF SpellingHolds, EveryColumnIsReadOrReserved
<1>5. QED
  BY <1>2, <1>3, <1>4 DEF SpellingHolds

LEMMA TableIsRead ==
  ASSUME Written, SpellingHolds, [SpellingNext]_spellingVars PROVE Written' /\ SpellingHolds'
<1>1. CASE SpellingNext
  <2>1. given' = given /\ stated' = stated
    BY <1>1 DEF SpellingNext
  <2>2. Written'
    BY <2>1 DEF Written
  <2>3. QED
    BY <1>1, <2>2, SpellingStep
<1>2. QED
  BY <1>1, TableStands

\* Aligner::from_paths_with_vocabulary, of any table under any statement of it:
\* no statement that passes the checks is contradicted by what the tokenizers
\* crate parses back, and each column is its token's, reserved or read.
THEOREM TablesSpellWhatTheyDeclare ==
  Written /\ load = [what |-> "unread"] /\ [][SpellingNext]_spellingVars => []SpellingHolds
<1>1. Written /\ load = [what |-> "unread"] => Written /\ SpellingHolds
  BY DEF SpellingHolds, ReservedAsDeclared, EveryColumnIsReadOrReserved
<1>2. Written /\ SpellingHolds /\ [SpellingNext]_spellingVars => (Written /\ SpellingHolds)'
  BY TableIsRead
<1>3. QED
  BY <1>1, <1>2, PTL

\* AlignmentSet, for any aligners, languages and texts, and whatever a model
\* predicts: decisions are applied to the request they were made for, or to
\* none; a set never disagrees with decisions of its own; refusals name every
\* position, and words rest on rows of the chunk's own samples.
THEOREM DecisionsAreApplied == AlignInit /\ [][AlignNext]_setVars => []DecisionsHold
<1>1. AlignInd => DecisionsHold
  BY DEF AlignInd
<1>2. QED
  BY <1>1, AlignInitially, AlignStep, PTL

\* The same of the system the run checks.
THEOREM AlignersKeepTheirWord == MCSpec => []AlignersHold
<1> DEFINE Inv == AlignInd /\ Written /\ SpellingHolds
<1>1. MCInit => Inv
  <2> SUFFICES ASSUME MCInit PROVE Inv
    OBVIOUS
  <2>1. AlignInd /\ (NoTable \/ ATable)
    BY AlignInitially DEF MCInit
  <2>2. CASE NoTable
    <3>1. given = <<>> /\ load.what = "ok" /\ load.table = <<>>
      BY <2>2 DEF NoTable
    <3>2. Written
      <4>1. given \in Seq({})
        BY <3>1
      <4>2. QED
        BY <2>2, <4>1 DEF NoTable, Written
    <3>3. SpellingHolds
      BY <3>1 DEF SpellingHolds, ReservedAsDeclared, EveryColumnIsReadOrReserved
    <3>4. QED
      BY <2>1, <3>2, <3>3
  <2>3. CASE ATable
    <3>1. load.what = "unread"
      BY <2>3 DEF ATable
    <3>2. \E S : given \in Seq(S)
      <4>1. PICK n \in 0..3 : given \in Pairs(n)
        BY <2>3 DEF ATable
      <4>2. PICK tokens, ids : given = [i \in 1..n |-> <<tokens[i], ids[i]>>]
        <5> DEFINE Listing(tokens, ids) == [i \in 1..n |-> <<tokens[i], ids[i]>>]
                   orders == {[i \in 1..n |-> i - 1]}
                             \cup IF n < 3 THEN {[i \in 1..n |-> n - i], [i \in 1..n |-> 1]} ELSE {}
        <5>1. Pairs(n) = {Listing(tokens, ids) : tokens \in [1..n -> SomeTokens], ids \in orders}
          BY DEF Pairs
        <5> HIDE DEF Listing, orders
        <5>2. \E tokens, ids : given = Listing(tokens, ids)
          BY <4>1, <5>1
        <5>3. QED
          BY <5>2 DEF Listing
      <4>3. given \in Seq({given[i] : i \in 1..n})
        BY <4>2
      <4>4. QED
        BY <4>3
    <3>3. PICK contract \in Statements, delimited \in BOOLEAN :
            stated = [contract |-> contract, delimited |-> delimited, width |-> 3]
      BY <2>3 DEF ATable
    <3>4. Written
      BY <3>2, <3>3 DEF Written, Statements
    <3>5. SpellingHolds
      BY <3>1 DEF SpellingHolds, ReservedAsDeclared, EveryColumnIsReadOrReserved
    <3>6. QED
      BY <2>1, <3>4, <3>5
  <2>4. QED
    BY <2>1, <2>2, <2>3
<1>2. Inv /\ [MCNext]_inferenceVars => Inv'
  <2> SUFFICES ASSUME Inv, [MCNext]_inferenceVars PROVE Inv'
    OBVIOUS
  <2>1. [AlignNext]_setVars
    BY DEF MCNext, inferenceVars
  <2>2. [SpellingNext]_spellingVars
    BY DEF MCNext, inferenceVars
  <2>3. QED
    BY <2>1, <2>2, AlignStep, TableIsRead
<1>3. Inv => AlignersHold
  BY DEF AlignInd, AlignersHold
<1>4. QED
  BY <1>1, <1>2, <1>3, PTL DEF MCSpec

-----------------------------------------------------------------------------
(* Settings, for any number of setters called.  A member is described by   *)
(* what it holds at first, takes, writes, leaves out and reads.            *)

\* What a member can hold.
Holdable(member) == member.taken \cup {member.initially}
\* What it holds reads back, and what it reads it may hold: a value left out is
\* what a missing member stands for, one that is written is read, and one that
\* is neither is no number.
Sound(member) ==
  /\ member.absent \subseteq {member.initially}
  /\ member.read \subseteq Holdable(member)
  /\ \A v \in Holdable(member) :
       /\ v \in member.omitted => member.absent = {v}
       /\ v \notin member.omitted /\ v \notin member.written => v \in NonFinite
       /\ v \notin member.omitted /\ v \in member.written =>
            IF v \in NonFinite THEN Unset \notin member.read ELSE v \in member.read
\* Nothing is written that is no number.
Guarded(member) == Holdable(member) \cap member.written \cap NonFinite = {}
\* Sound and guarded, of one member and of all.
Good(member) == Sound(member) /\ Guarded(member)
AllGood(options) == \A m \in DOMAIN options : Good(options[m])

LEMMA GoodTogether ==
  ASSUME NEW f, NEW g
  PROVE  /\ AllGood(f) /\ AllGood(g) => AllGood(f & g)
         /\ DOMAIN (f & g) = DOMAIN f \cup DOMAIN g
  BY DEF AllGood, &

\* The forms a member is made in, field by field.
LEMMA FieldsOfMember ==
  ASSUME NEW i, NEW o
  PROVE  LET member == Member(i, o)
         IN /\ member = [initially |-> i, offered |-> o, taken |-> o, written |-> o,
                         omitted |-> {}, read |-> o, absent |-> {i}]
            /\ Sparse(member) = [initially |-> i, offered |-> o, taken |-> o, written |-> o,
                         omitted |-> {i}, read |-> o, absent |-> {i}]
            /\ Required(member) = [initially |-> i, offered |-> o, taken |-> o, written |-> o,
                         omitted |-> {}, read |-> o, absent |-> {}]
  BY DEF Member, Sparse, Required

\* Plain members, written or sparse, are sound; if off is no choice a number
\* that no document states is refused on reading.
LEMMA MembersAreSound ==
  ASSUME NEW i, NEW o, i \in o, o \cap NonFinite # {} => Unset \notin o
  PROVE  /\ Sound(Member(i, o)) 
         /\ Sound(Required(Member(i, o)))
         /\ o \cap NonFinite = {} => Good(Member(i, o)) /\ Good(Sparse(Member(i, o))) /\ Good(Required(Member(i, o)))
<1>1. Sound(Member(i, o)) /\ Sound(Required(Member(i, o))) /\ Sound(Sparse(Member(i, o)))
  BY FieldsOfMember DEF Sound, Holdable
<1>2. Member(i, o).written = o /\ Required(Member(i, o)).written = o /\ Sparse(Member(i, o)).written = o
  BY FieldsOfMember
<1> QED BY <1>1, <1>2 DEF Good, Guarded, Holdable

\* Members that are written and read as numbers only.
LEMMA FiniteFields ==
  ASSUME NEW i, NEW o, NEW left, NEW back
  PROVE  LET member == [initially |-> i, offered |-> o, taken |-> o, written |-> o,
                        omitted |-> left, read |-> o, absent |-> back]
             finite == [member EXCEPT !.written = @ \ NonFinite, !.read = @ \ NonFinite]
         IN /\ finite.initially = i /\ finite.taken = o /\ finite.written = o \ NonFinite
            /\ finite.omitted = left /\ finite.read = o \ NonFinite /\ finite.absent = back
  OBVIOUS

LEMMA FiniteMembersAreGood ==
  ASSUME NEW i, NEW o, i \in o, i \notin NonFinite
  PROVE  /\ Good(FiniteFloat(Member(i, o)))
         /\ Good(FiniteOption(Member(i, o)))
         /\ Good(FiniteOption(Sparse(Member(i, o))))
         /\ Good(FiniteList(Sparse(Member(i, o))))
<1> DEFINE Finite(member) == [member EXCEPT !.written = @ \ NonFinite, !.read = @ \ NonFinite]
           Stands(left) == [initially |-> i, offered |-> o, taken |-> o, written |-> o,
                            omitted |-> left, read |-> o, absent |-> {i}]
<1>1. ASSUME NEW left, left \subseteq {i} PROVE Good(Finite(Stands(left)))
  <2>1. LET finite == Finite(Stands(left))
        IN /\ finite.initially = i /\ finite.taken = o /\ finite.written = o \ NonFinite
           /\ finite.omitted = left /\ finite.read = o \ NonFinite /\ finite.absent = {i}
    BY FiniteFields
  <2> HIDE DEF Finite, Stands
  <2>2. QED
    BY <1>1, <2>1 DEF Good, Guarded, Sound, Holdable
<1>2. Member(i, o) = Stands({}) /\ Sparse(Member(i, o)) = Stands({i})
  BY FieldsOfMember
<1>3. Good(Finite(Member(i, o))) /\ Good(Finite(Sparse(Member(i, o))))
  <2> HIDE DEF Finite, Stands
  <2> QED BY <1>1, <1>2
<1> QED BY <1>3 DEF FiniteFloat, FiniteOption, FiniteList

\* Members that are held to a set of numbers.
LEMMA CheckedMembersAreGood ==
  ASSUME NEW i, NEW o, NEW good, i \in good, i \in o, good \cap NonFinite = {}
  PROVE  /\ Good(CheckedBothWays(Member(i, o), good))
         /\ Good(Checked(Member(i, o), good)) /\ Good(Required(Checked(Member(i, o), good)))
<1> DEFINE C == Checked(Member(i, o), good)
           R == Required(Checked(Member(i, o), good))
           W == CheckedBothWays(Member(i, o), good)
<1>1. /\ C.initially = i /\ C.taken = o \cap good /\ C.written = o /\ C.omitted = {}
      /\ C.read = o \cap good /\ C.absent = {i}
  BY FieldsOfMember DEF Checked
<1>2. /\ R.initially = i /\ R.taken = o \cap good /\ R.written = o /\ R.omitted = {}
      /\ R.read = o \cap good /\ R.absent = {}
  <2>1. DOMAIN C = {"initially", "offered", "taken", "written", "omitted", "read", "absent"}
    BY FieldsOfMember DEF Checked
  <2>2. R = [C EXCEPT !.absent = {}]
    BY DEF Required
  <2> HIDE DEF C, R
  <2>3. QED
    BY <1>1, <2>1, <2>2
<1>3. /\ W.initially = i /\ W.taken = o \cap good /\ W.written = o \cap good /\ W.omitted = {}
      /\ W.read = o \cap good /\ W.absent = {i}
  BY FieldsOfMember DEF CheckedBothWays, Checked
<1> HIDE DEF C, R, W
<1>4. Good(W) /\ Good(C) /\ Good(R)
  BY <1>1, <1>2, <1>3 DEF Good, Guarded, Sound, Holdable
<1> QED BY <1>4 DEF C, R, W

\* Members whose setter never goes back to what they were at first.
LEMMA NarrowMembersAreGood ==
  ASSUME NEW i, NEW o, NEW t, t \subseteq o, o \subseteq t \cup {i}, o \cap NonFinite = {}, i \in o
  PROVE  Good([Member(i, o) EXCEPT !.taken = t]) /\ Good([Sparse(Member(i, o)) EXCEPT !.taken = t])
<1> DEFINE N == [Member(i, o) EXCEPT !.taken = t]
           S == [Sparse(Member(i, o)) EXCEPT !.taken = t]
<1>1. /\ N.initially = i /\ N.taken = t /\ N.written = o /\ N.omitted = {}
      /\ N.read = o /\ N.absent = {i}
  BY FieldsOfMember
<1>2. /\ S.initially = i /\ S.taken = t /\ S.written = o /\ S.omitted = {i}
      /\ S.read = o /\ S.absent = {i}
  BY FieldsOfMember
<1> HIDE DEF N, S
<1>3. Good(N) /\ Good(S)
  BY <1>1, <1>2 DEF Good, Guarded, Sound, Holdable
<1> QED BY <1>3 DEF N, S

LEMMA Numbers == Unset \notin NonFinite /\ Unset = -1000 /\ \A n \in Int : n # 1001 /\ n # 1002 => n \notin NonFinite
  BY DEF Unset, NonFinite, NaN, Infinity

\* The bounds a member may be held to.
LEMMA PlacedIsGood ==
  ASSUME NEW unit \in Units
  PROVE  Good(Placed(unit)) /\ Good(Required(Placed(unit))) /\ AllGood(Alone(unit))
<1>1. Good(Placed(unit)) /\ Good(Required(Placed(unit)))
  <2>1. Units \cap NonFinite = {} /\ unit \in Units /\ unit \in Units \cup {Misnamed}
    BY DEF Units, CpuOnly, CpuAndGpu, CpuAndNeuralEngine, AllUnits, NonFinite, NaN, Infinity
  <2>2. QED
    BY <2>1, CheckedMembersAreGood DEF Placed
<1>2. QED
  BY <1>1 DEF Alone, AllGood

\* The options of whisper, group by group.
LEMMA BasicsAreGood == AllGood(Basics)
<1>1. Good(Member(0, Tasks)) /\ Good(Sparse(Member(0, {0, 1}))) /\ Good(Member(5, {0, 5}))
      /\ Good(Member(224, {0, 224})) /\ Good(Member(5, {1, 5}))
  BY MembersAreSound DEF Tasks, NonFinite, NaN, Infinity
<1>2. Good(FiniteFloat(Member(0, {0, 10, NaN}))) /\ Good(FiniteFloat(Member(2, {0, 2, Infinity})))
  BY FiniteMembersAreGood DEF NonFinite, NaN, Infinity
<1>3. QED
  BY <1>1, <1>2 DEF Basics, AllGood

LEMMA FlagsAreGood ==
  AllGood(Seed) /\ AllGood(Prefill) /\ AllGood(DetectLanguage) /\ AllGood(TextFlags) /\ AllGood(DropBlankAudio)
    /\ AllGood(WordPlacing) /\ AllGood(Working) /\ AllGood(TokenLists)
<1>1. Good(Sparse(Member(Unset, {Unset, 0, 7}))) /\ Good(Member(1, Flag)) /\ Good(Member(0, Flag))
      /\ Good(Member(1, Groupings)) /\ Good(Member(1, Gathers)) /\ Good(Member(0, Strategies))
      /\ Good(Sparse(Member(0, {0, 1})))
  BY MembersAreSound DEF Flag, Groupings, Gathers, Strategies, NonFinite, NaN, Infinity, Unset
<1>2. Good([Sparse(Member(Unset, {Unset} \cup Flag)) EXCEPT !.taken = Flag])
  <2>1. /\ Flag \subseteq {Unset} \cup Flag /\ {Unset} \cup Flag \subseteq Flag \cup {Unset}
        /\ ({Unset} \cup Flag) \cap NonFinite = {} /\ Unset \in {Unset} \cup Flag
    BY DEF Flag, NonFinite, NaN, Infinity, Unset
  <2>2. QED
    BY <2>1, NarrowMembersAreGood, Zenon
<1>3. Good(Checked(Member(16, {0, 1, 16}), {1, 16}))
  BY CheckedMembersAreGood DEF NonFinite, NaN, Infinity
<1>4. AllGood(Seed) /\ AllGood(Prefill) /\ AllGood(TextFlags) /\ AllGood(DropBlankAudio) /\ AllGood(WordPlacing)
  BY <1>1 DEF Seed, Prefill, TextFlags, DropBlankAudio, WordPlacing, AllGood
<1>5. AllGood(DetectLanguage)
  <2> DEFINE narrow == [Sparse(Member(Unset, {Unset} \cup Flag)) EXCEPT !.taken = Flag]
  <2>1. DetectLanguage = [detect_language |-> narrow]
    BY DEF DetectLanguage
  <2> HIDE DEF narrow
  <2>2. Good(narrow)
    BY <1>2 DEF narrow
  <2>3. QED
    BY <2>1, <2>2 DEF AllGood
<1>6. AllGood(Working) /\ AllGood(TokenLists)
  BY <1>1, <1>3 DEF Working, TokenLists, AllGood
<1>7. QED
  BY <1>4, <1>5, <1>6

LEMMA LimitsAreGood == AllGood(Seeking) /\ AllGood(Thresholds) /\ AllGood(NoSpeech)
<1>1. /\ Good(FiniteOption(Sparse(Member(Unset, {Unset, 0, 10, NaN}))))
      /\ Good(FiniteList(Sparse(Member(0, {0, 10, Infinity}))))
      /\ Good(FiniteFloat(Member(10, {0, 10, NaN})))
      /\ Good(FiniteOption(Member(24, {Unset, 24, NaN})))
      /\ Good(FiniteOption(Member(-10, {Unset, -10, NaN})))
      /\ Good(FiniteOption(Member(-15, {Unset, -15, NaN})))
      /\ Good(FiniteOption(Member(6, {Unset, 6, Infinity})))
  BY FiniteMembersAreGood DEF NonFinite, NaN, Infinity, Unset
<1>2. Good(Sparse(Member(Unset, {Unset, 0, 8})))
  BY MembersAreSound DEF NonFinite, NaN, Infinity, Unset
<1>3. QED
  BY <1>1, <1>2 DEF Seeking, Thresholds, NoSpeech, AllGood

LEMMA DecodingIsGood == AllGood(DecodingOptions)
  BY BasicsAreGood, FlagsAreGood, LimitsAreGood, GoodTogether DEF DecodingOptions

\* What a load is told.
LEMMA LoadsAreGood ==
  AllGood(LoadOptions) /\ AllGood(WhisperComputeOptions) /\ AllGood(KitOptions)
<1>1. Good(Required(Placed(AllUnits))) /\ Good(Placed(CpuAndGpu)) /\ Good(Placed(CpuAndNeuralEngine))
  BY PlacedIsGood DEF Units
<1>2. Good(Member(0, Flag)) /\ Good(Member(1, Flag)) /\ Good(Member(0, {0, 1})) /\ Good(Required(Member(0, {0, 1})))
  BY MembersAreSound DEF Flag, NonFinite, NaN, Infinity
<1>3. QED
  BY <1>1, <1>2 DEF LoadOptions, WhisperComputeOptions, KitOptions, AllGood

\* What may be positive, and up to where.
LEMMA WindowPlansAreGood ==
  /\ AllGood(CedWindowPlan) /\ AllGood(ClapWindowPlan) /\ AllGood(LidWindowPlan)
  /\ AllGood(SpeakerWindowOptions) /\ AllGood(LongTextOptions)
<1>1. AllGood(Windows)
  <2>1. Good(Checked(Member(100000, {0, 1, 100000}), {1, 100000}))
    BY CheckedMembersAreGood DEF NonFinite, NaN, Infinity
  <2>2. QED
    BY <2>1 DEF Windows, AllGood
<1>2. PositiveUpTo(160) = {1, 160} /\ PositiveUpTo(480) = {1, 160, 480}
  BY DEF PositiveUpTo, Positive
<1>3. AllGood([hop_samples |-> Checked(Member(160, {0, 1, 160, 161}), PositiveUpTo(160)),
               tail |-> Checked(Member(Pad, Tails), {Pad} \cup PositiveUpTo(160))])
  <2>1. Good(Checked(Member(160, {0, 1, 160, 161}), PositiveUpTo(160)))
    BY <1>2, CheckedMembersAreGood DEF NonFinite, NaN, Infinity
  <2>2. Good(Checked(Member(Pad, Tails), {Pad} \cup PositiveUpTo(160)))
    BY <1>2, CheckedMembersAreGood DEF Tails, Pad, NonFinite, NaN, Infinity
  <2>3. QED
    BY <2>1, <2>2 DEF AllGood
<1>4. AllGood([hop_samples |-> Checked(Member(480, {0, 1, 480, 481}), PositiveUpTo(480)),
               tail |-> Checked(Member(Pad, Tails), {Pad} \cup PositiveUpTo(480))])
  <2>1. Good(Checked(Member(480, {0, 1, 480, 481}), PositiveUpTo(480)))
    BY <1>2, CheckedMembersAreGood DEF NonFinite, NaN, Infinity
  <2>2. Good(Checked(Member(Pad, Tails), {Pad} \cup PositiveUpTo(480)))
    BY <1>2, CheckedMembersAreGood DEF Tails, Pad, NonFinite, NaN, Infinity
  <2>3. QED
    BY <2>1, <2>2 DEF AllGood
<1>5. AllGood([window_samples |-> Checked(Member(160, {0, 1, 160, 480, 481}), PositiveUpTo(480)),
               hop_samples |-> Checked(Member(160, {0, 1, 160, 480}), PositiveUpTo(480)),
               tail |-> Member(SlideBack, {SlideBack, 1, 2})])
  <2>1. /\ Good(Checked(Member(160, {0, 1, 160, 480, 481}), PositiveUpTo(480)))
        /\ Good(Checked(Member(160, {0, 1, 160, 480}), PositiveUpTo(480)))
    BY <1>2, CheckedMembersAreGood DEF NonFinite, NaN, Infinity
  <2>2. Good(Member(SlideBack, {SlideBack, 1, 2}))
    BY MembersAreSound DEF SlideBack, NonFinite, NaN, Infinity
  <2>3. QED
    BY <2>1, <2>2 DEF AllGood
<1>6. AllGood(SpeakerWindowOptions)
  <2>1. /\ Good(Checked(Member(16, {0, 1, 16, 160, 161}), {1, 16, 160}))
        /\ Good(Checked(Member(50, {0, 50, 100, 101, NaN}), {50, 100}))
    BY CheckedMembersAreGood DEF NonFinite, NaN, Infinity
  <2>2. QED
    BY <2>1 DEF SpeakerWindowOptions, AllGood
<1>7. AllGood(LongTextOptions)
  <2>1. Good(Member(0, {0, 1}))
    BY MembersAreSound DEF NonFinite, NaN, Infinity
  <2>2. Good([Member(Unset, {Unset, 0, 8}) EXCEPT !.taken = {0, 8}])
    <3>1. /\ {0, 8} \subseteq {Unset, 0, 8} /\ {Unset, 0, 8} \subseteq {0, 8} \cup {Unset}
          /\ {Unset, 0, 8} \cap NonFinite = {} /\ Unset \in {Unset, 0, 8}
      BY DEF Unset, NonFinite, NaN, Infinity
    <3>2. QED
      BY <3>1, NarrowMembersAreGood, Zenon
  <2>3. QED
    BY <2>1, <2>2 DEF LongTextOptions, AllGood
<1>8. AllGood(CedWindowPlan)
  BY <1>1, <1>3, GoodTogether, Zenon DEF CedWindowPlan
<1>9. ASSUME NEW cut, AllGood(cut) PROVE AllGood(Windows & cut)
  BY <1>1, <1>9, GoodTogether
<1>10. AllGood(ClapWindowPlan)
  BY <1>4, <1>9 DEF ClapWindowPlan
<1>11. AllGood(LidWindowPlan)
  BY <1>5, <1>9 DEF LidWindowPlan
<1>12. QED
  BY <1>6, <1>7, <1>8, <1>10, <1>11

\* The options of the speaker modules.
LEMMA SpeakersAreGood ==
  AllGood(SpeakerOptions) /\ AllGood(ArgmaxOptions) /\ AllGood(FluidAudioArtifactConfig)
    /\ AllGood(OfflineOptions) /\ AllGood(OnlineOptions)
<1>1. Good(Placed(AllUnits))
  BY PlacedIsGood DEF Units
<1>2. AllGood([source |-> Member(0, {0, 1})]) /\ AllGood([variant |-> Member(0, {0, 1})])
  <2>1. Good(Member(0, {0, 1}))
    BY MembersAreSound DEF NonFinite, NaN, Infinity
  <2>2. QED
    BY <2>1 DEF AllGood
<1>3. AllGood(SpeakerComputeOptions) /\ AllGood(ArgmaxComputeOptions)
  BY <1>1 DEF SpeakerComputeOptions, ArgmaxComputeOptions, AllGood
<1>4. AllGood(SpeakerOptions) /\ AllGood(ArgmaxOptions)
  BY <1>2, <1>3, WindowPlansAreGood, GoodTogether DEF SpeakerOptions, ArgmaxOptions
<1>5. AllGood(FluidAudioArtifactConfig)
  <2>1. ASSUME NEW choices, choices \cap NonFinite = {} PROVE Good(Overriding(choices))
    <3>1. ({Unset} \cup choices) \cap NonFinite = {}
      BY <2>1 DEF Unset, NonFinite, NaN, Infinity
    <3>2. QED
      BY <3>1, NarrowMembersAreGood DEF Overriding
  <2>2. {0, 1} \cap NonFinite = {} /\ Units \cap NonFinite = {}
    BY DEF Units, CpuOnly, CpuAndGpu, CpuAndNeuralEngine, AllUnits, NonFinite, NaN, Infinity
  <2>3. Good(Overriding({0, 1})) /\ Good(Overriding(Units))
    BY <2>1, <2>2
  <2>4. QED
    BY <2>3 DEF FluidAudioArtifactConfig, AllGood
<1>6. ASSUME NEW i \in Nat, NEW o, i \in o, i \notin NonFinite
      PROVE  Good(NotNegative(Member(i, o))) /\ (i <= 200 => Good(CosineDistance(Member(i, o))))
  <2>1. Member(i, o).offered = o
    BY FieldsOfMember
  <2>2. ((o \cap Nat) \ NonFinite) \cap NonFinite = {}
    OBVIOUS
  <2>3. {d \in o : 0 <= d /\ d <= 200} \cap NonFinite = {}
    BY DEF NonFinite, NaN, Infinity
  <2>4. Good(CheckedBothWays(Member(i, o), (o \cap Nat) \ NonFinite))
    BY <1>6, <2>2, CheckedMembersAreGood
  <2>5. i <= 200 => Good(CheckedBothWays(Member(i, o), {d \in o : 0 <= d /\ d <= 200}))
    BY <1>6, <2>3, CheckedMembersAreGood
  <2>6. QED
    BY <2>1, <2>4, <2>5 DEF NotNegative, CosineDistance
<1>7. AllGood(OfflineOptions)
  <2>1. /\ Good(FiniteFloat(Member(60, {-1, 60, NaN}))) /\ Good(FiniteFloat(Member(7, {7, Infinity})))
        /\ Good(FiniteFloat(Member(80, {80, NaN})))
    BY FiniteMembersAreGood DEF NonFinite, NaN, Infinity
  <2>2. Good(Member(20, {0, 20}))
    BY MembersAreSound DEF NonFinite, NaN, Infinity
  <2>3. Good(NotNegative(Member(0, {-1, 0, 50, NaN, Infinity})))
    BY <1>6 DEF NonFinite, NaN, Infinity
  <2>4. QED
    BY <2>1, <2>2, <2>3 DEF OfflineOptions, AllGood
<1>8. AllGood(OnlineOptions)
  <2>1. /\ Good(CosineDistance(Member(65, Distances))) /\ Good(CosineDistance(Member(45, Distances)))
        /\ Good(NotNegative(Member(100, {-1, 0, 100, NaN, Infinity})))
    BY <1>6 DEF Distances, NonFinite, NaN, Infinity
  <2>2. QED
    BY <2>1 DEF OnlineOptions, AllGood
<1>9. QED
  BY <1>4, <1>5, <1>7, <1>8

\* Floats without a guard: what is no number is saved as null, and refused.
LEMMA UnguardedAreSound ==
  \A options \in {AlignerOptions, AudioStreamOptions, EmaRenormalizedOptions} :
    \A m \in DOMAIN options : Sound(options[m])
<1>1. Good(Placed(CpuOnly))
  BY PlacedIsGood DEF Units
<1>2. /\ Sound(Member(50, {0, 50, 200, NaN})) /\ Sound(Required(Member(50, {0, 50, 200, NaN})))
      /\ Sound(Member(2, {0, 2})) /\ Sound(Member(3, {0, 3, NaN})) /\ Sound(Member(60, {0, 60}))
      /\ Sound(Member(1, Flag))
  BY MembersAreSound DEF Flag, NonFinite, NaN, Infinity, Unset
<1>3. Sound(Placed(CpuOnly))
  BY <1>1 DEF Good
<1>4. QED
  BY <1>2, <1>3 DEF AlignerOptions, AudioStreamOptions, EmaRenormalizedOptions

\* So every member of every kind is sound.
LEMMA KindsAreSound ==
  ASSUME NEW k \in DOMAIN Kinds
  PROVE  \A m \in DOMAIN Kinds[k] : Sound(Kinds[k][m]) /\ (k \notin Unguarded => Guarded(Kinds[k][m]))
<1>1. /\ AllGood(Alone(AllUnits)) /\ AllGood(Alone(CpuAndGpu))
  BY PlacedIsGood DEF Units
<1>2. k \notin Unguarded => AllGood(Kinds[k])
  BY <1>1, DecodingIsGood, LoadsAreGood, WindowPlansAreGood, SpeakersAreGood
  DEF Kinds, Unguarded, VadModelOptions, IdentifierOptions, ClassifierOptions, EmbedderOptions, EmbedModelOptions,
      SegmentModelOptions, TextEncoderOptions, AudioEncoderOptions, FaceEmbedderOptions, GraniteTextOptions,
      SiglipTextOptions, ImageEmbedderOptions
<1>3. k \in Unguarded => Kinds[k] \in {AlignerOptions, AudioStreamOptions, EmaRenormalizedOptions}
  BY DEF Kinds, Unguarded
<1>4. QED
  BY <1>2, <1>3, UnguardedAreSound DEF AllGood, Good

-----------------------------------------------------------------------------
\* What is held, and what was written of it, read of it and sent for it.
Held ==
  /\ kind \in DOMAIN Kinds
  /\ settings = [m \in Members |-> settings[m]]
  /\ \A m \in Members : settings[m] \in Holdable(Options[m])
  /\ Fits(settings)
Paged ==
  /\ page.from = "own" =>
       /\ page.members = [m \in Stated |-> InJson(settings[m])] /\ page.stray = FALSE
       /\ \A m \in Stated : settings[m] \in Options[m].written
  /\ page.from = "refused" => \E m \in Stated : settings[m] \notin Options[m].written
  /\ reread.how # "unread" => page # NoPage
  /\ reread.how = "read" => Readable /\ reread.settings = Read(page.members)
  /\ reread.how = "refused" => ~Readable
SettingsInd == Held /\ Paged /\ SendsWhatItAsked

\* Of the kind that is followed.
LEMMA OptionsAreSound ==
  ASSUME kind \in DOMAIN Kinds, NEW m \in Members
  PROVE  Sound(Options[m]) /\ (kind \notin Unguarded => Guarded(Options[m]))
  BY KindsAreSound DEF Members, Options

\* A member left out stands for what it was, and one written for itself.
LEMMA OwnPageSaysItAll ==
  ASSUME Held, page.members = [m \in Stated |-> InJson(settings[m])],
         \A m \in Stated : settings[m] \in Options[m].written,
         NEW m \in Members, settings[m] \notin NonFinite \/ m \notin Stated
  PROVE  /\ Read(page.members)[m] = settings[m]
         /\ IF m \in DOMAIN page.members THEN page.members[m] \in Options[m].read ELSE Options[m].absent # {}
<1>1. Sound(Options[m]) /\ settings[m] \in Holdable(Options[m])
  BY OptionsAreSound DEF Held
<1>2. DOMAIN page.members = Stated
  OBVIOUS
<1>3. CASE m \in Stated
  <2>1. page.members[m] = settings[m]
    BY <1>3 DEF InJson
  <2>2. settings[m] \in Options[m].written /\ settings[m] \notin Options[m].omitted
    BY <1>3 DEF Stated
  <2>3. settings[m] \in Options[m].read
    BY <1>1, <1>3, <2>2 DEF Sound
  <2>4. QED
    BY <1>2, <1>3, <2>1, <2>3 DEF Read
<1>4. CASE m \notin Stated
  <2>1. settings[m] \in Options[m].omitted
    BY <1>4 DEF Stated
  <2>2. Options[m].absent = {settings[m]}
    BY <1>1, <2>1 DEF Sound
  <2>3. QED
    BY <1>2, <1>4, <2>2 DEF Read
<1>5. QED
  BY <1>3, <1>4

\* The own page of settings that are all numbers is readable and says them all;
\* with one that is none it is not readable.
LEMMA ReadBackFollows == Held /\ Paged => ReadsBack
<1> SUFFICES ASSUME Held, Paged PROVE ReadsBack
  OBVIOUS
<1> DEFINE AllFinite == \A m \in Stated : settings[m] \notin NonFinite
<1>1. ASSUME page.from = "own", AllFinite
      PROVE  Readable /\ Read(page.members) = settings
  <2>1. \A m \in Members :
          /\ Read(page.members)[m] = settings[m]
          /\ IF m \in DOMAIN page.members THEN page.members[m] \in Options[m].read ELSE Options[m].absent # {}
    BY <1>1, OwnPageSaysItAll DEF Paged
  <2>2. settings = [m \in Members |-> settings[m]]
    BY DEF Held
  <2>3. Read(page.members) = settings
    BY <2>1, <2>2 DEF Read
  <2>4. QED
    BY <1>1, <2>1, <2>3 DEF Readable, Paged, Held
<1>2. ASSUME page.from = "own", NEW n \in Stated, settings[n] \in NonFinite
      PROVE  ~Readable /\ HoldsNonFinite /\ kind \in Unguarded
  <2>1. n \in Members /\ settings[n] \notin Options[n].omitted /\ settings[n] \in Options[n].written
    BY <1>2 DEF Stated, Paged
  <2>2. Sound(Options[n]) /\ settings[n] \in Holdable(Options[n]) /\ (kind \notin Unguarded => Guarded(Options[n]))
    BY <2>1, OptionsAreSound DEF Held
  <2>3. kind \in Unguarded
    BY <1>2, <2>1, <2>2 DEF Guarded
  <2>4. Unset \notin Options[n].read
    BY <1>2, <2>1, <2>2 DEF Sound
  <2>5. n \in DOMAIN page.members /\ page.members[n] = Unset
    BY <1>2 DEF Paged, InJson
  <2>6. ~Readable
    BY <2>1, <2>4, <2>5 DEF Readable
  <2>7. QED
    BY <1>2, <2>1, <2>3, <2>6 DEF HoldsNonFinite
<1>3. ASSUME page.from = "refused" PROVE HoldsNonFinite
  <2>1. PICK m \in Stated : settings[m] \notin Options[m].written
    BY <1>3 DEF Paged
  <2>2. m \in Members /\ settings[m] \notin Options[m].omitted
    BY DEF Stated
  <2>3. settings[m] \in NonFinite
    BY <2>1, <2>2, OptionsAreSound DEF Held, Sound
  <2>4. QED
    BY <2>2, <2>3 DEF HoldsNonFinite
<1>4. QED
  BY <1>1, <1>2, <1>3 DEF ReadsBack, Paged

\* What is read of a page of anybody's is what the members may hold.
LEMMA TakenFollows == Held /\ Paged => AsTheSettersTake
<1> SUFFICES ASSUME Held, Paged, reread.how = "read" PROVE AsTheSettersTake
  BY DEF AsTheSettersTake
<1>1. Readable /\ reread.settings = Read(page.members)
  BY DEF Paged
<1>2. ASSUME NEW m \in Members
      PROVE  reread.settings[m] \in Options[m].taken \cup {Options[m].initially}
  <2>1. Sound(Options[m])
    BY OptionsAreSound DEF Held
  <2>2. CASE m \in DOMAIN page.members
    <3>1. reread.settings[m] = page.members[m] /\ page.members[m] \in Options[m].read
      BY <1>1, <2>2 DEF Readable, Read
    <3>2. QED
      BY <2>1, <3>1 DEF Sound, Holdable
  <2>3. CASE m \notin DOMAIN page.members
    <3>1. Options[m].absent # {} /\ reread.settings[m] \in Options[m].absent
      BY <1>1, <2>3 DEF Readable, Read
    <3>2. QED
      BY <2>1, <3>1 DEF Sound
  <2>4. QED
    BY <2>2, <2>3
<1>3. QED
  BY <1>1, <1>2 DEF AsTheSettersTake, Readable

\* The members of the kinds whose actions name them.
LEMMA LidMembers ==
  /\ {"window_samples", "hop_samples"} \subseteq DOMAIN Kinds["lid_windows"]
  /\ Kinds["lid_windows"]["window_samples"].initially = 160
  /\ Kinds["lid_windows"]["hop_samples"].initially = 160
<1> DEFINE window == Checked(Member(160, {0, 1, 160, 480, 481}), PositiveUpTo(480))
           hop == Checked(Member(160, {0, 1, 160, 480}), PositiveUpTo(480))
           cut == [window_samples |-> window, hop_samples |-> hop, tail |-> Member(SlideBack, {SlideBack, 1, 2})]
<1>1. window.initially = 160 /\ hop.initially = 160
  BY FieldsOfMember DEF Checked
<1>2. LidWindowPlan = Windows & cut
  BY DEF LidWindowPlan
<1>3. Kinds["lid_windows"] = LidWindowPlan
  BY DEF Kinds
<1>4. DOMAIN Windows = {"max_windows"}
  BY DEF Windows
<1> HIDE DEF window, hop
<1>5. {"window_samples", "hop_samples"} \subseteq DOMAIN cut /\ cut["window_samples"] = window /\ cut["hop_samples"] = hop
  OBVIOUS
<1> HIDE DEF cut
<1>6. DOMAIN (Windows & cut) = DOMAIN Windows \cup DOMAIN cut
  BY GoodTogether
<1>7. ASSUME NEW m \in {"window_samples", "hop_samples"} PROVE (Windows & cut)[m] = cut[m] /\ m \in DOMAIN (Windows & cut)
  <2>1. m \notin DOMAIN Windows /\ m \in DOMAIN cut
    BY <1>4, <1>5
  <2>2. QED
    BY <1>6, <2>1 DEF &
<1>8. LidWindowPlan["window_samples"] = window /\ LidWindowPlan["hop_samples"] = hop
  BY <1>2, <1>5, <1>7
<1>9. QED
  BY <1>1, <1>2, <1>3, <1>7, <1>8

LEMMA OnlineMembers ==
  LET online == Kinds["online"]
  IN /\ {"speaker_threshold", "embedding_threshold"} \subseteq DOMAIN online
     /\ {0, 60} \subseteq online["speaker_threshold"].taken
     /\ {0, 40} \subseteq online["embedding_threshold"].taken
<1>1. Kinds["online"] = OnlineOptions
  BY DEF Kinds
<1>2. ASSUME NEW i PROVE CosineDistance(Member(i, Distances)).taken = {d \in Distances : 0 <= d /\ d <= 200}
  <2>1. Member(i, Distances).offered = Distances
    BY FieldsOfMember
  <2>2. QED
    BY <2>1, FieldsOfMember DEF CosineDistance, CheckedBothWays, Checked, Distances, NaN, Infinity
<1>3. {0, 40, 60} \subseteq {d \in Distances : 0 <= d /\ d <= 200}
  BY DEF Distances, NaN, Infinity
<1>4. QED
  BY <1>1, <1>2, <1>3 DEF OnlineOptions

LEMMA LoadMembers ==
  LET loading == Kinds["load"]
  IN /\ {"low_precision_gpu_accumulation", "specialization"} \subseteq DOMAIN loading
     /\ Holdable(loading["low_precision_gpu_accumulation"]) = {0, 1}
     /\ Holdable(loading["specialization"]) = {0, 1}
<1>1. Kinds["load"] = LoadOptions
  BY DEF Kinds
<1>2. Holdable(Member(0, {0, 1})) = {0, 1} /\ Flag = {0, 1}
  BY FieldsOfMember DEF Holdable, Flag
<1>3. QED
  BY <1>1, <1>2 DEF LoadOptions

\* What a load would send: what it was asked for, hints before their strategy.
LEMMA WantedFacts ==
  ASSUME NEW function \in BOOLEAN,
         settings.low_precision_gpu_accumulation \in {0, 1}, settings.specialization \in {0, 1}
  PROVE  LET wanted == Wanted(function)
             low == settings.low_precision_gpu_accumulation
             special == settings.specialization
         IN /\ wanted \in Seq(Messages)
            /\ (\E i \in DOMAIN wanted : wanted[i] = "setAllowLowPrecisionAccumulationOnGPU") = (low = 1)
            /\ (\E i \in DOMAIN wanted : wanted[i] = "setSpecializationStrategy") = (special = 1)
            /\ \A i \in DOMAIN wanted : wanted[i] = "setSpecializationStrategy" =>
                 \E j \in DOMAIN wanted : j < i /\ wanted[j] = "setOptimizationHints"
            /\ ~function /\ low = 0 /\ special = 0 => wanted = <<>>
<1> DEFINE low == settings.low_precision_gpu_accumulation
           special == settings.specialization
           name == IF function THEN <<"setFunctionName">> ELSE <<>>
           accumulation == IF low = 1 THEN <<"setAllowLowPrecisionAccumulationOnGPU">> ELSE <<>>
           strategy == IF special = 1 THEN <<"setOptimizationHints", "setSpecializationStrategy">> ELSE <<>>
           wanted == Wanted(function)
<1>1. wanted = name \o accumulation \o strategy
  BY DEF Wanted
<1>2. /\ name \in Seq(Messages) /\ Len(name) \in 0..1 /\ (~function => Len(name) = 0)
      /\ \A i \in 1..Len(name) : name[i] = "setFunctionName"
  <2>1. CASE function
    <3>1. name = <<"setFunctionName">>
      BY <2>1
    <3>2. QED
      BY <2>1, <3>1 DEF Messages
  <2>2. CASE ~function
    <3>1. name = <<>>
      BY <2>2
    <3>2. QED
      BY <2>2, <3>1
  <2>3. QED
    BY <2>1, <2>2
<1>3. /\ accumulation \in Seq(Messages) /\ Len(accumulation) = low
      /\ \A i \in 1..low : accumulation[i] = "setAllowLowPrecisionAccumulationOnGPU"
  <2>1. CASE low = 1
    <3>1. accumulation = <<"setAllowLowPrecisionAccumulationOnGPU">>
      BY <2>1
    <3>2. QED
      BY <2>1, <3>1 DEF Messages
  <2>2. CASE low = 0
    <3>1. accumulation = <<>>
      BY <2>2
    <3>2. QED
      BY <2>2, <3>1
  <2>3. QED
    BY <2>1, <2>2
<1>4. /\ strategy \in Seq(Messages) /\ Len(strategy) = 2 * special
      /\ special = 1 => strategy[1] = "setOptimizationHints" /\ strategy[2] = "setSpecializationStrategy"
  <2>1. CASE special = 1
    <3>1. strategy = <<"setOptimizationHints", "setSpecializationStrategy">>
      BY <2>1
    <3>2. QED
      BY <2>1, <3>1 DEF Messages
  <2>2. CASE special = 0
    <3>1. strategy = <<>>
      BY <2>2
    <3>2. QED
      BY <2>2, <3>1
  <2>3. QED
    BY <2>1, <2>2
<1> DEFINE n == Len(name)
           front == name \o accumulation
<1>5. /\ front \in Seq(Messages) /\ Len(front) = n + low /\ n \in 0..1 /\ low \in {0, 1}
      /\ \A i \in 1..n + low : front[i] = IF i <= n THEN name[i] ELSE accumulation[i - n]
  <2> HIDE DEF name, accumulation
  <2>1. QED
    BY <1>2, <1>3
<1>6. \A i \in 1..n + low : front[i] = IF i <= n THEN "setFunctionName" ELSE "setAllowLowPrecisionAccumulationOnGPU"
  <2> HIDE DEF name, accumulation, front, low
  <2>1. QED
    BY <1>2, <1>3, <1>5
<1>7. /\ wanted \in Seq(Messages) /\ Len(wanted) = n + low + 2 * special
      /\ \A i \in 1..n + low : wanted[i] = front[i]
      /\ special = 1 => wanted[n + low + 1] = strategy[1] /\ wanted[n + low + 2] = strategy[2]
  <2>1. wanted = front \o strategy
    BY <1>1
  <2> HIDE DEF strategy, front, wanted, n, low, special
  <2>2. special \in {0, 1}
    BY DEF special
  <2>3. QED
    BY <1>4, <1>5, <2>1, <2>2
<1>8. /\ special \in {0, 1} /\ DOMAIN wanted = 1..n + low + 2 * special
      /\ \A i \in DOMAIN wanted :
           wanted[i] = IF i <= n THEN "setFunctionName"
                       ELSE IF i = n + 1 /\ low = 1 THEN "setAllowLowPrecisionAccumulationOnGPU"
                       ELSE IF i = n + low + 1 THEN "setOptimizationHints" ELSE "setSpecializationStrategy"
  <2>1. special \in {0, 1} /\ DOMAIN wanted = 1..n + low + 2 * special
    BY <1>5, <1>7
  <2> HIDE DEF strategy, front, wanted, n, low, special
  <2>2. ASSUME NEW i \in 1..n + low
        PROVE  wanted[i] = IF i <= n THEN "setFunctionName" ELSE "setAllowLowPrecisionAccumulationOnGPU"
    BY <1>6, <1>7
  <2>3. ASSUME NEW i \in DOMAIN wanted, i \notin 1..n + low
        PROVE  wanted[i] = IF i = n + low + 1 THEN "setOptimizationHints" ELSE "setSpecializationStrategy"
    BY <1>4, <1>5, <1>7, <2>1, <2>3
  <2>4. QED
    BY <1>5, <2>1, <2>2, <2>3
<1> HIDE DEF name, accumulation, strategy, front, wanted, n, low, special
<1>9. (\E i \in DOMAIN wanted : wanted[i] = "setAllowLowPrecisionAccumulationOnGPU") = (low = 1)
  <2>1. low = 1 => n + 1 \in DOMAIN wanted /\ wanted[n + 1] = "setAllowLowPrecisionAccumulationOnGPU"
    BY <1>5, <1>8
  <2>2. \A i \in DOMAIN wanted : wanted[i] = "setAllowLowPrecisionAccumulationOnGPU" => low = 1
    BY <1>8
  <2>3. QED
    BY <2>1, <2>2
<1>10. special = 1 => /\ n + low + 1 \in DOMAIN wanted /\ wanted[n + low + 1] = "setOptimizationHints"
                      /\ n + low + 2 \in DOMAIN wanted /\ wanted[n + low + 2] = "setSpecializationStrategy"
  BY <1>5, <1>8
<1>11. \A i \in DOMAIN wanted : wanted[i] = "setSpecializationStrategy" => special = 1 /\ i = n + low + 2
  BY <1>5, <1>8
<1>12. (\E i \in DOMAIN wanted : wanted[i] = "setSpecializationStrategy") = (special = 1)
  BY <1>10, <1>11
<1>13. \A i \in DOMAIN wanted : wanted[i] = "setSpecializationStrategy" =>
         \E j \in DOMAIN wanted : j < i /\ wanted[j] = "setOptimizationHints"
  BY <1>5, <1>10, <1>11
<1>14. ~function /\ low = 0 /\ special = 0 => wanted = <<>>
  <2>1. ~function /\ low = 0 /\ special = 0 => Len(wanted) = 0
    BY <1>2, <1>7 DEF n
  <2>2. QED
    BY <1>7, <2>1
<1>15. QED
  BY <1>7, <1>9, <1>12, <1>13, <1>14 DEF wanted, low, special

\* At first every member holds what it is made with.
LEMMA SettingsInitially == SettingsInit => SettingsInd
<1> SUFFICES ASSUME SettingsInit PROVE SettingsInd
  OBVIOUS
<1>1. settings = [m \in Members |-> Options[m].initially]
  BY DEF SettingsInit, New
<1>2. Fits(settings)
  BY <1>1, LidMembers DEF Fits, Members, Options
<1>3. Held
  BY <1>1, <1>2 DEF SettingsInit, Held, Holdable
<1>4. Paged /\ SendsWhatItAsked
  BY DEF SettingsInit, Paged, SendsWhatItAsked, NoPage, Unread, NoSends
<1>5. QED
  BY <1>3, <1>4 DEF SettingsInd

\* As long as nothing is sent there is nothing to keep.
LEMMA NothingSent ==
  ASSUME sends = NoSends, NEW function, settings' = function, kind' = kind, sends' = sends
  PROVE  SendsWhatItAsked'
  BY DEF SendsWhatItAsked, NoSends

\* Members that are held go on being held when one is set within what it takes.
LEMMA SetStep ==
  ASSUME SettingsInd, NEW m \in Members, NEW value, Set(m, value)
  PROVE  SettingsInd'
<1>1. settings' = [settings EXCEPT ![m] = value] /\ value \in Options[m].taken /\ m \notin Together
      /\ UNCHANGED <<kind, page, reread, sends>> /\ page = NoPage /\ sends = NoSends
  BY DEF Set
<1>2. Members' = Members /\ Options' = Options
  BY <1>1 DEF Members, Options
<1>3. Held'
  <2>1. settings' = [n \in Members |-> settings'[n]]
        /\ \A n \in Members : settings'[n] = IF n = m THEN value ELSE settings[n]
    BY <1>1 DEF SettingsInd, Held
  <2>2. \A n \in Members : settings'[n] \in Holdable(Options[n])
    BY <1>1, <2>1 DEF SettingsInd, Held, Holdable
  <2>3. Fits(settings)'
    <3>1. SUFFICES ASSUME kind = "lid_windows" PROVE settings'["hop_samples"] <= settings'["window_samples"]
      BY <1>1 DEF Fits
    <3>2. "hop_samples" \in Members /\ "window_samples" \in Members /\ m # "hop_samples" /\ m # "window_samples"
      BY <1>1, <3>1, LidMembers DEF Members, Options, Together
    <3>3. QED
      BY <2>1, <3>1, <3>2 DEF SettingsInd, Held, Fits
  <2>4. QED
    BY <1>1, <1>2, <2>1, <2>2, <2>3 DEF SettingsInd, Held
<1>4. Paged'
  BY <1>1 DEF SettingsInd, Paged, NoPage
<1>5. QED
  BY <1>1, <1>3, <1>4, NothingSent DEF SettingsInd

\* Two that are set together are checked together.
LEMMA GeometryStep ==
  ASSUME SettingsInd, NEW window, NEW hop, SetGeometry(window, hop)
  PROVE  SettingsInd'
<1>1. /\ kind = "lid_windows" /\ UNCHANGED <<kind, page, reread, sends>> /\ page = NoPage
      /\ window \in Options.window_samples.taken /\ hop \in Options.hop_samples.taken
      /\ settings' = [settings EXCEPT !.window_samples = window, !.hop_samples = hop]
      /\ Fits(settings')
  BY DEF SetGeometry
<1>2. Members' = Members /\ Options' = Options /\ "window_samples" \in Members /\ "hop_samples" \in Members
  BY <1>1, LidMembers DEF Members, Options
<1>3. Held'
  <2>1. settings' = [n \in Members |-> settings'[n]]
        /\ \A n \in Members : settings'[n] = IF n = "hop_samples" THEN hop
                                             ELSE IF n = "window_samples" THEN window ELSE settings[n]
    BY <1>1, <1>2 DEF SettingsInd, Held
  <2>2. \A n \in Members : settings'[n] \in Holdable(Options[n])
    BY <1>1, <2>1 DEF SettingsInd, Held, Holdable
  <2>3. QED
    BY <1>1, <1>2, <2>1, <2>2 DEF SettingsInd, Held, Fits
<1>4. Paged'
  BY <1>1 DEF SettingsInd, Paged, NoPage
<1>5. SendsWhatItAsked'
  BY <1>1 DEF SendsWhatItAsked
<1>6. QED
  BY <1>3, <1>4, <1>5 DEF SettingsInd

\* Both thresholds made of one base lie in range.
LEMMA ThresholdStep ==
  ASSUME SettingsInd, NEW base \in {-1, 0, 50, 200, NaN}, FromClusteringThreshold(base)
  PROVE  SettingsInd'
<1>1. /\ kind = "online" /\ UNCHANGED <<kind, page, reread, sends>> /\ page = NoPage
      /\ base \in {-1, 0, 50, 200} /\ (base * 12) \div 10 \in 0 .. 200
      /\ settings' = [New EXCEPT !.speaker_threshold = (base * 12) \div 10,
                                 !.embedding_threshold = (base * 8) \div 10]
  BY DEF FromClusteringThreshold, NonFinite
<1>2. Members' = Members /\ Options' = Options /\ "speaker_threshold" \in Members /\ "embedding_threshold" \in Members
      /\ {0, 60} \subseteq Options["speaker_threshold"].taken
      /\ {0, 40} \subseteq Options["embedding_threshold"].taken
  BY <1>1, OnlineMembers DEF Members, Options
<1>3. (base * 12) \div 10 \in {0, 60} /\ (base * 8) \div 10 \in {0, 40}
  BY <1>1
<1>4. Held'
  <2> DEFINE high == (base * 12) \div 10
             low == (base * 8) \div 10
  <2> HIDE DEF high, low
  <2>1. settings' = [New EXCEPT !.speaker_threshold = high, !.embedding_threshold = low]
        /\ high \in {0, 60} /\ low \in {0, 40}
    BY <1>1, <1>3 DEF high, low
  <2>2. settings' = [n \in Members |-> settings'[n]]
        /\ \A n \in Members : settings'[n] = IF n = "embedding_threshold" THEN low
                                             ELSE IF n = "speaker_threshold" THEN high ELSE Options[n].initially
    BY <1>2, <2>1 DEF New
  <2>3. \A n \in Members : settings'[n] \in Holdable(Options[n])
    BY <1>2, <2>1, <2>2 DEF Holdable
  <2>4. QED
    BY <1>1, <1>2, <2>2, <2>3 DEF SettingsInd, Held, Fits
<1>5. Paged'
  BY <1>1 DEF SettingsInd, Paged, NoPage
<1>6. SendsWhatItAsked'
  BY <1>1 DEF SendsWhatItAsked
<1>7. QED
  BY <1>4, <1>5, <1>6 DEF SettingsInd

\* Nothing is set once a page is written or a load is sent.
LEMMA HeldStays == ASSUME UNCHANGED <<kind, settings>> PROVE Held' = Held /\ Stated' = Stated /\ Members' = Members /\ Options' = Options
  BY DEF Held, Stated, Members, Options, Fits, Holdable
LEMMA SentStays == ASSUME UNCHANGED <<kind, settings, sends>> PROVE SendsWhatItAsked' = SendsWhatItAsked
  BY DEF SendsWhatItAsked

\* A page is written, by its owner or by hand, and read once.
LEMMA SaveStep == ASSUME SettingsInd, Save PROVE SettingsInd'
<1>1. UNCHANGED <<kind, settings, reread, sends>> /\ page = NoPage
  BY DEF Save
<1>2. reread.how = "unread"
  BY <1>1 DEF SettingsInd, Paged
<1>3. CASE \A m \in Stated : settings[m] \in Options[m].written
  <2>1. page' = [from |-> "own", members |-> [m \in Stated |-> InJson(settings[m])], stray |-> FALSE]
    BY <1>3 DEF Save
  <2>2. Paged'
    BY <1>1, <1>2, <1>3, <2>1, HeldStays DEF Paged
  <2>3. QED
    BY <1>1, <2>2, HeldStays, SentStays DEF SettingsInd
<1>4. CASE ~ \A m \in Stated : settings[m] \in Options[m].written
  <2>1. page' = [NoPage EXCEPT !.from = "refused"]
    BY <1>4 DEF Save
  <2>2. Paged'
    BY <1>1, <1>2, <1>4, <2>1, HeldStays DEF Paged, NoPage
  <2>3. QED
    BY <1>1, <2>2, HeldStays, SentStays DEF SettingsInd
<1>5. QED
  BY <1>3, <1>4

LEMMA GivenStep == ASSUME SettingsInd, Given PROVE SettingsInd'
<1>1. UNCHANGED <<kind, settings, reread, sends>> /\ page = NoPage /\ page'.from = "another"
  BY DEF Given
<1>2. reread.how = "unread"
  BY <1>1 DEF SettingsInd, Paged
<1>3. Paged'
  BY <1>1, <1>2 DEF Paged
<1>4. QED
  BY <1>1, <1>3, HeldStays, SentStays DEF SettingsInd

LEMMA RereadStep == ASSUME SettingsInd, Reread PROVE SettingsInd'
<1>1. UNCHANGED <<kind, settings, page, sends>> /\ page.from \in {"own", "another"}
      /\ reread' = IF Readable THEN [how |-> "read", settings |-> Read(page.members)] ELSE [Unread EXCEPT !.how = "refused"]
  BY DEF Reread
<1>2. Readable' = Readable /\ Read(page.members)' = Read(page.members)
  BY <1>1 DEF Readable, Read, Fits, Members, Options
<1>3. page # NoPage
  BY <1>1 DEF NoPage
<1>4. reread'.how \in {"read", "refused"} /\ (reread'.how = "read" => Readable /\ reread'.settings = Read(page.members))
      /\ (reread'.how = "refused" => ~Readable)
  BY <1>1 DEF Unread
<1>5. Paged'
  BY <1>1, <1>2, <1>3, <1>4, HeldStays DEF SettingsInd, Paged
<1>6. QED
  BY <1>1, <1>5, HeldStays, SentStays DEF SettingsInd

\* A load stops at the first message that is not answered, before it sends any;
\* a strategy is asked about after the hints, so that those were answered to.
LEMMA ConfigureStep ==
  ASSUME SettingsInd, NEW function \in BOOLEAN, NEW answers \in SUBSET Messages, Configure(function, answers)
  PROVE  SettingsInd'
<1> DEFINE wanted == Wanted(function)
           unanswered == Unanswered(wanted, answers)
           first == CHOOSE i \in unanswered : \A j \in unanswered : i <= j
           low == settings.low_precision_gpu_accumulation
           special == settings.specialization
<1>1. /\ kind = "load" /\ UNCHANGED <<kind, settings, page, reread>>
      /\ sends' = IF unanswered = {}
                  THEN [how |-> "sent", asked |-> wanted, sent |-> {wanted[i] : i \in DOMAIN wanted},
                        function |-> function, answers |-> answers]
                  ELSE [how |-> IF wanted[first] = "setFunctionName" THEN "FunctionsUnsupported" ELSE "OptionUnsupported",
                        asked |-> SubSeq(wanted, 1, first), sent |-> {}, function |-> function, answers |-> answers]
  BY DEF Configure
<1>2. low \in {0, 1} /\ special \in {0, 1}
  BY <1>1, LoadMembers DEF SettingsInd, Held, Members, Options
<1>3. /\ wanted \in Seq(Messages)
      /\ (\E i \in DOMAIN wanted : wanted[i] = "setAllowLowPrecisionAccumulationOnGPU") = (low = 1)
      /\ (\E i \in DOMAIN wanted : wanted[i] = "setSpecializationStrategy") = (special = 1)
      /\ \A i \in DOMAIN wanted : wanted[i] = "setSpecializationStrategy" =>
           \E j \in DOMAIN wanted : j < i /\ wanted[j] = "setOptimizationHints"
      /\ ~function /\ low = 0 /\ special = 0 => wanted = <<>>
  BY <1>2, WantedFacts
<1>4. unanswered \subseteq DOMAIN wanted /\ \A i \in DOMAIN wanted : i \notin unanswered <=> wanted[i] \in answers
  BY DEF Unanswered
<1>5. low' = low /\ special' = special /\ kind' = "load"
  BY <1>1
<1> HIDE DEF wanted, unanswered, low, special
<1>6. SendsWhatItAsked'
  <2>1. CASE unanswered = {}
    <3>1. sends' = [how |-> "sent", asked |-> wanted, sent |-> {wanted[i] : i \in DOMAIN wanted},
                    function |-> function, answers |-> answers]
      BY <1>1, <2>1
    <3>2. {sends'.asked[i] : i \in DOMAIN sends'.asked} = {wanted[i] : i \in DOMAIN wanted}
      BY <3>1
    <3>3. sends'.sent = {wanted[i] : i \in DOMAIN wanted} /\ sends'.answers = answers /\ sends'.how = "sent"
          /\ sends'.function = function
      BY <3>1
    <3>4. {wanted[i] : i \in DOMAIN wanted} \subseteq answers
      BY <1>4, <2>1
    <3>5. /\ ("setSpecializationStrategy" \in {wanted[i] : i \in DOMAIN wanted}) = (special = 1)
          /\ ("setAllowLowPrecisionAccumulationOnGPU" \in {wanted[i] : i \in DOMAIN wanted}) = (low = 1)
          /\ "setSpecializationStrategy" \in {wanted[i] : i \in DOMAIN wanted}
               => "setOptimizationHints" \in {wanted[i] : i \in DOMAIN wanted}
          /\ ~function /\ low + special = 0 => {wanted[i] : i \in DOMAIN wanted} = {}
      <4>1. ASSUME NEW message
            PROVE  message \in {wanted[i] : i \in DOMAIN wanted} <=> \E i \in DOMAIN wanted : wanted[i] = message
        OBVIOUS
      <4>2. low \in {0, 1} /\ special \in {0, 1}
        BY <1>2 DEF low, special
      <4>3. ~function /\ low + special = 0 => {wanted[i] : i \in DOMAIN wanted} = {}
        BY <1>3, <4>2
      <4>4. "setSpecializationStrategy" \in {wanted[i] : i \in DOMAIN wanted}
              => "setOptimizationHints" \in {wanted[i] : i \in DOMAIN wanted}
        BY <1>3
      <4>5. "setSpecializationStrategy" \in {wanted[i] : i \in DOMAIN wanted} <=> special = 1
        BY <1>3, <4>1
      <4>6. "setAllowLowPrecisionAccumulationOnGPU" \in {wanted[i] : i \in DOMAIN wanted} <=> low = 1
        BY <1>3, <4>1
      <4>7. QED
        BY <4>3, <4>4, <4>5, <4>6
    <3> DEFINE asked == {wanted[i] : i \in DOMAIN wanted}
    <3> HIDE DEF asked
    <3>6. QED
      BY <1>5, <3>2, <3>3, <3>4, <3>5 DEF SendsWhatItAsked, asked, low, special
  <2>2. CASE unanswered # {}
    <3>1. first \in unanswered /\ \A j \in unanswered : first <= j
      <4>1. unanswered \subseteq Nat
        BY <1>3, <1>4
      <4>2. QED
        BY <2>2, <4>1, MinOfNaturals
    <3>2. first \in DOMAIN wanted
      BY <1>4, <3>1
    <3> HIDE DEF first
    <3>3. /\ sends'.asked = SubSeq(wanted, 1, first) /\ sends'.sent = {} /\ sends'.how # "sent"
          /\ sends'.answers = answers /\ sends'.function = function
      BY <1>1, <2>2 DEF first
    <3>4. DOMAIN SubSeq(wanted, 1, first) = 1..first /\ \A i \in 1..first : SubSeq(wanted, 1, first)[i] = wanted[i]
      BY <1>3, <3>2
    <3>5. wanted # <<>>
      BY <1>3, <3>2
    <3>6. ASSUME NEW i \in 1..first, wanted[i] = "setSpecializationStrategy"
          PROVE  "setOptimizationHints" \in answers
      <4>1. i \in DOMAIN wanted
        BY <1>3, <3>2
      <4>2. PICK j \in DOMAIN wanted : j < i /\ wanted[j] = "setOptimizationHints"
        BY <1>3, <3>6, <4>1
      <4>3. j \notin unanswered
        BY <1>3, <3>1, <3>2, <3>6, <4>2
      <4>4. QED
        BY <1>4, <4>2, <4>3
    <3>7. "setSpecializationStrategy" \in {sends'.asked[i] : i \in DOMAIN sends'.asked}
            => "setOptimizationHints" \in answers
      BY <3>3, <3>4, <3>6
    <3>8. ~(low + special = 0 /\ ~function)
      BY <1>2, <1>3, <3>5
    <3>9. QED
      BY <1>5, <3>3, <3>7, <3>8 DEF SendsWhatItAsked, low, special
  <2>3. QED
    BY <2>1, <2>2
<1>7. Paged'
  <2>1. Readable' = Readable /\ Read(page.members)' = Read(page.members)
    BY <1>1 DEF Readable, Read, Fits, Members, Options
  <2>2. QED
    BY <1>1, <2>1, HeldStays DEF SettingsInd, Paged
<1>8. QED
  BY <1>1, <1>6, <1>7, HeldStays DEF SettingsInd

LEMMA SettingsStep == SettingsInd /\ [SettingsNext]_settingsVars => SettingsInd'
<1> SUFFICES ASSUME SettingsInd, [SettingsNext]_settingsVars PROVE SettingsInd'
  OBVIOUS
<1>1. CASE SettingsNext
  BY <1>1, SetStep, GeometryStep, ThresholdStep, SaveStep, GivenStep, RereadStep, ConfigureStep DEF SettingsNext
<1>2. CASE UNCHANGED settingsVars
  <2>1. UNCHANGED <<kind, settings, page, reread, sends>>
    BY <1>2 DEF settingsVars
  <2>2. Readable' = Readable /\ Read(page.members)' = Read(page.members)
    BY <2>1 DEF Readable, Read, Fits, Members, Options
  <2>3. Paged'
    BY <2>1, <2>2, HeldStays DEF SettingsInd, Paged
  <2>4. QED
    BY <2>1, <2>3, HeldStays, SentStays DEF SettingsInd
<1>3. QED
  BY <1>1, <1>2

LEMMA SettingsFollow == SettingsInd => SettingsHold
  BY ReadBackFollows, TakenFollows DEF SettingsInd, SettingsHold

\* Options of every kind, for any number of setters: what was saved reads back
\* as it was or is refused for a number no document states; what is read of
\* anybody's document the setters could have made; and a load sends all it was
\* asked for or nothing.
THEOREM SettingsAreKept == SettingsInit /\ [][SettingsNext]_settingsVars => []SettingsHold
  BY SettingsInitially, SettingsStep, SettingsFollow, PTL

\* The same of the system the run checks.
THEOREM SettingsAreKeptInTheRun == MCSpec => []SettingsHold
<1>1. MCInit => SettingsInd
  BY SettingsInitially DEF MCInit, NoSettings
<1>2. SettingsInd /\ [MCNext]_inferenceVars => SettingsInd'
  <2>1. [MCNext]_inferenceVars => [SettingsNext]_settingsVars
    BY DEF MCNext, inferenceVars
  <2>2. QED
    BY <2>1, SettingsStep
<1>3. QED
  BY <1>1, <1>2, SettingsFollow, PTL DEF MCSpec

-----------------------------------------------------------------------------
(* What a contract that holds says of a model. *)

\* A feature that fails no clause of its contract.
FeatureHolds(feature, features) ==
  /\ feature.name \in DOMAIN features
  /\ LET info == features[feature.name]
     IN /\ info.type = feature.type
        /\ Len(info.shape) = Len(feature.dims)
        /\ info.verdict = RequiredVerdict(feature)
        /\ \A a \in DOMAIN feature.dims :
             /\ AxisHolds(feature.dims[a], info.ranges, a)
             /\ feature.dims[a] = AnyFixed => info.ranges[a] # AxisRange(0, 1)

\* A description that fails no clause of a contract.
ContractHolds(description, contract) ==
  /\ description.states = {}
  /\ \A n \in DOMAIN description.inputs :
       description.inputs[n].optional \/ n \in Named(contract.inputs)
  /\ \A i \in DOMAIN contract.inputs : FeatureHolds(contract.inputs[i], description.inputs)
  /\ \A i \in DOMAIN contract.outputs :
       /\ FeatureHolds(contract.outputs[i], description.outputs)
       /\ ~description.outputs[contract.outputs[i].name].optional

\* The check of a feature passes it only if it fails no clause
\* (check_feature_contract).
LEMMA FeatureChecked ==
  ASSUME NEW feature, NEW features, CheckFeature(feature, features) = "ok"
  PROVE  FeatureHolds(feature, features)
<1> DEFINE info == features[feature.name]
           empty(a) == /\ feature.dims[a] = AnyFixed /\ a \in DOMAIN info.ranges
                       /\ info.ranges[a] = AxisRange(0, 1)
           wrong == {a \in DOMAIN feature.dims :
                       empty(a) \/ ~AxisHolds(feature.dims[a], info.ranges, a)}
<1>1. feature.name \in DOMAIN features
  BY Zenon DEF CheckFeature
<1>2. /\ info.type = feature.type
      /\ Len(info.shape) = Len(feature.dims)
      /\ info.verdict = RequiredVerdict(feature)
      /\ wrong = {}
  BY <1>1 DEF CheckFeature
<1>3. \A a \in DOMAIN feature.dims : ~empty(a) /\ AxisHolds(feature.dims[a], info.ranges, a)
  BY <1>2, Zenon
<1>4. \A a \in DOMAIN feature.dims : a \in DOMAIN info.ranges
  BY <1>3, Zenon DEF AxisHolds
<1>5. QED
  BY <1>1, <1>2, <1>3, <1>4, Zenon DEF FeatureHolds

\* The verdicts of a check are "ok" together only if each of them is.
LEMMA NoRefusal ==
  ASSUME NEW verdicts, FirstRefusal(verdicts) = "ok", NEW i \in DOMAIN verdicts,
         DOMAIN verdicts \subseteq Nat
  PROVE  verdicts[i] = "ok"
<1> DEFINE bad == {j \in DOMAIN verdicts : verdicts[j] # "ok"}
<1>1. SUFFICES ASSUME bad # {} PROVE FALSE
  OBVIOUS
<1>2. PICK j \in bad : \A k \in bad : j <= k
  <2>1. bad \in SUBSET Nat
    OBVIOUS
  <2> HIDE DEF bad
  <2>2. QED
    BY <1>1, <2>1, MinOfNaturals
<1>3. (CHOOSE k \in bad : \A l \in bad : k <= l) \in bad
  BY <1>2, Zenon
<1>4. verdicts[CHOOSE k \in bad : \A l \in bad : k <= l] = "ok"
  BY <1>1, Zenon DEF FirstRefusal
<1>5. QED
  BY <1>3, <1>4, Zenon

\* The whole check passes a model only if it fails no clause: of its inputs, of
\* its outputs, of the inputs nobody names, of its states (check_load_contract).
LEMMA ContractChecked ==
  ASSUME NEW description, NEW F1, NEW inputs \in Seq(F1), NEW outputs \in Seq(F1),
         CheckLoadContract(description, Contract(inputs, outputs)) = "ok"
  PROVE  ContractHolds(description, Contract(inputs, outputs))
<1> DEFINE contract == Contract(inputs, outputs)
           ins == [i \in DOMAIN inputs |-> CheckFeature(inputs[i], description.inputs)]
           outs == [i \in DOMAIN outputs |-> CheckOutput(outputs[i], description.outputs)]
           rest == << IF UnnamedInputs(description,
                                       contract) = {} THEN "ok" ELSE "UnsatisfiableInput",
                      IF description.states = {} THEN "ok" ELSE "UnsatisfiableState" >>
           verdicts == ins \o outs \o rest
<1>1. contract.inputs = inputs /\ contract.outputs = outputs
  BY DEF Contract
<1>2. FirstRefusal(verdicts) = "ok"
  BY <1>1, Zenon DEF CheckLoadContract
<1>3. /\ Len(inputs) \in Nat /\ DOMAIN inputs = 1 .. Len(inputs)
      /\ Len(outputs) \in Nat /\ DOMAIN outputs = 1 .. Len(outputs)
  OBVIOUS
<1>4. /\ ins \in Seq({ins[i] : i \in DOMAIN inputs}) /\ Len(ins) = Len(inputs)
      /\ outs \in Seq({outs[i] : i \in DOMAIN outputs}) /\ Len(outs) = Len(outputs)
  BY <1>3
<1> DEFINE All == {ins[i] : i \in DOMAIN inputs} \cup {outs[i] : i \in DOMAIN outputs}
                  \cup {rest[1], rest[2]}
<1>5. ins \in Seq(All) /\ outs \in Seq(All) /\ rest \in Seq(All) /\ Len(rest) = 2
  BY <1>3
<1> HIDE DEF ins, outs, rest, All
<1>6. /\ verdicts \in Seq(All) /\ Len(verdicts) = Len(inputs) + Len(outputs) + 2
      /\ \A i \in DOMAIN inputs : verdicts[i] = ins[i]
      /\ \A i \in DOMAIN outputs : verdicts[Len(inputs) + i] = outs[i]
      /\ \A i \in 1 .. 2 : verdicts[Len(inputs) + Len(outputs) + i] = rest[i]
  <2> DEFINE both == ins \o outs
  <2>1. /\ both \in Seq(All) /\ Len(both) = Len(inputs) + Len(outputs)
        /\ \A i \in 1 .. Len(inputs) : both[i] = ins[i]
        /\ \A i \in (Len(inputs) + 1) .. (Len(inputs) + Len(outputs)) : both[i] = outs[i - Len(inputs)]
    <3>1. /\ both \in Seq(All) /\ Len(both) = Len(ins) + Len(outs)
          /\ \A i \in 1 .. Len(ins) : both[i] = ins[i]
          /\ \A i \in (Len(ins) + 1) .. (Len(ins) + Len(outs)) : both[i] = outs[i - Len(ins)]
      BY <1>5, ConcatenationFacts, Zenon
    <3> HIDE DEF both
    <3>2. Len(ins) = Len(inputs) /\ Len(outs) = Len(outputs)
      BY <1>4
    <3>3. QED
      BY <3>1, <3>2, Zenon
  <2> HIDE DEF both
  <2>2. /\ both \o rest \in Seq(All) /\ Len(both \o rest) = Len(both) + 2
        /\ \A i \in 1 .. Len(both) : (both \o rest)[i] = both[i]
        /\ \A i \in (Len(both) + 1) .. (Len(both) + 2) : (both \o rest)[i] = rest[i - Len(both)]
    <3>1. /\ both \o rest \in Seq(All) /\ Len(both \o rest) = Len(both) + Len(rest)
          /\ \A i \in 1 .. Len(both) : (both \o rest)[i] = both[i]
          /\ \A i \in (Len(both) + 1) .. (Len(both) + Len(rest)) : (both \o rest)[i] = rest[i - Len(both)]
      <4>1. both \in Seq(All) /\ rest \in Seq(All)
        BY <1>5, <2>1, Zenon
      <4>2. QED
        BY <4>1, ConcatenationFacts
    <3>2. QED
      BY <1>5, <3>1, Zenon
  <2>3. verdicts = both \o rest
    BY DEF both
  <2>4. \A i \in DOMAIN inputs : verdicts[i] = ins[i]
    BY <1>3, <2>1, <2>2, <2>3
  <2>5. \A i \in DOMAIN outputs : verdicts[Len(inputs) + i] = outs[i]
    <3> TAKE i \in DOMAIN outputs
    <3>1. /\ Len(inputs) + i \in 1 .. Len(both)
          /\ Len(inputs) + i \in (Len(inputs) + 1) .. (Len(inputs) + Len(outputs))
          /\ Len(inputs) + i - Len(inputs) = i
      BY <1>3, <2>1
    <3> HIDE DEF verdicts
    <3>2. QED
      BY <2>1, <2>2, <2>3, <3>1
  <2>6. \A i \in 1 .. 2 : verdicts[Len(inputs) + Len(outputs) + i] = rest[i]
    <3> TAKE i \in 1 .. 2
    <3>1. /\ Len(both) + i \in (Len(both) + 1) .. (Len(both) + 2)
          /\ Len(both) + i - Len(both) = i
      BY <1>3, <2>1
    <3> HIDE DEF verdicts
    <3>2. QED
      BY <2>1, <2>2, <2>3, <3>1
  <2>7. QED
    BY <2>1, <2>2, <2>3, <2>4, <2>5, <2>6
<1>7. \A i \in 1 .. Len(inputs) + Len(outputs) + 2 : verdicts[i] = "ok"
  <2>1. DOMAIN verdicts = 1 .. Len(inputs) + Len(outputs) + 2
    BY <1>6, <1>3
  <2> HIDE DEF verdicts
  <2>2. DOMAIN verdicts \subseteq Nat
    BY <2>1, <1>3
  <2>3. QED
    BY <1>2, <2>1, <2>2, NoRefusal, Zenon
<1> HIDE DEF verdicts
<1>8. \A i \in DOMAIN inputs : ins[i] = "ok"
  BY <1>3, <1>6, <1>7
<1>9. \A i \in DOMAIN outputs : outs[i] = "ok"
  <2> TAKE i \in DOMAIN outputs
  <2>1. Len(inputs) + i \in 1 .. Len(inputs) + Len(outputs) + 2
    BY <1>3
  <2>2. QED
    BY <1>6, <1>7, <2>1
<1>10. rest[1] = "ok" /\ rest[2] = "ok"
  <2>1. /\ Len(inputs) + Len(outputs) + 1 \in 1 .. Len(inputs) + Len(outputs) + 2
        /\ Len(inputs) + Len(outputs) + 2 \in 1 .. Len(inputs) + Len(outputs) + 2
    BY <1>3
  <2>2. QED
    BY <1>6, <1>7, <2>1
<1>11. UnnamedInputs(description, contract) = {} /\ description.states = {}
  <2>1. /\ rest[1] = IF UnnamedInputs(description,
                                      contract) = {} THEN "ok" ELSE "UnsatisfiableInput"
        /\ rest[2] = IF description.states = {} THEN "ok" ELSE "UnsatisfiableState"
    BY DEF rest
  <2>2. QED
    BY <1>10, <2>1
<1>12. \A i \in DOMAIN inputs : FeatureHolds(inputs[i], description.inputs)
  BY <1>8, FeatureChecked, Zenon DEF ins
<1>13. \A i \in DOMAIN outputs : /\ FeatureHolds(outputs[i], description.outputs)
                                 /\ ~description.outputs[outputs[i].name].optional
  <2> TAKE i \in DOMAIN outputs
  <2>1. CheckOutput(outputs[i], description.outputs) = "ok"
    BY <1>9, Zenon DEF outs
  <2>2. /\ CheckFeature(outputs[i], description.outputs) = "ok"
        /\ ~description.outputs[outputs[i].name].optional
    BY <2>1 DEF CheckOutput
  <2>3. QED
    BY <2>2, FeatureChecked, Zenon
<1>14. QED
  BY <1>1, <1>11, <1>12, <1>13, Zenon DEF ContractHolds, UnnamedInputs

\* A feature that must be fixed has, along each axis, the size its clause says:
\* that one, one that is not zero, or one no smaller than a floor.
SizeFits(dim, size) ==
  /\ dim = AnyFixed => size # 0
  /\ dim.kind = "floor" => size >= dim.min
  /\ dim.kind = "exactly" => size = dim.min

LEMMA FixedFeature ==
  ASSUME NEW features, NEW name, NEW type, NEW ds, FeatureHolds(F(name, type, ds), features),
         \A n \in DOMAIN features : DescribedFeature(features[n]),
         \A a \in DOMAIN ds : ds[a].kind # "range"
  PROVE  /\ name \in DOMAIN features
         /\ features[name].type = type /\ features[name].verdict = "fixed"
         /\ features[name].shape \in Seq(Nat) /\ Len(features[name].shape) = Len(ds)
         /\ \A a \in DOMAIN ds : SizeFits(ds[a], features[name].shape[a])
<1> DEFINE info == features[name]
<1>1. /\ F(name, type, ds).name = name /\ F(name, type, ds).type = type
      /\ F(name, type, ds).dims = ds
  BY DEF F, FeatureContract
<1>2. /\ name \in DOMAIN features /\ info.type = type /\ Len(info.shape) = Len(ds)
      /\ info.verdict = RequiredVerdict(F(name, type, ds))
      /\ \A a \in DOMAIN ds : /\ AxisHolds(ds[a], info.ranges, a)
                              /\ ds[a] = AnyFixed => info.ranges[a] # AxisRange(0, 1)
  BY <1>1, Zenon DEF FeatureHolds
<1>3. info.verdict = "fixed"
  BY <1>1, <1>2, Zenon DEF RequiredVerdict
<1>4. info.shape \in Seq(Nat) /\ info.ranges = Pinned(info.shape)
  BY <1>2, <1>3, Zenon DEF DescribedFeature
<1>5. ASSUME NEW a \in DOMAIN ds PROVE SizeFits(ds[a], info.shape[a])
  <2>1. info.ranges[a] = AxisRange(info.shape[a], 1)
    BY <1>2, <1>4, Zenon DEF AxisHolds, Pinned
  <2>2. info.ranges[a].min = info.shape[a]
    BY <2>1 DEF AxisRange
  <2>3. ds[a] = AnyFixed => info.shape[a] # 0
    BY <1>2, <2>1, Zenon
  <2>4. ds[a].kind = "floor" => info.ranges[a].min >= ds[a].min
    BY <1>2, Zenon DEF AxisHolds
  <2>5. ASSUME ds[a].kind = "exactly" PROVE info.ranges[a].min = ds[a].min
    <3>1. info.ranges[a] = AxisRange(ds[a].min, ds[a].count)
      BY <1>2, <2>5 DEF AxisHolds
    <3>2. QED
      BY <3>1 DEF AxisRange
  <2>6. QED
    BY <2>2, <2>3, <2>4, <2>5 DEF SizeFits
<1>6. QED
  BY <1>2, <1>3, <1>4, <1>5, Zenon

-----------------------------------------------------------------------------
(* Features and contracts by their numbers of axes and features. *)

\* A feature of a fixed shape, this one.
FeatureIs(features, name, type, shape) ==
  /\ name \in DOMAIN features
  /\ features[name].type = type
  /\ features[name].verdict = "fixed"
  /\ features[name].shape = shape

\* A feature that passes a contract without a symbolic axis is of the shape the
\* door reads off it, each size of which fits its clause.
LEMMA Fixed1 ==
  ASSUME NEW features, NEW name, NEW type, NEW a,
         FeatureHolds(F(name, type, <<a>>), features),
         \A x \in DOMAIN features : DescribedFeature(features[x]),
         a.kind # "range"
  PROVE  /\ FeatureIs(features, name, type, <<AxisOf(features, name, 1)>>)
         /\ AxisOf(features, name, 1) \in Nat /\ SizeFits(a, AxisOf(features, name, 1))
<1> DEFINE s == features[name].shape
<1>1. /\ name \in DOMAIN features /\ features[name].type = type /\ features[name].verdict = "fixed"
      /\ s \in Seq(Nat) /\ Len(s) = 1
      /\ SizeFits(a, s[1])
  <2> DEFINE ds == <<a>>
  <2>1. /\ DOMAIN ds = 1 .. 1 /\ Len(ds) = 1
        /\ ds[1] = a
    OBVIOUS
  <2>2. \A x \in DOMAIN ds : ds[x].kind # "range"
    BY <2>1
  <2> HIDE DEF ds
  <2>3. /\ name \in DOMAIN features /\ features[name].type = type
        /\ features[name].verdict = "fixed"
        /\ s \in Seq(Nat) /\ Len(s) = Len(ds)
        /\ \A x \in DOMAIN ds : SizeFits(ds[x], s[x])
    <3>1. FeatureHolds(F(name, type, ds), features)
      BY DEF ds
    <3>2. QED
      BY <2>2, <3>1, FixedFeature, Zenon
  <2>4. 1 \in DOMAIN ds
    BY <2>1
  <2>5. QED
    BY <2>1, <2>3, <2>4, Zenon
<1>2. /\ DOMAIN s = 1 .. 1
      /\ s[1] \in Nat
      /\ s = <<s[1]>>
  BY <1>1
<1>3. AxisOf(features, name, 1) = s[1]
  BY <1>1, <1>2 DEF AxisOf
<1>4. QED
  BY <1>1, <1>2, <1>3, Zenon DEF FeatureIs

LEMMA Fixed2 ==
  ASSUME NEW features, NEW name, NEW type, NEW a, NEW b,
         FeatureHolds(F(name, type, <<a, b>>), features),
         \A x \in DOMAIN features : DescribedFeature(features[x]),
         a.kind # "range", b.kind # "range"
  PROVE  /\ FeatureIs(features, name, type,
                      <<AxisOf(features, name, 1), AxisOf(features, name, 2)>>)
         /\ AxisOf(features, name, 1) \in Nat /\ SizeFits(a, AxisOf(features, name, 1))
         /\ AxisOf(features, name, 2) \in Nat /\ SizeFits(b, AxisOf(features, name, 2))
<1> DEFINE s == features[name].shape
<1>1. /\ name \in DOMAIN features /\ features[name].type = type /\ features[name].verdict = "fixed"
      /\ s \in Seq(Nat) /\ Len(s) = 2
      /\ SizeFits(a, s[1]) /\ SizeFits(b, s[2])
  <2> DEFINE ds == <<a, b>>
  <2>1. /\ DOMAIN ds = 1 .. 2 /\ Len(ds) = 2
        /\ ds[1] = a /\ ds[2] = b
    OBVIOUS
  <2>2. \A x \in DOMAIN ds : ds[x].kind # "range"
    BY <2>1
  <2> HIDE DEF ds
  <2>3. /\ name \in DOMAIN features /\ features[name].type = type
        /\ features[name].verdict = "fixed"
        /\ s \in Seq(Nat) /\ Len(s) = Len(ds)
        /\ \A x \in DOMAIN ds : SizeFits(ds[x], s[x])
    <3>1. FeatureHolds(F(name, type, ds), features)
      BY DEF ds
    <3>2. QED
      BY <2>2, <3>1, FixedFeature, Zenon
  <2>4. 1 \in DOMAIN ds /\ 2 \in DOMAIN ds
    BY <2>1
  <2>5. QED
    BY <2>1, <2>3, <2>4, Zenon
<1>2. /\ DOMAIN s = 1 .. 2
      /\ s[1] \in Nat /\ s[2] \in Nat
      /\ s = <<s[1], s[2]>>
  BY <1>1
<1>3. AxisOf(features, name, 1) = s[1] /\ AxisOf(features, name, 2) = s[2]
  BY <1>1, <1>2 DEF AxisOf
<1>4. QED
  BY <1>1, <1>2, <1>3, Zenon DEF FeatureIs

LEMMA Fixed3 ==
  ASSUME NEW features, NEW name, NEW type, NEW a, NEW b, NEW c,
         FeatureHolds(F(name, type, <<a, b, c>>), features),
         \A x \in DOMAIN features : DescribedFeature(features[x]),
         a.kind # "range", b.kind # "range", c.kind # "range"
  PROVE  /\ FeatureIs(features, name, type,
                      <<AxisOf(features, name, 1), AxisOf(features, name, 2),
                        AxisOf(features, name, 3)>>)
         /\ AxisOf(features, name, 1) \in Nat /\ SizeFits(a, AxisOf(features, name, 1))
         /\ AxisOf(features, name, 2) \in Nat /\ SizeFits(b, AxisOf(features, name, 2))
         /\ AxisOf(features, name, 3) \in Nat /\ SizeFits(c, AxisOf(features, name, 3))
<1> DEFINE s == features[name].shape
<1>1. /\ name \in DOMAIN features /\ features[name].type = type /\ features[name].verdict = "fixed"
      /\ s \in Seq(Nat) /\ Len(s) = 3
      /\ SizeFits(a, s[1]) /\ SizeFits(b, s[2]) /\ SizeFits(c, s[3])
  <2> DEFINE ds == <<a, b, c>>
  <2>1. /\ DOMAIN ds = 1 .. 3 /\ Len(ds) = 3
        /\ ds[1] = a /\ ds[2] = b /\ ds[3] = c
    OBVIOUS
  <2>2. \A x \in DOMAIN ds : ds[x].kind # "range"
    BY <2>1
  <2> HIDE DEF ds
  <2>3. /\ name \in DOMAIN features /\ features[name].type = type
        /\ features[name].verdict = "fixed"
        /\ s \in Seq(Nat) /\ Len(s) = Len(ds)
        /\ \A x \in DOMAIN ds : SizeFits(ds[x], s[x])
    <3>1. FeatureHolds(F(name, type, ds), features)
      BY DEF ds
    <3>2. QED
      BY <2>2, <3>1, FixedFeature, Zenon
  <2>4. 1 \in DOMAIN ds /\ 2 \in DOMAIN ds /\ 3 \in DOMAIN ds
    BY <2>1
  <2>5. QED
    BY <2>1, <2>3, <2>4, Zenon
<1>2. /\ DOMAIN s = 1 .. 3
      /\ s[1] \in Nat /\ s[2] \in Nat /\ s[3] \in Nat
      /\ s = <<s[1], s[2], s[3]>>
  BY <1>1
<1>3. /\ AxisOf(features, name, 1) = s[1] /\ AxisOf(features, name, 2) = s[2]
      /\ AxisOf(features, name, 3) = s[3]
  BY <1>1, <1>2 DEF AxisOf
<1>4. QED
  BY <1>1, <1>2, <1>3, Zenon DEF FeatureIs

LEMMA Fixed4 ==
  ASSUME NEW features, NEW name, NEW type, NEW a, NEW b, NEW c, NEW d,
         FeatureHolds(F(name, type, <<a, b, c, d>>), features),
         \A x \in DOMAIN features : DescribedFeature(features[x]),
         a.kind # "range", b.kind # "range", c.kind # "range", d.kind # "range"
  PROVE  /\ FeatureIs(features, name, type,
                      <<AxisOf(features, name, 1), AxisOf(features, name, 2),
                        AxisOf(features, name, 3), AxisOf(features, name, 4)>>)
         /\ AxisOf(features, name, 1) \in Nat /\ SizeFits(a, AxisOf(features, name, 1))
         /\ AxisOf(features, name, 2) \in Nat /\ SizeFits(b, AxisOf(features, name, 2))
         /\ AxisOf(features, name, 3) \in Nat /\ SizeFits(c, AxisOf(features, name, 3))
         /\ AxisOf(features, name, 4) \in Nat /\ SizeFits(d, AxisOf(features, name, 4))
<1> DEFINE s == features[name].shape
<1>1. /\ name \in DOMAIN features /\ features[name].type = type /\ features[name].verdict = "fixed"
      /\ s \in Seq(Nat) /\ Len(s) = 4
      /\ SizeFits(a, s[1]) /\ SizeFits(b, s[2]) /\ SizeFits(c, s[3]) /\ SizeFits(d, s[4])
  <2> DEFINE ds == <<a, b, c, d>>
  <2>1. /\ DOMAIN ds = 1 .. 4 /\ Len(ds) = 4
        /\ ds[1] = a /\ ds[2] = b /\ ds[3] = c /\ ds[4] = d
    OBVIOUS
  <2>2. \A x \in DOMAIN ds : ds[x].kind # "range"
    BY <2>1
  <2> HIDE DEF ds
  <2>3. /\ name \in DOMAIN features /\ features[name].type = type
        /\ features[name].verdict = "fixed"
        /\ s \in Seq(Nat) /\ Len(s) = Len(ds)
        /\ \A x \in DOMAIN ds : SizeFits(ds[x], s[x])
    <3>1. FeatureHolds(F(name, type, ds), features)
      BY DEF ds
    <3>2. \A x \in DOMAIN features : DescribedFeature(features[x])
      OBVIOUS
    <3> HIDE DEF s
    <3>3. QED
      BY <2>2, <3>1, <3>2, FixedFeature, Zenon DEF s
  <2>4. 1 \in DOMAIN ds /\ 2 \in DOMAIN ds /\ 3 \in DOMAIN ds /\ 4 \in DOMAIN ds
    BY <2>1
  <2>5. QED
    BY <2>1, <2>3, <2>4, Zenon
<1>2. /\ DOMAIN s = 1 .. 4
      /\ s[1] \in Nat /\ s[2] \in Nat /\ s[3] \in Nat /\ s[4] \in Nat
      /\ s = <<s[1], s[2], s[3], s[4]>>
  BY <1>1
<1>3. /\ AxisOf(features, name, 1) = s[1] /\ AxisOf(features, name, 2) = s[2]
      /\ AxisOf(features, name, 3) = s[3] /\ AxisOf(features, name, 4) = s[4]
  BY <1>1, <1>2 DEF AxisOf
<1>4. QED
  BY <1>1, <1>2, <1>3, Zenon DEF FeatureIs

\* Three things and a fourth.
LEMMA Fourth ==
  ASSUME NEW a, NEW b, NEW c, NEW d
  PROVE  <<a, b, c>> \o <<d>> = <<a, b, c, d>>
<1> DEFINE T == {a, b, c, d}
           s == <<a, b, c>>
           t == <<d>>
           u == <<a, b, c, d>>
<1>1. /\ s \in Seq(T) /\ Len(s) = 3 /\ s[1] = a /\ s[2] = b /\ s[3] = c
      /\ t \in Seq(T) /\ Len(t) = 1 /\ t[1] = d
      /\ u \in Seq(T) /\ Len(u) = 4 /\ u[1] = a /\ u[2] = b /\ u[3] = c /\ u[4] = d
  OBVIOUS
<1> HIDE DEF T, s, t, u
<1>2. /\ s \o t \in Seq(T) /\ Len(s \o t) = 4
      /\ (s \o t)[1] = a /\ (s \o t)[2] = b /\ (s \o t)[3] = c /\ (s \o t)[4] = d
  <2>1. /\ s \o t \in Seq(T) /\ Len(s \o t) = Len(s) + Len(t)
        /\ \A i \in 1 .. Len(s) : (s \o t)[i] = s[i]
        /\ \A i \in (Len(s) + 1) .. (Len(s) + Len(t)) : (s \o t)[i] = t[i - Len(s)]
    BY <1>1, ConcatenationFacts, Zenon
  <2>2. /\ 1 \in 1 .. Len(s) /\ 2 \in 1 .. Len(s) /\ 3 \in 1 .. Len(s)
        /\ 4 \in (Len(s) + 1) .. (Len(s) + Len(t)) /\ 4 - Len(s) = 1 /\ Len(s) + Len(t) = 4
    BY <1>1
  <2>3. /\ (s \o t)[1] = s[1] /\ (s \o t)[2] = s[2] /\ (s \o t)[3] = s[3]
        /\ (s \o t)[4] = t[4 - Len(s)]
    BY <2>1, <2>2, Zenon
  <2>4. QED
    BY <1>1, <2>1, <2>2, <2>3, Zenon
<1>3. \A i \in 1 .. 4 : (s \o t)[i] = u[i]
  BY <1>1, <1>2
<1>4. s \o t = u
  BY <1>1, <1>2, <1>3
<1>5. QED
  BY <1>4 DEF s, t, u

\* What a size that fits its clause is.
LEMMA Sizes1 ==
  /\ \A n : E(n).kind # "range" /\ \A size : SizeFits(E(n), size) => size = n
  /\ AnyFixed.kind # "range" /\ \A size : SizeFits(AnyFixed, size) => size # 0
  /\ \A n : /\ AtLeast(n).kind # "range"
             /\ \A size : SizeFits(AtLeast(n), size) => size >= n
BY DEF SizeFits, E, Exactly, AnyFixed, AtLeast

-----------------------------------------------------------------------------
(* A model that takes what it is sent and gives what is read of it. *)

Taken(description, n, tensor) ==
  /\ n \in DOMAIN description.inputs
  /\ Takes(description.inputs[n].type, tensor.type)
  /\ Admits(description.inputs[n], tensor.shape)

Gives(description, wanted) ==
  \A n \in DOMAIN wanted :
    /\ FeatureIs(description.outputs, n, wanted[n].type, wanted[n].shape)
    /\ ~description.outputs[n].optional
    /\ wanted[n].type # "none"

\* A prediction of such a model cannot fail.
LEMMA GivenIsRead ==
  ASSUME NEW description, NEW sent, NEW wanted, Runs(description, sent), Gives(description, wanted)
  PROVE  Outcomes(description, sent, wanted) = {"ok"}
BY Zenon DEF Outcomes, Gives, FeatureIs

\* A model whose check passes fails no clause, written out by the numbers of
\* features its contract names.
LEMMA Clauses11 ==
  ASSUME NEW m, NEW f1, NEW g1,
         CheckLoadContract(m, Contract(<<f1>>, <<g1>>)) = "ok"
  PROVE  /\ m.states = {}
         /\ \A n \in DOMAIN m.inputs : m.inputs[n].optional \/ n \in {f1.name}
         /\ FeatureHolds(f1, m.inputs)
         /\ FeatureHolds(g1, m.outputs) /\ ~m.outputs[g1.name].optional
<1> DEFINE ins == <<f1>>
           outs == <<g1>>
           all == {f1, g1}
<1>1. ins \in Seq(all) /\ outs \in Seq(all)
  OBVIOUS
<1>2. /\ DOMAIN ins = 1 .. 1 /\ ins[1] = f1
      /\ DOMAIN outs = 1 .. 1 /\ outs[1] = g1
  OBVIOUS
<1>3. 1 \in DOMAIN ins
  BY <1>2
<1>4. 1 \in DOMAIN outs
  BY <1>2
<1>5. \A x \in DOMAIN ins : ins[x] = f1
  BY <1>2
<1> HIDE DEF ins, outs, all
<1>6. CheckLoadContract(m, Contract(ins, outs)) = "ok"
  BY DEF ins, outs
<1>7. ContractHolds(m, Contract(ins, outs))
  BY <1>1, <1>6, ContractChecked, Zenon
<1>8. Contract(ins, outs).inputs = ins /\ Contract(ins, outs).outputs = outs
  BY DEF Contract
<1>9. \A n \in Named(ins) : n \in {f1.name}
  BY <1>5, Zenon DEF Named
<1>10. QED
  BY <1>2, <1>3, <1>4, <1>7, <1>8, <1>9, Zenon DEF ContractHolds

LEMMA Clauses21 ==
  ASSUME NEW m, NEW f1, NEW f2, NEW g1,
         CheckLoadContract(m, Contract(<<f1, f2>>, <<g1>>)) = "ok"
  PROVE  /\ m.states = {}
         /\ \A n \in DOMAIN m.inputs : m.inputs[n].optional \/ n \in {f1.name, f2.name}
         /\ FeatureHolds(f1, m.inputs)
         /\ FeatureHolds(f2, m.inputs)
         /\ FeatureHolds(g1, m.outputs) /\ ~m.outputs[g1.name].optional
<1> DEFINE ins == <<f1, f2>>
           outs == <<g1>>
           all == {f1, f2, g1}
<1>1. ins \in Seq(all) /\ outs \in Seq(all)
  OBVIOUS
<1>2. /\ DOMAIN ins = 1 .. 2 /\ ins[1] = f1 /\ ins[2] = f2
      /\ DOMAIN outs = 1 .. 1 /\ outs[1] = g1
  OBVIOUS
<1>3. 1 \in DOMAIN ins /\ 2 \in DOMAIN ins
  BY <1>2
<1>4. 1 \in DOMAIN outs
  BY <1>2
<1>5. \A x \in DOMAIN ins : ins[x] = f1 \/ ins[x] = f2
  BY <1>2
<1> HIDE DEF ins, outs, all
<1>6. CheckLoadContract(m, Contract(ins, outs)) = "ok"
  BY DEF ins, outs
<1>7. ContractHolds(m, Contract(ins, outs))
  BY <1>1, <1>6, ContractChecked, Zenon
<1>8. Contract(ins, outs).inputs = ins /\ Contract(ins, outs).outputs = outs
  BY DEF Contract
<1>9. \A n \in Named(ins) : n \in {f1.name, f2.name}
  BY <1>5, Zenon DEF Named
<1>10. QED
  BY <1>2, <1>3, <1>4, <1>7, <1>8, <1>9, Zenon DEF ContractHolds

LEMMA Clauses31 ==
  ASSUME NEW m, NEW f1, NEW f2, NEW f3, NEW g1,
         CheckLoadContract(m, Contract(<<f1, f2, f3>>, <<g1>>)) = "ok"
  PROVE  /\ m.states = {}
         /\ \A n \in DOMAIN m.inputs : m.inputs[n].optional \/ n \in {f1.name, f2.name, f3.name}
         /\ FeatureHolds(f1, m.inputs)
         /\ FeatureHolds(f2, m.inputs)
         /\ FeatureHolds(f3, m.inputs)
         /\ FeatureHolds(g1, m.outputs) /\ ~m.outputs[g1.name].optional
<1> DEFINE ins == <<f1, f2, f3>>
           outs == <<g1>>
           all == {f1, f2, f3, g1}
<1>1. ins \in Seq(all) /\ outs \in Seq(all)
  OBVIOUS
<1>2. /\ DOMAIN ins = 1 .. 3 /\ ins[1] = f1 /\ ins[2] = f2 /\ ins[3] = f3
      /\ DOMAIN outs = 1 .. 1 /\ outs[1] = g1
  OBVIOUS
<1>3. 1 \in DOMAIN ins /\ 2 \in DOMAIN ins /\ 3 \in DOMAIN ins
  BY <1>2
<1>4. 1 \in DOMAIN outs
  BY <1>2
<1>5. \A x \in DOMAIN ins : ins[x] = f1 \/ ins[x] = f2 \/ ins[x] = f3
  BY <1>2
<1> HIDE DEF ins, outs, all
<1>6. CheckLoadContract(m, Contract(ins, outs)) = "ok"
  BY DEF ins, outs
<1>7. ContractHolds(m, Contract(ins, outs))
  BY <1>1, <1>6, ContractChecked, Zenon
<1>8. Contract(ins, outs).inputs = ins /\ Contract(ins, outs).outputs = outs
  BY DEF Contract
<1>9. \A n \in Named(ins) : n \in {f1.name, f2.name, f3.name}
  BY <1>5, Zenon DEF Named
<1>10. QED
  BY <1>2, <1>3, <1>4, <1>7, <1>8, <1>9, Zenon DEF ContractHolds

LEMMA MelAnswers ==
  ASSUME NEW m, Described(m), CheckLoadContract(m, MelContract) = "ok"
  PROVE  /\ Runs(m, [audio |-> Tensor("f32", <<InputDim(m, "audio", 1)>>)])
         /\ Gives(m,
                  [mel |-> Tensor("f16", <<1, OutputDim(m, "mel", 2), 1, OutputDim(m, "mel", 4)>>)])
         /\ InputDim(m, "audio", 1) \in Nat \ {0}
         /\ OutputDim(m, "mel", 2) \in Nat \ {0}
         /\ OutputDim(m, "mel", 4) \in Nat \ {0}
<1> DEFINE f1 == F("audio", "f16", <<AnyFixed>>)
           g1 == F("mel", "f16", <<E(1), AnyFixed, E(1), AnyFixed>>)
           sent == [audio |-> Tensor("f32", <<InputDim(m, "audio", 1)>>)]
           wanted == [mel |-> Tensor("f16",
                                     <<1, OutputDim(m, "mel", 2), 1, OutputDim(m, "mel", 4)>>)]
<1>1. CheckLoadContract(m, Contract(<<f1>>, <<g1>>)) = "ok"
  BY DEF MelContract
<1>2. f1.name = "audio" /\ g1.name = "mel"
  BY DEF F, FeatureContract
<1>3. /\ \A n \in DOMAIN m.inputs : DescribedFeature(m.inputs[n])
      /\ \A n \in DOMAIN m.outputs : DescribedFeature(m.outputs[n])
  BY Zenon DEF Described
<1> HIDE DEF f1, g1
<1>4. /\ m.states = {}
      /\ \A n \in DOMAIN m.inputs : m.inputs[n].optional \/ n \in {"audio"}
      /\ FeatureHolds(f1, m.inputs) /\ FeatureHolds(g1, m.outputs)
      /\ ~m.outputs["mel"].optional
  <2>1. /\ m.states = {}
        /\ \A n \in DOMAIN m.inputs : m.inputs[n].optional \/ n \in {f1.name}
        /\ FeatureHolds(f1, m.inputs) /\ FeatureHolds(g1, m.outputs)
        /\ ~m.outputs[g1.name].optional
    BY <1>1, Clauses11
  <2>2. QED
    BY <1>2, <2>1, Zenon
<1>5. /\ FeatureIs(m.inputs, "audio", "f16", <<InputDim(m, "audio", 1)>>)
      /\ AxisOf(m.inputs, "audio", 1) \in Nat \ {0}
  <2>1. /\ FeatureIs(m.inputs, "audio", "f16", <<AxisOf(m.inputs, "audio", 1)>>)
        /\ AxisOf(m.inputs, "audio", 1) \in Nat /\ SizeFits(AnyFixed, AxisOf(m.inputs, "audio", 1))
    <3>1. FeatureHolds(F("audio", "f16", <<AnyFixed>>), m.inputs)
      BY <1>4 DEF f1
    <3>2. AnyFixed.kind # "range"
      BY Sizes1, Zenon
    <3>3. QED
      BY <1>3, <3>1, <3>2, Fixed1, Zenon
  <2>2. AxisOf(m.inputs, "audio", 1) \in Nat \ {0}
    BY <2>1, Sizes1
  <2>3. QED
    BY <2>1, <2>2, Zenon DEF InputDim
<1>6. /\ FeatureIs(m.outputs, "mel", "f16",
                   <<1, OutputDim(m, "mel", 2), 1, OutputDim(m, "mel", 4)>>)
      /\ AxisOf(m.outputs, "mel", 1) = 1 /\ AxisOf(m.outputs, "mel", 2) \in Nat \ {0}
      /\ AxisOf(m.outputs, "mel", 3) = 1 /\ AxisOf(m.outputs, "mel", 4) \in Nat \ {0}
  <2>1. /\ FeatureIs(m.outputs, "mel", "f16",
                     <<AxisOf(m.outputs, "mel", 1), AxisOf(m.outputs, "mel", 2),
                       AxisOf(m.outputs, "mel", 3), AxisOf(m.outputs, "mel", 4)>>)
        /\ AxisOf(m.outputs, "mel", 1) \in Nat /\ SizeFits(E(1), AxisOf(m.outputs, "mel", 1))
        /\ AxisOf(m.outputs, "mel", 2) \in Nat /\ SizeFits(AnyFixed, AxisOf(m.outputs, "mel", 2))
        /\ AxisOf(m.outputs, "mel", 3) \in Nat /\ SizeFits(E(1), AxisOf(m.outputs, "mel", 3))
        /\ AxisOf(m.outputs, "mel", 4) \in Nat /\ SizeFits(AnyFixed, AxisOf(m.outputs, "mel", 4))
    <3>1. FeatureHolds(F("mel", "f16", <<E(1), AnyFixed, E(1), AnyFixed>>), m.outputs)
      BY <1>4 DEF g1
    <3>2. /\ E(1).kind # "range" /\ AnyFixed.kind # "range" /\ E(1).kind # "range"
          /\ AnyFixed.kind # "range"
      BY Sizes1, Zenon
    <3>3. QED
      BY <1>3, <3>1, <3>2, Fixed4, Zenon
  <2>2. /\ AxisOf(m.outputs, "mel", 1) = 1 /\ AxisOf(m.outputs, "mel", 2) \in Nat \ {0}
        /\ AxisOf(m.outputs, "mel", 3) = 1 /\ AxisOf(m.outputs, "mel", 4) \in Nat \ {0}
    BY <2>1, Sizes1
  <2>3. QED
    BY <2>1, <2>2, Zenon DEF OutputDim
<1>7. Runs(m, sent)
  <2>1. /\ DOMAIN sent = {"audio"}
        /\ sent["audio"].type = "f32" /\ sent["audio"].shape = <<InputDim(m, "audio", 1)>>
    BY DEF Tensor
  <2> HIDE DEF sent
  <2>2. QED
    BY <1>4, <1>5, <2>1, Zenon DEF Runs, Takes, Admits, FeatureIs
<1>8. Gives(m, wanted)
  <2>1. /\ DOMAIN wanted = {"mel"}
        /\ wanted["mel"].type = "f16"
        /\ wanted["mel"].shape = <<1, OutputDim(m, "mel", 2), 1, OutputDim(m, "mel", 4)>>
    BY DEF Tensor
  <2> HIDE DEF wanted
  <2>2. "f16" # "none"
    OBVIOUS
  <2>3. QED
    BY <1>4, <1>6, <2>1, <2>2, Zenon DEF Gives
<1>9. QED
  BY <1>5, <1>6, <1>7, <1>8, Zenon DEF InputDim, OutputDim

LEMMA EncoderAnswers ==
  ASSUME NEW m, Described(m), NEW d, CheckLoadContract(m, EncoderContract(d)) = "ok"
  PROVE  /\ Runs(m, [mel |-> Tensor("f16", <<1, d["M"], 1, d["T"]>>)])
         /\ Gives(m,
                  [embeds |-> Tensor("f16",
                                     <<1, OutputDim(m, "embeds", 2), 1,
                                       OutputDim(m, "embeds", 4)>>)])
         /\ OutputDim(m, "embeds", 2) \in Nat \ {0}
         /\ OutputDim(m, "embeds", 4) \in Nat \ {0}
<1> DEFINE f1 == F("mel", "f16", <<E(1), E(d["M"]), E(1), E(d["T"])>>)
           g1 == F("embeds", "f16", <<E(1), AnyFixed, E(1), AnyFixed>>)
           sent == [mel |-> Tensor("f16", <<1, d["M"], 1, d["T"]>>)]
           wanted == [embeds |-> Tensor("f16",
                                        <<1, OutputDim(m, "embeds", 2), 1,
                                          OutputDim(m, "embeds", 4)>>)]
<1>1. CheckLoadContract(m, Contract(<<f1>>, <<g1>>)) = "ok"
  BY DEF EncoderContract
<1>2. f1.name = "mel" /\ g1.name = "embeds"
  BY DEF F, FeatureContract
<1>3. /\ \A n \in DOMAIN m.inputs : DescribedFeature(m.inputs[n])
      /\ \A n \in DOMAIN m.outputs : DescribedFeature(m.outputs[n])
  BY Zenon DEF Described
<1> HIDE DEF f1, g1
<1>4. /\ m.states = {}
      /\ \A n \in DOMAIN m.inputs : m.inputs[n].optional \/ n \in {"mel"}
      /\ FeatureHolds(f1, m.inputs) /\ FeatureHolds(g1, m.outputs)
      /\ ~m.outputs["embeds"].optional
  <2>1. /\ m.states = {}
        /\ \A n \in DOMAIN m.inputs : m.inputs[n].optional \/ n \in {f1.name}
        /\ FeatureHolds(f1, m.inputs) /\ FeatureHolds(g1, m.outputs)
        /\ ~m.outputs[g1.name].optional
    BY <1>1, Clauses11
  <2>2. QED
    BY <1>2, <2>1, Zenon
<1>5. /\ FeatureIs(m.inputs, "mel", "f16", <<1, d["M"], 1, d["T"]>>)
      /\ AxisOf(m.inputs, "mel", 1) = 1 /\ AxisOf(m.inputs, "mel", 2) = d["M"]
      /\ AxisOf(m.inputs, "mel", 3) = 1 /\ AxisOf(m.inputs, "mel", 4) = d["T"]
  <2>1. /\ FeatureIs(m.inputs, "mel", "f16",
                     <<AxisOf(m.inputs, "mel", 1), AxisOf(m.inputs, "mel", 2),
                       AxisOf(m.inputs, "mel", 3), AxisOf(m.inputs, "mel", 4)>>)
        /\ AxisOf(m.inputs, "mel", 1) \in Nat /\ SizeFits(E(1), AxisOf(m.inputs, "mel", 1))
        /\ AxisOf(m.inputs, "mel", 2) \in Nat /\ SizeFits(E(d["M"]), AxisOf(m.inputs, "mel", 2))
        /\ AxisOf(m.inputs, "mel", 3) \in Nat /\ SizeFits(E(1), AxisOf(m.inputs, "mel", 3))
        /\ AxisOf(m.inputs, "mel", 4) \in Nat /\ SizeFits(E(d["T"]), AxisOf(m.inputs, "mel", 4))
    <3>1. FeatureHolds(F("mel", "f16", <<E(1), E(d["M"]), E(1), E(d["T"])>>), m.inputs)
      BY <1>4 DEF f1
    <3>2. /\ E(1).kind # "range" /\ E(d["M"]).kind # "range" /\ E(1).kind # "range"
          /\ E(d["T"]).kind # "range"
      BY Sizes1, Zenon
    <3>3. QED
      BY <1>3, <3>1, <3>2, Fixed4, Zenon
  <2>2. /\ AxisOf(m.inputs, "mel", 1) = 1 /\ AxisOf(m.inputs, "mel", 2) = d["M"]
        /\ AxisOf(m.inputs, "mel", 3) = 1 /\ AxisOf(m.inputs, "mel", 4) = d["T"]
    BY <2>1, Sizes1
  <2>3. QED
    BY <2>1, <2>2, Zenon DEF InputDim
<1>6. /\ FeatureIs(m.outputs, "embeds", "f16",
                   <<1, OutputDim(m, "embeds", 2), 1, OutputDim(m, "embeds", 4)>>)
      /\ AxisOf(m.outputs, "embeds", 1) = 1 /\ AxisOf(m.outputs, "embeds", 2) \in Nat \ {0}
      /\ AxisOf(m.outputs, "embeds", 3) = 1 /\ AxisOf(m.outputs, "embeds", 4) \in Nat \ {0}
  <2>1. /\ FeatureIs(m.outputs, "embeds", "f16",
                     <<AxisOf(m.outputs, "embeds", 1), AxisOf(m.outputs, "embeds", 2),
                       AxisOf(m.outputs, "embeds", 3), AxisOf(m.outputs, "embeds", 4)>>)
        /\ AxisOf(m.outputs, "embeds", 1) \in Nat /\ SizeFits(E(1), AxisOf(m.outputs, "embeds", 1))
        /\ AxisOf(m.outputs, "embeds", 2) \in Nat
        /\ SizeFits(AnyFixed, AxisOf(m.outputs, "embeds", 2))
        /\ AxisOf(m.outputs, "embeds", 3) \in Nat /\ SizeFits(E(1), AxisOf(m.outputs, "embeds", 3))
        /\ AxisOf(m.outputs, "embeds", 4) \in Nat
        /\ SizeFits(AnyFixed, AxisOf(m.outputs, "embeds", 4))
    <3>1. FeatureHolds(F("embeds", "f16", <<E(1), AnyFixed, E(1), AnyFixed>>), m.outputs)
      BY <1>4 DEF g1
    <3>2. /\ E(1).kind # "range" /\ AnyFixed.kind # "range" /\ E(1).kind # "range"
          /\ AnyFixed.kind # "range"
      BY Sizes1, Zenon
    <3>3. QED
      BY <1>3, <3>1, <3>2, Fixed4, Zenon
  <2>2. /\ AxisOf(m.outputs, "embeds", 1) = 1 /\ AxisOf(m.outputs, "embeds", 2) \in Nat \ {0}
        /\ AxisOf(m.outputs, "embeds", 3) = 1 /\ AxisOf(m.outputs, "embeds", 4) \in Nat \ {0}
    BY <2>1, Sizes1
  <2>3. QED
    BY <2>1, <2>2, Zenon DEF OutputDim
<1>7. Runs(m, sent)
  <2>1. /\ DOMAIN sent = {"mel"}
        /\ sent["mel"].type = "f16" /\ sent["mel"].shape = <<1, d["M"], 1, d["T"]>>
    BY DEF Tensor
  <2> HIDE DEF sent
  <2>2. QED
    BY <1>4, <1>5, <2>1, Zenon DEF Runs, Takes, Admits, FeatureIs
<1>8. Gives(m, wanted)
  <2>1. /\ DOMAIN wanted = {"embeds"}
        /\ wanted["embeds"].type = "f16"
        /\ wanted["embeds"].shape = <<1, OutputDim(m, "embeds", 2), 1, OutputDim(m, "embeds", 4)>>
    BY DEF Tensor
  <2> HIDE DEF wanted
  <2>2. "f16" # "none"
    OBVIOUS
  <2>3. QED
    BY <1>4, <1>6, <2>1, <2>2, Zenon DEF Gives
<1>9. QED
  BY <1>5, <1>6, <1>7, <1>8, Zenon DEF InputDim, OutputDim

LEMMA IdentityAnswers ==
  ASSUME NEW m, Described(m), CheckLoadContract(m, IdentityContract) = "ok"
  PROVE  /\ Runs(m, [mel |-> Tensor("f32", <<1, IdentityMels, IdentityFrames>>)])
         /\ Gives(m, [embedding |-> Tensor("f32", <<1, IdentityDim>>)])
<1> DEFINE f1 == F("mel", "f32", <<E(1), E(IdentityMels), E(IdentityFrames)>>)
           g1 == F("embedding", "f32", <<E(1), E(IdentityDim)>>)
           sent == [mel |-> Tensor("f32", <<1, IdentityMels, IdentityFrames>>)]
           wanted == [embedding |-> Tensor("f32", <<1, IdentityDim>>)]
<1>1. CheckLoadContract(m, Contract(<<f1>>, <<g1>>)) = "ok"
  BY DEF IdentityContract
<1>2. f1.name = "mel" /\ g1.name = "embedding"
  BY DEF F, FeatureContract
<1>3. /\ \A n \in DOMAIN m.inputs : DescribedFeature(m.inputs[n])
      /\ \A n \in DOMAIN m.outputs : DescribedFeature(m.outputs[n])
  BY Zenon DEF Described
<1> HIDE DEF f1, g1
<1>4. /\ m.states = {}
      /\ \A n \in DOMAIN m.inputs : m.inputs[n].optional \/ n \in {"mel"}
      /\ FeatureHolds(f1, m.inputs) /\ FeatureHolds(g1, m.outputs)
      /\ ~m.outputs["embedding"].optional
  <2>1. /\ m.states = {}
        /\ \A n \in DOMAIN m.inputs : m.inputs[n].optional \/ n \in {f1.name}
        /\ FeatureHolds(f1, m.inputs) /\ FeatureHolds(g1, m.outputs)
        /\ ~m.outputs[g1.name].optional
    BY <1>1, Clauses11
  <2>2. QED
    BY <1>2, <2>1, Zenon
<1>5. /\ FeatureIs(m.inputs, "mel", "f32", <<1, IdentityMels, IdentityFrames>>)
      /\ AxisOf(m.inputs, "mel", 1) = 1 /\ AxisOf(m.inputs, "mel", 2) = IdentityMels
      /\ AxisOf(m.inputs, "mel", 3) = IdentityFrames
  <2>1. /\ FeatureIs(m.inputs, "mel", "f32",
                     <<AxisOf(m.inputs, "mel", 1), AxisOf(m.inputs, "mel", 2),
                       AxisOf(m.inputs, "mel", 3)>>)
        /\ AxisOf(m.inputs, "mel", 1) \in Nat /\ SizeFits(E(1), AxisOf(m.inputs, "mel", 1))
        /\ AxisOf(m.inputs, "mel", 2) \in Nat
        /\ SizeFits(E(IdentityMels), AxisOf(m.inputs, "mel", 2))
        /\ AxisOf(m.inputs, "mel", 3) \in Nat
        /\ SizeFits(E(IdentityFrames), AxisOf(m.inputs, "mel", 3))
    <3>1. FeatureHolds(F("mel", "f32", <<E(1), E(IdentityMels), E(IdentityFrames)>>), m.inputs)
      BY <1>4 DEF f1
    <3>2. E(1).kind # "range" /\ E(IdentityMels).kind # "range" /\ E(IdentityFrames).kind # "range"
      BY Sizes1, Zenon
    <3>3. QED
      BY <1>3, <3>1, <3>2, Fixed3, Zenon
  <2>2. /\ AxisOf(m.inputs, "mel", 1) = 1 /\ AxisOf(m.inputs, "mel", 2) = IdentityMels
        /\ AxisOf(m.inputs, "mel", 3) = IdentityFrames
    BY <2>1, Sizes1
  <2>3. QED
    BY <2>1, <2>2, Zenon DEF InputDim
<1>6. /\ FeatureIs(m.outputs, "embedding", "f32", <<1, IdentityDim>>)
      /\ AxisOf(m.outputs, "embedding", 1) = 1 /\ AxisOf(m.outputs, "embedding", 2) = IdentityDim
  <2>1. /\ FeatureIs(m.outputs, "embedding", "f32",
                     <<AxisOf(m.outputs, "embedding", 1), AxisOf(m.outputs, "embedding", 2)>>)
        /\ AxisOf(m.outputs, "embedding", 1) \in Nat
        /\ SizeFits(E(1), AxisOf(m.outputs, "embedding", 1))
        /\ AxisOf(m.outputs, "embedding", 2) \in Nat
        /\ SizeFits(E(IdentityDim), AxisOf(m.outputs, "embedding", 2))
    <3>1. FeatureHolds(F("embedding", "f32", <<E(1), E(IdentityDim)>>), m.outputs)
      BY <1>4 DEF g1
    <3>2. E(1).kind # "range" /\ E(IdentityDim).kind # "range"
      BY Sizes1, Zenon
    <3>3. QED
      BY <1>3, <3>1, <3>2, Fixed2, Zenon
  <2>2. AxisOf(m.outputs, "embedding", 1) = 1 /\ AxisOf(m.outputs, "embedding", 2) = IdentityDim
    BY <2>1, Sizes1
  <2>3. QED
    BY <2>1, <2>2, Zenon DEF OutputDim
<1>7. Runs(m, sent)
  <2>1. /\ DOMAIN sent = {"mel"}
        /\ sent["mel"].type = "f32" /\ sent["mel"].shape = <<1, IdentityMels, IdentityFrames>>
    BY DEF Tensor
  <2> HIDE DEF sent
  <2>2. QED
    BY <1>4, <1>5, <2>1, Zenon DEF Runs, Takes, Admits, FeatureIs
<1>8. Gives(m, wanted)
  <2>1. /\ DOMAIN wanted = {"embedding"}
        /\ wanted["embedding"].type = "f32" /\ wanted["embedding"].shape = <<1, IdentityDim>>
    BY DEF Tensor
  <2> HIDE DEF wanted
  <2>2. "f32" # "none"
    OBVIOUS
  <2>3. QED
    BY <1>4, <1>6, <2>1, <2>2, Zenon DEF Gives
<1>9. QED
  BY <1>5, <1>6, <1>7, <1>8, Zenon DEF InputDim, OutputDim

LEMMA CedAnswers ==
  ASSUME NEW m, Described(m), CheckLoadContract(m, CedContract) = "ok"
  PROVE  /\ Runs(m, [mel |-> Tensor("f32", <<1, CedMels, CedFrames>>)])
         /\ Gives(m, [logits |-> Tensor("f32", <<1, NumClasses>>)])
<1> DEFINE f1 == F("mel", "f32", <<E(1), E(CedMels), E(CedFrames)>>)
           g1 == F("logits", "f32", <<E(1), E(NumClasses)>>)
           sent == [mel |-> Tensor("f32", <<1, CedMels, CedFrames>>)]
           wanted == [logits |-> Tensor("f32", <<1, NumClasses>>)]
<1>1. CheckLoadContract(m, Contract(<<f1>>, <<g1>>)) = "ok"
  BY DEF CedContract
<1>2. f1.name = "mel" /\ g1.name = "logits"
  BY DEF F, FeatureContract
<1>3. /\ \A n \in DOMAIN m.inputs : DescribedFeature(m.inputs[n])
      /\ \A n \in DOMAIN m.outputs : DescribedFeature(m.outputs[n])
  BY Zenon DEF Described
<1> HIDE DEF f1, g1
<1>4. /\ m.states = {}
      /\ \A n \in DOMAIN m.inputs : m.inputs[n].optional \/ n \in {"mel"}
      /\ FeatureHolds(f1, m.inputs) /\ FeatureHolds(g1, m.outputs)
      /\ ~m.outputs["logits"].optional
  <2>1. /\ m.states = {}
        /\ \A n \in DOMAIN m.inputs : m.inputs[n].optional \/ n \in {f1.name}
        /\ FeatureHolds(f1, m.inputs) /\ FeatureHolds(g1, m.outputs)
        /\ ~m.outputs[g1.name].optional
    BY <1>1, Clauses11
  <2>2. QED
    BY <1>2, <2>1, Zenon
<1>5. /\ FeatureIs(m.inputs, "mel", "f32", <<1, CedMels, CedFrames>>)
      /\ AxisOf(m.inputs, "mel", 1) = 1 /\ AxisOf(m.inputs, "mel", 2) = CedMels
      /\ AxisOf(m.inputs, "mel", 3) = CedFrames
  <2>1. /\ FeatureIs(m.inputs, "mel", "f32",
                     <<AxisOf(m.inputs, "mel", 1), AxisOf(m.inputs, "mel", 2),
                       AxisOf(m.inputs, "mel", 3)>>)
        /\ AxisOf(m.inputs, "mel", 1) \in Nat /\ SizeFits(E(1), AxisOf(m.inputs, "mel", 1))
        /\ AxisOf(m.inputs, "mel", 2) \in Nat /\ SizeFits(E(CedMels), AxisOf(m.inputs, "mel", 2))
        /\ AxisOf(m.inputs, "mel", 3) \in Nat /\ SizeFits(E(CedFrames), AxisOf(m.inputs, "mel", 3))
    <3>1. FeatureHolds(F("mel", "f32", <<E(1), E(CedMels), E(CedFrames)>>), m.inputs)
      BY <1>4 DEF f1
    <3>2. E(1).kind # "range" /\ E(CedMels).kind # "range" /\ E(CedFrames).kind # "range"
      BY Sizes1, Zenon
    <3>3. QED
      BY <1>3, <3>1, <3>2, Fixed3, Zenon
  <2>2. /\ AxisOf(m.inputs, "mel", 1) = 1 /\ AxisOf(m.inputs, "mel", 2) = CedMels
        /\ AxisOf(m.inputs, "mel", 3) = CedFrames
    BY <2>1, Sizes1
  <2>3. QED
    BY <2>1, <2>2, Zenon DEF InputDim
<1>6. /\ FeatureIs(m.outputs, "logits", "f32", <<1, NumClasses>>)
      /\ AxisOf(m.outputs, "logits", 1) = 1 /\ AxisOf(m.outputs, "logits", 2) = NumClasses
  <2>1. /\ FeatureIs(m.outputs, "logits", "f32",
                     <<AxisOf(m.outputs, "logits", 1), AxisOf(m.outputs, "logits", 2)>>)
        /\ AxisOf(m.outputs, "logits", 1) \in Nat /\ SizeFits(E(1), AxisOf(m.outputs, "logits", 1))
        /\ AxisOf(m.outputs, "logits", 2) \in Nat
        /\ SizeFits(E(NumClasses), AxisOf(m.outputs, "logits", 2))
    <3>1. FeatureHolds(F("logits", "f32", <<E(1), E(NumClasses)>>), m.outputs)
      BY <1>4 DEF g1
    <3>2. E(1).kind # "range" /\ E(NumClasses).kind # "range"
      BY Sizes1, Zenon
    <3>3. QED
      BY <1>3, <3>1, <3>2, Fixed2, Zenon
  <2>2. AxisOf(m.outputs, "logits", 1) = 1 /\ AxisOf(m.outputs, "logits", 2) = NumClasses
    BY <2>1, Sizes1
  <2>3. QED
    BY <2>1, <2>2, Zenon DEF OutputDim
<1>7. Runs(m, sent)
  <2>1. /\ DOMAIN sent = {"mel"}
        /\ sent["mel"].type = "f32" /\ sent["mel"].shape = <<1, CedMels, CedFrames>>
    BY DEF Tensor
  <2> HIDE DEF sent
  <2>2. QED
    BY <1>4, <1>5, <2>1, Zenon DEF Runs, Takes, Admits, FeatureIs
<1>8. Gives(m, wanted)
  <2>1. /\ DOMAIN wanted = {"logits"}
        /\ wanted["logits"].type = "f32" /\ wanted["logits"].shape = <<1, NumClasses>>
    BY DEF Tensor
  <2> HIDE DEF wanted
  <2>2. "f32" # "none"
    OBVIOUS
  <2>3. QED
    BY <1>4, <1>6, <2>1, <2>2, Zenon DEF Gives
<1>9. QED
  BY <1>5, <1>6, <1>7, <1>8, Zenon DEF InputDim, OutputDim

LEMMA SegmentAnswers ==
  ASSUME NEW m, Described(m), CheckLoadContract(m, SegmentContract) = "ok"
  PROVE  /\ Runs(m, [audio |-> Tensor("f32", <<1, 1, SegmentSamples>>)])
         /\ Gives(m,
                  [segments |-> Tensor("f32", <<1, OutputDim(m, "segments", 2), PowersetClasses>>)])
         /\ OutputDim(m, "segments", 2) \in Nat \ {0}
<1> DEFINE f1 == F("audio", "f32", <<E(1), E(1), E(SegmentSamples)>>)
           g1 == F("segments", "f32", <<E(1), AnyFixed, E(PowersetClasses)>>)
           sent == [audio |-> Tensor("f32", <<1, 1, SegmentSamples>>)]
           wanted == [segments |-> Tensor("f32",
                                          <<1, OutputDim(m, "segments", 2), PowersetClasses>>)]
<1>1. CheckLoadContract(m, Contract(<<f1>>, <<g1>>)) = "ok"
  BY DEF SegmentContract
<1>2. f1.name = "audio" /\ g1.name = "segments"
  BY DEF F, FeatureContract
<1>3. /\ \A n \in DOMAIN m.inputs : DescribedFeature(m.inputs[n])
      /\ \A n \in DOMAIN m.outputs : DescribedFeature(m.outputs[n])
  BY Zenon DEF Described
<1> HIDE DEF f1, g1
<1>4. /\ m.states = {}
      /\ \A n \in DOMAIN m.inputs : m.inputs[n].optional \/ n \in {"audio"}
      /\ FeatureHolds(f1, m.inputs) /\ FeatureHolds(g1, m.outputs)
      /\ ~m.outputs["segments"].optional
  <2>1. /\ m.states = {}
        /\ \A n \in DOMAIN m.inputs : m.inputs[n].optional \/ n \in {f1.name}
        /\ FeatureHolds(f1, m.inputs) /\ FeatureHolds(g1, m.outputs)
        /\ ~m.outputs[g1.name].optional
    BY <1>1, Clauses11
  <2>2. QED
    BY <1>2, <2>1, Zenon
<1>5. /\ FeatureIs(m.inputs, "audio", "f32", <<1, 1, SegmentSamples>>)
      /\ AxisOf(m.inputs, "audio", 1) = 1 /\ AxisOf(m.inputs, "audio", 2) = 1
      /\ AxisOf(m.inputs, "audio", 3) = SegmentSamples
  <2>1. /\ FeatureIs(m.inputs, "audio", "f32",
                     <<AxisOf(m.inputs, "audio", 1), AxisOf(m.inputs, "audio", 2),
                       AxisOf(m.inputs, "audio", 3)>>)
        /\ AxisOf(m.inputs, "audio", 1) \in Nat /\ SizeFits(E(1), AxisOf(m.inputs, "audio", 1))
        /\ AxisOf(m.inputs, "audio", 2) \in Nat /\ SizeFits(E(1), AxisOf(m.inputs, "audio", 2))
        /\ AxisOf(m.inputs, "audio", 3) \in Nat
        /\ SizeFits(E(SegmentSamples), AxisOf(m.inputs, "audio", 3))
    <3>1. FeatureHolds(F("audio", "f32", <<E(1), E(1), E(SegmentSamples)>>), m.inputs)
      BY <1>4 DEF f1
    <3>2. E(1).kind # "range" /\ E(1).kind # "range" /\ E(SegmentSamples).kind # "range"
      BY Sizes1, Zenon
    <3>3. QED
      BY <1>3, <3>1, <3>2, Fixed3, Zenon
  <2>2. /\ AxisOf(m.inputs, "audio", 1) = 1 /\ AxisOf(m.inputs, "audio", 2) = 1
        /\ AxisOf(m.inputs, "audio", 3) = SegmentSamples
    BY <2>1, Sizes1
  <2>3. QED
    BY <2>1, <2>2, Zenon DEF InputDim
<1>6. /\ FeatureIs(m.outputs, "segments", "f32",
                   <<1, OutputDim(m, "segments", 2), PowersetClasses>>)
      /\ AxisOf(m.outputs, "segments", 1) = 1 /\ AxisOf(m.outputs, "segments", 2) \in Nat \ {0}
      /\ AxisOf(m.outputs, "segments", 3) = PowersetClasses
  <2>1. /\ FeatureIs(m.outputs, "segments", "f32",
                     <<AxisOf(m.outputs, "segments", 1), AxisOf(m.outputs, "segments", 2),
                       AxisOf(m.outputs, "segments", 3)>>)
        /\ AxisOf(m.outputs, "segments", 1) \in Nat
        /\ SizeFits(E(1), AxisOf(m.outputs, "segments", 1))
        /\ AxisOf(m.outputs, "segments", 2) \in Nat
        /\ SizeFits(AnyFixed, AxisOf(m.outputs, "segments", 2))
        /\ AxisOf(m.outputs, "segments", 3) \in Nat
        /\ SizeFits(E(PowersetClasses), AxisOf(m.outputs, "segments", 3))
    <3>1. FeatureHolds(F("segments", "f32", <<E(1), AnyFixed, E(PowersetClasses)>>), m.outputs)
      BY <1>4 DEF g1
    <3>2. E(1).kind # "range" /\ AnyFixed.kind # "range" /\ E(PowersetClasses).kind # "range"
      BY Sizes1, Zenon
    <3>3. QED
      BY <1>3, <3>1, <3>2, Fixed3, Zenon
  <2>2. /\ AxisOf(m.outputs, "segments", 1) = 1 /\ AxisOf(m.outputs, "segments", 2) \in Nat \ {0}
        /\ AxisOf(m.outputs, "segments", 3) = PowersetClasses
    BY <2>1, Sizes1
  <2>3. QED
    BY <2>1, <2>2, Zenon DEF OutputDim
<1>7. Runs(m, sent)
  <2>1. /\ DOMAIN sent = {"audio"}
        /\ sent["audio"].type = "f32" /\ sent["audio"].shape = <<1, 1, SegmentSamples>>
    BY DEF Tensor
  <2> HIDE DEF sent
  <2>2. QED
    BY <1>4, <1>5, <2>1, Zenon DEF Runs, Takes, Admits, FeatureIs
<1>8. Gives(m, wanted)
  <2>1. /\ DOMAIN wanted = {"segments"}
        /\ wanted["segments"].type = "f32"
        /\ wanted["segments"].shape = <<1, OutputDim(m, "segments", 2), PowersetClasses>>
    BY DEF Tensor
  <2> HIDE DEF wanted
  <2>2. "f32" # "none"
    OBVIOUS
  <2>3. QED
    BY <1>4, <1>6, <2>1, <2>2, Zenon DEF Gives
<1>9. QED
  BY <1>5, <1>6, <1>7, <1>8, Zenon DEF InputDim, OutputDim

LEMMA EmbedAnswers ==
  ASSUME NEW m, Described(m), CheckLoadContract(m, EmbedContract) = "ok"
  PROVE  /\ Runs(m, [waveform |-> Tensor("f32", <<EmbedSlots, SegmentSamples>>),
                 mask |-> Tensor("f32", <<EmbedSlots, InputDim(m, "mask", 2)>>)])
         /\ Gives(m, [embedding |-> Tensor("f32", <<EmbedSlots, SpeakerDim>>)])
         /\ InputDim(m, "mask", 2) \in Nat \ {0}
<1> DEFINE f1 == F("waveform", "f32", <<E(EmbedSlots), E(SegmentSamples)>>)
           f2 == F("mask", "f32", <<E(EmbedSlots), AnyFixed>>)
           g1 == F("embedding", "f32", <<E(EmbedSlots), E(SpeakerDim)>>)
           sent == [waveform |-> Tensor("f32", <<EmbedSlots, SegmentSamples>>),
                 mask |-> Tensor("f32", <<EmbedSlots, InputDim(m, "mask", 2)>>)]
           wanted == [embedding |-> Tensor("f32", <<EmbedSlots, SpeakerDim>>)]
<1>1. CheckLoadContract(m, Contract(<<f1, f2>>, <<g1>>)) = "ok"
  BY DEF EmbedContract
<1>2. f1.name = "waveform" /\ f2.name = "mask" /\ g1.name = "embedding"
  BY DEF F, FeatureContract
<1>3. /\ \A n \in DOMAIN m.inputs : DescribedFeature(m.inputs[n])
      /\ \A n \in DOMAIN m.outputs : DescribedFeature(m.outputs[n])
  BY Zenon DEF Described
<1> HIDE DEF f1, f2, g1
<1>4. /\ m.states = {}
      /\ \A n \in DOMAIN m.inputs : m.inputs[n].optional \/ n \in {"waveform", "mask"}
      /\ FeatureHolds(f1, m.inputs) /\ FeatureHolds(f2, m.inputs) /\ FeatureHolds(g1, m.outputs)
      /\ ~m.outputs["embedding"].optional
  <2>1. /\ m.states = {}
        /\ \A n \in DOMAIN m.inputs : m.inputs[n].optional \/ n \in {f1.name, f2.name}
        /\ FeatureHolds(f1, m.inputs) /\ FeatureHolds(f2, m.inputs) /\ FeatureHolds(g1, m.outputs)
        /\ ~m.outputs[g1.name].optional
    BY <1>1, Clauses21
  <2>2. QED
    BY <1>2, <2>1, Zenon
<1>5. /\ FeatureIs(m.inputs, "waveform", "f32", <<EmbedSlots, SegmentSamples>>)
      /\ AxisOf(m.inputs, "waveform", 1) = EmbedSlots
      /\ AxisOf(m.inputs, "waveform", 2) = SegmentSamples
  <2>1. /\ FeatureIs(m.inputs, "waveform", "f32",
                     <<AxisOf(m.inputs, "waveform", 1), AxisOf(m.inputs, "waveform", 2)>>)
        /\ AxisOf(m.inputs, "waveform", 1) \in Nat
        /\ SizeFits(E(EmbedSlots), AxisOf(m.inputs, "waveform", 1))
        /\ AxisOf(m.inputs, "waveform", 2) \in Nat
        /\ SizeFits(E(SegmentSamples), AxisOf(m.inputs, "waveform", 2))
    <3>1. FeatureHolds(F("waveform", "f32", <<E(EmbedSlots), E(SegmentSamples)>>), m.inputs)
      BY <1>4 DEF f1
    <3>2. E(EmbedSlots).kind # "range" /\ E(SegmentSamples).kind # "range"
      BY Sizes1, Zenon
    <3>3. QED
      BY <1>3, <3>1, <3>2, Fixed2, Zenon
  <2>2. /\ AxisOf(m.inputs, "waveform", 1) = EmbedSlots
        /\ AxisOf(m.inputs, "waveform", 2) = SegmentSamples
    BY <2>1, Sizes1
  <2>3. QED
    BY <2>1, <2>2, Zenon DEF InputDim
<1>6. /\ FeatureIs(m.inputs, "mask", "f32", <<EmbedSlots, InputDim(m, "mask", 2)>>)
      /\ AxisOf(m.inputs, "mask", 1) = EmbedSlots /\ AxisOf(m.inputs, "mask", 2) \in Nat \ {0}
  <2>1. /\ FeatureIs(m.inputs, "mask", "f32",
                     <<AxisOf(m.inputs, "mask", 1), AxisOf(m.inputs, "mask", 2)>>)
        /\ AxisOf(m.inputs, "mask", 1) \in Nat
        /\ SizeFits(E(EmbedSlots), AxisOf(m.inputs, "mask", 1))
        /\ AxisOf(m.inputs, "mask", 2) \in Nat /\ SizeFits(AnyFixed, AxisOf(m.inputs, "mask", 2))
    <3>1. FeatureHolds(F("mask", "f32", <<E(EmbedSlots), AnyFixed>>), m.inputs)
      BY <1>4 DEF f2
    <3>2. E(EmbedSlots).kind # "range" /\ AnyFixed.kind # "range"
      BY Sizes1, Zenon
    <3>3. QED
      BY <1>3, <3>1, <3>2, Fixed2, Zenon
  <2>2. AxisOf(m.inputs, "mask", 1) = EmbedSlots /\ AxisOf(m.inputs, "mask", 2) \in Nat \ {0}
    BY <2>1, Sizes1
  <2>3. QED
    BY <2>1, <2>2, Zenon DEF InputDim
<1>7. /\ FeatureIs(m.outputs, "embedding", "f32", <<EmbedSlots, SpeakerDim>>)
      /\ AxisOf(m.outputs, "embedding", 1) = EmbedSlots
      /\ AxisOf(m.outputs, "embedding", 2) = SpeakerDim
  <2>1. /\ FeatureIs(m.outputs, "embedding", "f32",
                     <<AxisOf(m.outputs, "embedding", 1), AxisOf(m.outputs, "embedding", 2)>>)
        /\ AxisOf(m.outputs, "embedding", 1) \in Nat
        /\ SizeFits(E(EmbedSlots), AxisOf(m.outputs, "embedding", 1))
        /\ AxisOf(m.outputs, "embedding", 2) \in Nat
        /\ SizeFits(E(SpeakerDim), AxisOf(m.outputs, "embedding", 2))
    <3>1. FeatureHolds(F("embedding", "f32", <<E(EmbedSlots), E(SpeakerDim)>>), m.outputs)
      BY <1>4 DEF g1
    <3>2. E(EmbedSlots).kind # "range" /\ E(SpeakerDim).kind # "range"
      BY Sizes1, Zenon
    <3>3. QED
      BY <1>3, <3>1, <3>2, Fixed2, Zenon
  <2>2. /\ AxisOf(m.outputs, "embedding", 1) = EmbedSlots
        /\ AxisOf(m.outputs, "embedding", 2) = SpeakerDim
    BY <2>1, Sizes1
  <2>3. QED
    BY <2>1, <2>2, Zenon DEF OutputDim
<1>8. Runs(m, sent)
  <2>1. /\ DOMAIN sent = {"waveform", "mask"}
        /\ sent["waveform"].type = "f32" /\ sent["waveform"].shape = <<EmbedSlots, SegmentSamples>>
        /\ sent["mask"].type = "f32" /\ sent["mask"].shape = <<EmbedSlots, InputDim(m, "mask", 2)>>
    BY DEF Tensor
  <2> HIDE DEF sent
  <2>2. QED
    BY <1>4, <1>5, <1>6, <2>1, Zenon DEF Runs, Takes, Admits, FeatureIs
<1>9. Gives(m, wanted)
  <2>1. /\ DOMAIN wanted = {"embedding"}
        /\ wanted["embedding"].type = "f32"
        /\ wanted["embedding"].shape = <<EmbedSlots, SpeakerDim>>
    BY DEF Tensor
  <2> HIDE DEF wanted
  <2>2. "f32" # "none"
    OBVIOUS
  <2>3. QED
    BY <1>4, <1>7, <2>1, <2>2, Zenon DEF Gives
<1>10. QED
  BY <1>5, <1>6, <1>7, <1>8, <1>9, Zenon DEF InputDim, OutputDim

LEMMA AlignAnswers ==
  ASSUME NEW m, Described(m), CheckLoadContract(m, AlignContract) = "ok"
  PROVE  /\ Runs(m, [waveform |-> Tensor("f32", <<1, InputDim(m, "waveform", 2)>>)])
         /\ Gives(m,
                  [emissions |-> Tensor("f32",
                                        <<1, OutputDim(m, "emissions", 2),
                                          OutputDim(m, "emissions", 3)>>)])
         /\ InputDim(m, "waveform", 2) \in Nat /\ InputDim(m, "waveform", 2) >= Receptive
         /\ OutputDim(m, "emissions", 2) \in Nat \ {0}
         /\ OutputDim(m, "emissions", 3) \in Nat \ {0}
<1> DEFINE f1 == F("waveform", "f32", <<E(1), AtLeast(Receptive)>>)
           g1 == F("emissions", "f32", <<E(1), AnyFixed, AnyFixed>>)
           sent == [waveform |-> Tensor("f32", <<1, InputDim(m, "waveform", 2)>>)]
           wanted == [emissions |-> Tensor("f32",
                                           <<1, OutputDim(m, "emissions", 2),
                                             OutputDim(m, "emissions", 3)>>)]
<1>1. CheckLoadContract(m, Contract(<<f1>>, <<g1>>)) = "ok"
  BY DEF AlignContract
<1>2. f1.name = "waveform" /\ g1.name = "emissions"
  BY DEF F, FeatureContract
<1>3. /\ \A n \in DOMAIN m.inputs : DescribedFeature(m.inputs[n])
      /\ \A n \in DOMAIN m.outputs : DescribedFeature(m.outputs[n])
  BY Zenon DEF Described
<1> HIDE DEF f1, g1
<1>4. /\ m.states = {}
      /\ \A n \in DOMAIN m.inputs : m.inputs[n].optional \/ n \in {"waveform"}
      /\ FeatureHolds(f1, m.inputs) /\ FeatureHolds(g1, m.outputs)
      /\ ~m.outputs["emissions"].optional
  <2>1. /\ m.states = {}
        /\ \A n \in DOMAIN m.inputs : m.inputs[n].optional \/ n \in {f1.name}
        /\ FeatureHolds(f1, m.inputs) /\ FeatureHolds(g1, m.outputs)
        /\ ~m.outputs[g1.name].optional
    BY <1>1, Clauses11
  <2>2. QED
    BY <1>2, <2>1, Zenon
<1>5. /\ FeatureIs(m.inputs, "waveform", "f32", <<1, InputDim(m, "waveform", 2)>>)
      /\ AxisOf(m.inputs, "waveform", 1) = 1 /\ AxisOf(m.inputs, "waveform", 2) \in Nat
      /\ AxisOf(m.inputs, "waveform", 2) >= Receptive
  <2>1. /\ FeatureIs(m.inputs, "waveform", "f32",
                     <<AxisOf(m.inputs, "waveform", 1), AxisOf(m.inputs, "waveform", 2)>>)
        /\ AxisOf(m.inputs, "waveform", 1) \in Nat
        /\ SizeFits(E(1), AxisOf(m.inputs, "waveform", 1))
        /\ AxisOf(m.inputs, "waveform", 2) \in Nat
        /\ SizeFits(AtLeast(Receptive), AxisOf(m.inputs, "waveform", 2))
    <3>1. FeatureHolds(F("waveform", "f32", <<E(1), AtLeast(Receptive)>>), m.inputs)
      BY <1>4 DEF f1
    <3>2. E(1).kind # "range" /\ AtLeast(Receptive).kind # "range"
      BY Sizes1, Zenon
    <3>3. QED
      BY <1>3, <3>1, <3>2, Fixed2, Zenon
  <2>2. /\ AxisOf(m.inputs, "waveform", 1) = 1 /\ AxisOf(m.inputs, "waveform", 2) \in Nat
        /\ AxisOf(m.inputs, "waveform", 2) >= Receptive
    BY <2>1, Sizes1
  <2>3. QED
    BY <2>1, <2>2, Zenon DEF InputDim
<1>6. /\ FeatureIs(m.outputs, "emissions", "f32",
                   <<1, OutputDim(m, "emissions", 2), OutputDim(m, "emissions", 3)>>)
      /\ AxisOf(m.outputs, "emissions", 1) = 1 /\ AxisOf(m.outputs, "emissions", 2) \in Nat \ {0}
      /\ AxisOf(m.outputs, "emissions", 3) \in Nat \ {0}
  <2>1. /\ FeatureIs(m.outputs, "emissions", "f32",
                     <<AxisOf(m.outputs, "emissions", 1), AxisOf(m.outputs, "emissions", 2),
                       AxisOf(m.outputs, "emissions", 3)>>)
        /\ AxisOf(m.outputs, "emissions", 1) \in Nat
        /\ SizeFits(E(1), AxisOf(m.outputs, "emissions", 1))
        /\ AxisOf(m.outputs, "emissions", 2) \in Nat
        /\ SizeFits(AnyFixed, AxisOf(m.outputs, "emissions", 2))
        /\ AxisOf(m.outputs, "emissions", 3) \in Nat
        /\ SizeFits(AnyFixed, AxisOf(m.outputs, "emissions", 3))
    <3>1. FeatureHolds(F("emissions", "f32", <<E(1), AnyFixed, AnyFixed>>), m.outputs)
      BY <1>4 DEF g1
    <3>2. E(1).kind # "range" /\ AnyFixed.kind # "range" /\ AnyFixed.kind # "range"
      BY Sizes1, Zenon
    <3>3. QED
      BY <1>3, <3>1, <3>2, Fixed3, Zenon
  <2>2. /\ AxisOf(m.outputs, "emissions", 1) = 1 /\ AxisOf(m.outputs, "emissions", 2) \in Nat \ {0}
        /\ AxisOf(m.outputs, "emissions", 3) \in Nat \ {0}
    BY <2>1, Sizes1
  <2>3. QED
    BY <2>1, <2>2, Zenon DEF OutputDim
<1>7. Runs(m, sent)
  <2>1. /\ DOMAIN sent = {"waveform"}
        /\ sent["waveform"].type = "f32"
        /\ sent["waveform"].shape = <<1, InputDim(m, "waveform", 2)>>
    BY DEF Tensor
  <2> HIDE DEF sent
  <2>2. QED
    BY <1>4, <1>5, <2>1, Zenon DEF Runs, Takes, Admits, FeatureIs
<1>8. Gives(m, wanted)
  <2>1. /\ DOMAIN wanted = {"emissions"}
        /\ wanted["emissions"].type = "f32"
        /\ wanted["emissions"].shape = <<1, OutputDim(m, "emissions", 2),
                                         OutputDim(m, "emissions", 3)>>
    BY DEF Tensor
  <2> HIDE DEF wanted
  <2>2. "f32" # "none"
    OBVIOUS
  <2>3. QED
    BY <1>4, <1>6, <2>1, <2>2, Zenon DEF Gives
<1>9. QED
  BY <1>5, <1>6, <1>7, <1>8, Zenon DEF InputDim, OutputDim

LEMMA ClapAudioAnswers ==
  ASSUME NEW m, Described(m), CheckLoadContract(m, ClapAudioContract) = "ok"
  PROVE  /\ Runs(m, [input_features |-> Tensor("f32", <<1, 1, ClapFrames, ClapMels>>)])
         /\ Gives(m, [audio_embeds |-> Tensor("f32", <<1, ClapDim>>)])
<1> DEFINE f1 == F("input_features", "f32", <<E(1), E(1), E(ClapFrames), E(ClapMels)>>)
           g1 == F("audio_embeds", "f32", <<E(1), E(ClapDim)>>)
           sent == [input_features |-> Tensor("f32", <<1, 1, ClapFrames, ClapMels>>)]
           wanted == [audio_embeds |-> Tensor("f32", <<1, ClapDim>>)]
<1>1. CheckLoadContract(m, Contract(<<f1>>, <<g1>>)) = "ok"
  BY DEF ClapAudioContract
<1>2. f1.name = "input_features" /\ g1.name = "audio_embeds"
  BY DEF F, FeatureContract
<1>3. /\ \A n \in DOMAIN m.inputs : DescribedFeature(m.inputs[n])
      /\ \A n \in DOMAIN m.outputs : DescribedFeature(m.outputs[n])
  BY Zenon DEF Described
<1> HIDE DEF f1, g1
<1>4. /\ m.states = {}
      /\ \A n \in DOMAIN m.inputs : m.inputs[n].optional \/ n \in {"input_features"}
      /\ FeatureHolds(f1, m.inputs) /\ FeatureHolds(g1, m.outputs)
      /\ ~m.outputs["audio_embeds"].optional
  <2>1. /\ m.states = {}
        /\ \A n \in DOMAIN m.inputs : m.inputs[n].optional \/ n \in {f1.name}
        /\ FeatureHolds(f1, m.inputs) /\ FeatureHolds(g1, m.outputs)
        /\ ~m.outputs[g1.name].optional
    BY <1>1, Clauses11
  <2>2. QED
    BY <1>2, <2>1, Zenon
<1>5. /\ FeatureIs(m.inputs, "input_features", "f32", <<1, 1, ClapFrames, ClapMels>>)
      /\ AxisOf(m.inputs, "input_features", 1) = 1 /\ AxisOf(m.inputs, "input_features", 2) = 1
      /\ AxisOf(m.inputs, "input_features", 3) = ClapFrames
      /\ AxisOf(m.inputs, "input_features", 4) = ClapMels
  <2>1. /\ FeatureIs(m.inputs, "input_features", "f32",
                     <<AxisOf(m.inputs, "input_features", 1), AxisOf(m.inputs, "input_features", 2),
                       AxisOf(m.inputs, "input_features", 3), AxisOf(m.inputs, "input_features",
                                                                     4)>>)
        /\ AxisOf(m.inputs, "input_features", 1) \in Nat
        /\ SizeFits(E(1), AxisOf(m.inputs, "input_features", 1))
        /\ AxisOf(m.inputs, "input_features", 2) \in Nat
        /\ SizeFits(E(1), AxisOf(m.inputs, "input_features", 2))
        /\ AxisOf(m.inputs, "input_features", 3) \in Nat
        /\ SizeFits(E(ClapFrames), AxisOf(m.inputs, "input_features", 3))
        /\ AxisOf(m.inputs, "input_features", 4) \in Nat
        /\ SizeFits(E(ClapMels), AxisOf(m.inputs, "input_features", 4))
    <3>1. FeatureHolds(F("input_features", "f32", <<E(1), E(1), E(ClapFrames), E(ClapMels)>>),
                       m.inputs)
      BY <1>4 DEF f1
    <3>2. /\ E(1).kind # "range" /\ E(1).kind # "range" /\ E(ClapFrames).kind # "range"
          /\ E(ClapMels).kind # "range"
      BY Sizes1, Zenon
    <3>3. QED
      BY <1>3, <3>1, <3>2, Fixed4, Zenon
  <2>2. /\ AxisOf(m.inputs, "input_features", 1) = 1 /\ AxisOf(m.inputs, "input_features", 2) = 1
        /\ AxisOf(m.inputs, "input_features", 3) = ClapFrames
        /\ AxisOf(m.inputs, "input_features", 4) = ClapMels
    BY <2>1, Sizes1
  <2>3. QED
    BY <2>1, <2>2, Zenon DEF InputDim
<1>6. /\ FeatureIs(m.outputs, "audio_embeds", "f32", <<1, ClapDim>>)
      /\ AxisOf(m.outputs, "audio_embeds", 1) = 1 /\ AxisOf(m.outputs, "audio_embeds", 2) = ClapDim
  <2>1. /\ FeatureIs(m.outputs, "audio_embeds", "f32",
                     <<AxisOf(m.outputs, "audio_embeds", 1), AxisOf(m.outputs, "audio_embeds", 2)>>)
        /\ AxisOf(m.outputs, "audio_embeds", 1) \in Nat
        /\ SizeFits(E(1), AxisOf(m.outputs, "audio_embeds", 1))
        /\ AxisOf(m.outputs, "audio_embeds", 2) \in Nat
        /\ SizeFits(E(ClapDim), AxisOf(m.outputs, "audio_embeds", 2))
    <3>1. FeatureHolds(F("audio_embeds", "f32", <<E(1), E(ClapDim)>>), m.outputs)
      BY <1>4 DEF g1
    <3>2. E(1).kind # "range" /\ E(ClapDim).kind # "range"
      BY Sizes1, Zenon
    <3>3. QED
      BY <1>3, <3>1, <3>2, Fixed2, Zenon
  <2>2. AxisOf(m.outputs, "audio_embeds", 1) = 1 /\ AxisOf(m.outputs, "audio_embeds", 2) = ClapDim
    BY <2>1, Sizes1
  <2>3. QED
    BY <2>1, <2>2, Zenon DEF OutputDim
<1>7. Runs(m, sent)
  <2>1. /\ DOMAIN sent = {"input_features"}
        /\ sent["input_features"].type = "f32"
        /\ sent["input_features"].shape = <<1, 1, ClapFrames, ClapMels>>
    BY DEF Tensor
  <2> HIDE DEF sent
  <2>2. QED
    BY <1>4, <1>5, <2>1, Zenon DEF Runs, Takes, Admits, FeatureIs
<1>8. Gives(m, wanted)
  <2>1. /\ DOMAIN wanted = {"audio_embeds"}
        /\ wanted["audio_embeds"].type = "f32" /\ wanted["audio_embeds"].shape = <<1, ClapDim>>
    BY DEF Tensor
  <2> HIDE DEF wanted
  <2>2. "f32" # "none"
    OBVIOUS
  <2>3. QED
    BY <1>4, <1>6, <2>1, <2>2, Zenon DEF Gives
<1>9. QED
  BY <1>5, <1>6, <1>7, <1>8, Zenon DEF InputDim, OutputDim

LEMMA ClapTextAnswers ==
  ASSUME NEW m, Described(m), CheckLoadContract(m, ClapTextContract) = "ok"
  PROVE  /\ Runs(m, [input_ids |-> Tensor("i32", <<1, TextMaxTokens>>),
                 attention_mask |-> Tensor("i32", <<1, TextMaxTokens>>)])
         /\ Gives(m, [text_embeds |-> Tensor("f32", <<1, ClapDim>>)])
<1> DEFINE f1 == F("input_ids", "i32", <<E(1), E(TextMaxTokens)>>)
           f2 == F("attention_mask", "i32", <<E(1), E(TextMaxTokens)>>)
           g1 == F("text_embeds", "f32", <<E(1), E(ClapDim)>>)
           sent == [input_ids |-> Tensor("i32", <<1, TextMaxTokens>>),
                 attention_mask |-> Tensor("i32", <<1, TextMaxTokens>>)]
           wanted == [text_embeds |-> Tensor("f32", <<1, ClapDim>>)]
<1>1. CheckLoadContract(m, Contract(<<f1, f2>>, <<g1>>)) = "ok"
  BY DEF ClapTextContract
<1>2. f1.name = "input_ids" /\ f2.name = "attention_mask" /\ g1.name = "text_embeds"
  BY DEF F, FeatureContract
<1>3. /\ \A n \in DOMAIN m.inputs : DescribedFeature(m.inputs[n])
      /\ \A n \in DOMAIN m.outputs : DescribedFeature(m.outputs[n])
  BY Zenon DEF Described
<1> HIDE DEF f1, f2, g1
<1>4. /\ m.states = {}
      /\ \A n \in DOMAIN m.inputs : m.inputs[n].optional \/ n \in {"input_ids", "attention_mask"}
      /\ FeatureHolds(f1, m.inputs) /\ FeatureHolds(f2, m.inputs) /\ FeatureHolds(g1, m.outputs)
      /\ ~m.outputs["text_embeds"].optional
  <2>1. /\ m.states = {}
        /\ \A n \in DOMAIN m.inputs : m.inputs[n].optional \/ n \in {f1.name, f2.name}
        /\ FeatureHolds(f1, m.inputs) /\ FeatureHolds(f2, m.inputs) /\ FeatureHolds(g1, m.outputs)
        /\ ~m.outputs[g1.name].optional
    BY <1>1, Clauses21
  <2>2. QED
    BY <1>2, <2>1, Zenon
<1>5. /\ FeatureIs(m.inputs, "input_ids", "i32", <<1, TextMaxTokens>>)
      /\ AxisOf(m.inputs, "input_ids", 1) = 1 /\ AxisOf(m.inputs, "input_ids", 2) = TextMaxTokens
  <2>1. /\ FeatureIs(m.inputs, "input_ids", "i32",
                     <<AxisOf(m.inputs, "input_ids", 1), AxisOf(m.inputs, "input_ids", 2)>>)
        /\ AxisOf(m.inputs, "input_ids", 1) \in Nat
        /\ SizeFits(E(1), AxisOf(m.inputs, "input_ids", 1))
        /\ AxisOf(m.inputs, "input_ids", 2) \in Nat
        /\ SizeFits(E(TextMaxTokens), AxisOf(m.inputs, "input_ids", 2))
    <3>1. FeatureHolds(F("input_ids", "i32", <<E(1), E(TextMaxTokens)>>), m.inputs)
      BY <1>4 DEF f1
    <3>2. E(1).kind # "range" /\ E(TextMaxTokens).kind # "range"
      BY Sizes1, Zenon
    <3>3. QED
      BY <1>3, <3>1, <3>2, Fixed2, Zenon
  <2>2. AxisOf(m.inputs, "input_ids", 1) = 1 /\ AxisOf(m.inputs, "input_ids", 2) = TextMaxTokens
    BY <2>1, Sizes1
  <2>3. QED
    BY <2>1, <2>2, Zenon DEF InputDim
<1>6. /\ FeatureIs(m.inputs, "attention_mask", "i32", <<1, TextMaxTokens>>)
      /\ AxisOf(m.inputs, "attention_mask", 1) = 1
      /\ AxisOf(m.inputs, "attention_mask", 2) = TextMaxTokens
  <2>1. /\ FeatureIs(m.inputs, "attention_mask", "i32",
                     <<AxisOf(m.inputs, "attention_mask", 1),
                       AxisOf(m.inputs, "attention_mask", 2)>>)
        /\ AxisOf(m.inputs, "attention_mask", 1) \in Nat
        /\ SizeFits(E(1), AxisOf(m.inputs, "attention_mask", 1))
        /\ AxisOf(m.inputs, "attention_mask", 2) \in Nat
        /\ SizeFits(E(TextMaxTokens), AxisOf(m.inputs, "attention_mask", 2))
    <3>1. FeatureHolds(F("attention_mask", "i32", <<E(1), E(TextMaxTokens)>>), m.inputs)
      BY <1>4 DEF f2
    <3>2. E(1).kind # "range" /\ E(TextMaxTokens).kind # "range"
      BY Sizes1, Zenon
    <3>3. QED
      BY <1>3, <3>1, <3>2, Fixed2, Zenon
  <2>2. /\ AxisOf(m.inputs, "attention_mask", 1) = 1
        /\ AxisOf(m.inputs, "attention_mask", 2) = TextMaxTokens
    BY <2>1, Sizes1
  <2>3. QED
    BY <2>1, <2>2, Zenon DEF InputDim
<1>7. /\ FeatureIs(m.outputs, "text_embeds", "f32", <<1, ClapDim>>)
      /\ AxisOf(m.outputs, "text_embeds", 1) = 1 /\ AxisOf(m.outputs, "text_embeds", 2) = ClapDim
  <2>1. /\ FeatureIs(m.outputs, "text_embeds", "f32",
                     <<AxisOf(m.outputs, "text_embeds", 1), AxisOf(m.outputs, "text_embeds", 2)>>)
        /\ AxisOf(m.outputs, "text_embeds", 1) \in Nat
        /\ SizeFits(E(1), AxisOf(m.outputs, "text_embeds", 1))
        /\ AxisOf(m.outputs, "text_embeds", 2) \in Nat
        /\ SizeFits(E(ClapDim), AxisOf(m.outputs, "text_embeds", 2))
    <3>1. FeatureHolds(F("text_embeds", "f32", <<E(1), E(ClapDim)>>), m.outputs)
      BY <1>4 DEF g1
    <3>2. E(1).kind # "range" /\ E(ClapDim).kind # "range"
      BY Sizes1, Zenon
    <3>3. QED
      BY <1>3, <3>1, <3>2, Fixed2, Zenon
  <2>2. AxisOf(m.outputs, "text_embeds", 1) = 1 /\ AxisOf(m.outputs, "text_embeds", 2) = ClapDim
    BY <2>1, Sizes1
  <2>3. QED
    BY <2>1, <2>2, Zenon DEF OutputDim
<1>8. Runs(m, sent)
  <2>1. /\ DOMAIN sent = {"input_ids", "attention_mask"}
        /\ sent["input_ids"].type = "i32" /\ sent["input_ids"].shape = <<1, TextMaxTokens>>
        /\ sent["attention_mask"].type = "i32"
        /\ sent["attention_mask"].shape = <<1, TextMaxTokens>>
    BY DEF Tensor
  <2> HIDE DEF sent
  <2>2. QED
    BY <1>4, <1>5, <1>6, <2>1, Zenon DEF Runs, Takes, Admits, FeatureIs
<1>9. Gives(m, wanted)
  <2>1. /\ DOMAIN wanted = {"text_embeds"}
        /\ wanted["text_embeds"].type = "f32" /\ wanted["text_embeds"].shape = <<1, ClapDim>>
    BY DEF Tensor
  <2> HIDE DEF wanted
  <2>2. "f32" # "none"
    OBVIOUS
  <2>3. QED
    BY <1>4, <1>7, <2>1, <2>2, Zenon DEF Gives
<1>10. QED
  BY <1>5, <1>6, <1>7, <1>8, <1>9, Zenon DEF InputDim, OutputDim

LEMMA SiglipImageAnswers ==
  ASSUME NEW m, Described(m), NEW d, CheckLoadContract(m, SiglipImageContract(d)) = "ok"
  PROVE  /\ Runs(m,
                 [pixel_values |-> Tensor("f32", <<1, InputDim(m, "pixel_values", 2), PatchDim>>),
                 position_embeddings |-> Tensor("f32", <<1, d["P"], PatchDim>>),
                 attention_mask |-> Tensor("f32", <<1, d["P"]>>)])
         /\ Gives(m, [image_features |-> Tensor("f32", <<1, SiglipDim>>)])
         /\ InputDim(m, "pixel_values", 2) \in Nat \ {0}
<1> DEFINE f1 == F("pixel_values", "f32", <<E(1), AnyFixed, E(PatchDim)>>)
           f2 == F("position_embeddings", "f32", <<E(1), E(d["P"]), E(PatchDim)>>)
           f3 == F("attention_mask", "f32", <<E(1), E(d["P"])>>)
           g1 == F("image_features", "f32", <<E(1), E(SiglipDim)>>)
           sent == [pixel_values |-> Tensor("f32", <<1, InputDim(m, "pixel_values", 2), PatchDim>>),
                 position_embeddings |-> Tensor("f32", <<1, d["P"], PatchDim>>),
                 attention_mask |-> Tensor("f32", <<1, d["P"]>>)]
           wanted == [image_features |-> Tensor("f32", <<1, SiglipDim>>)]
<1>1. CheckLoadContract(m, Contract(<<f1, f2, f3>>, <<g1>>)) = "ok"
  BY DEF SiglipImageContract
<1>2. /\ f1.name = "pixel_values" /\ f2.name = "position_embeddings" /\ f3.name = "attention_mask"
      /\ g1.name = "image_features"
  BY DEF F, FeatureContract
<1>3. /\ \A n \in DOMAIN m.inputs : DescribedFeature(m.inputs[n])
      /\ \A n \in DOMAIN m.outputs : DescribedFeature(m.outputs[n])
  BY Zenon DEF Described
<1> HIDE DEF f1, f2, f3, g1
<1>4. /\ m.states = {}
      /\ \A n \in DOMAIN m.inputs : m.inputs[n].optional \/ n \in {"pixel_values",
                                                                   "position_embeddings", "attention_mask"}
      /\ FeatureHolds(f1, m.inputs) /\ FeatureHolds(f2, m.inputs) /\ FeatureHolds(f3, m.inputs)
      /\ FeatureHolds(g1, m.outputs)
      /\ ~m.outputs["image_features"].optional
  <2>1. /\ m.states = {}
        /\ \A n \in DOMAIN m.inputs : m.inputs[n].optional \/ n \in {f1.name, f2.name, f3.name}
        /\ FeatureHolds(f1, m.inputs) /\ FeatureHolds(f2, m.inputs) /\ FeatureHolds(f3, m.inputs)
        /\ FeatureHolds(g1, m.outputs)
        /\ ~m.outputs[g1.name].optional
    BY <1>1, Clauses31
  <2>2. QED
    BY <1>2, <2>1, Zenon
<1>5. /\ FeatureIs(m.inputs, "pixel_values", "f32", <<1, InputDim(m, "pixel_values", 2), PatchDim>>)
      /\ AxisOf(m.inputs, "pixel_values", 1) = 1
      /\ AxisOf(m.inputs, "pixel_values", 2) \in Nat \ {0}
      /\ AxisOf(m.inputs, "pixel_values", 3) = PatchDim
  <2>1. /\ FeatureIs(m.inputs, "pixel_values", "f32",
                     <<AxisOf(m.inputs, "pixel_values", 1), AxisOf(m.inputs, "pixel_values", 2),
                       AxisOf(m.inputs, "pixel_values", 3)>>)
        /\ AxisOf(m.inputs, "pixel_values", 1) \in Nat
        /\ SizeFits(E(1), AxisOf(m.inputs, "pixel_values", 1))
        /\ AxisOf(m.inputs, "pixel_values", 2) \in Nat
        /\ SizeFits(AnyFixed, AxisOf(m.inputs, "pixel_values", 2))
        /\ AxisOf(m.inputs, "pixel_values", 3) \in Nat
        /\ SizeFits(E(PatchDim), AxisOf(m.inputs, "pixel_values", 3))
    <3>1. FeatureHolds(F("pixel_values", "f32", <<E(1), AnyFixed, E(PatchDim)>>), m.inputs)
      BY <1>4 DEF f1
    <3>2. E(1).kind # "range" /\ AnyFixed.kind # "range" /\ E(PatchDim).kind # "range"
      BY Sizes1, Zenon
    <3>3. QED
      BY <1>3, <3>1, <3>2, Fixed3, Zenon
  <2>2. /\ AxisOf(m.inputs, "pixel_values", 1) = 1
        /\ AxisOf(m.inputs, "pixel_values", 2) \in Nat \ {0}
        /\ AxisOf(m.inputs, "pixel_values", 3) = PatchDim
    BY <2>1, Sizes1
  <2>3. QED
    BY <2>1, <2>2, Zenon DEF InputDim
<1>6. /\ FeatureIs(m.inputs, "position_embeddings", "f32", <<1, d["P"], PatchDim>>)
      /\ AxisOf(m.inputs, "position_embeddings", 1) = 1
      /\ AxisOf(m.inputs, "position_embeddings", 2) = d["P"]
      /\ AxisOf(m.inputs, "position_embeddings", 3) = PatchDim
  <2>1. /\ FeatureIs(m.inputs, "position_embeddings", "f32",
                     <<AxisOf(m.inputs, "position_embeddings", 1),
                       AxisOf(m.inputs, "position_embeddings", 2), AxisOf(m.inputs,
                                                                          "position_embeddings", 3)>>)
        /\ AxisOf(m.inputs, "position_embeddings", 1) \in Nat
        /\ SizeFits(E(1), AxisOf(m.inputs, "position_embeddings", 1))
        /\ AxisOf(m.inputs, "position_embeddings", 2) \in Nat
        /\ SizeFits(E(d["P"]), AxisOf(m.inputs, "position_embeddings", 2))
        /\ AxisOf(m.inputs, "position_embeddings", 3) \in Nat
        /\ SizeFits(E(PatchDim), AxisOf(m.inputs, "position_embeddings", 3))
    <3>1. FeatureHolds(F("position_embeddings", "f32", <<E(1), E(d["P"]), E(PatchDim)>>), m.inputs)
      BY <1>4 DEF f2
    <3>2. E(1).kind # "range" /\ E(d["P"]).kind # "range" /\ E(PatchDim).kind # "range"
      BY Sizes1, Zenon
    <3>3. QED
      BY <1>3, <3>1, <3>2, Fixed3, Zenon
  <2>2. /\ AxisOf(m.inputs, "position_embeddings", 1) = 1
        /\ AxisOf(m.inputs, "position_embeddings", 2) = d["P"]
        /\ AxisOf(m.inputs, "position_embeddings", 3) = PatchDim
    BY <2>1, Sizes1
  <2>3. QED
    BY <2>1, <2>2, Zenon DEF InputDim
<1>7. /\ FeatureIs(m.inputs, "attention_mask", "f32", <<1, d["P"]>>)
      /\ AxisOf(m.inputs, "attention_mask", 1) = 1 /\ AxisOf(m.inputs, "attention_mask", 2) = d["P"]
  <2>1. /\ FeatureIs(m.inputs, "attention_mask", "f32",
                     <<AxisOf(m.inputs, "attention_mask", 1),
                       AxisOf(m.inputs, "attention_mask", 2)>>)
        /\ AxisOf(m.inputs, "attention_mask", 1) \in Nat
        /\ SizeFits(E(1), AxisOf(m.inputs, "attention_mask", 1))
        /\ AxisOf(m.inputs, "attention_mask", 2) \in Nat
        /\ SizeFits(E(d["P"]), AxisOf(m.inputs, "attention_mask", 2))
    <3>1. FeatureHolds(F("attention_mask", "f32", <<E(1), E(d["P"])>>), m.inputs)
      BY <1>4 DEF f3
    <3>2. E(1).kind # "range" /\ E(d["P"]).kind # "range"
      BY Sizes1, Zenon
    <3>3. QED
      BY <1>3, <3>1, <3>2, Fixed2, Zenon
  <2>2. AxisOf(m.inputs, "attention_mask", 1) = 1 /\ AxisOf(m.inputs, "attention_mask", 2) = d["P"]
    BY <2>1, Sizes1
  <2>3. QED
    BY <2>1, <2>2, Zenon DEF InputDim
<1>8. /\ FeatureIs(m.outputs, "image_features", "f32", <<1, SiglipDim>>)
      /\ AxisOf(m.outputs, "image_features", 1) = 1
      /\ AxisOf(m.outputs, "image_features", 2) = SiglipDim
  <2>1. /\ FeatureIs(m.outputs, "image_features", "f32",
                     <<AxisOf(m.outputs, "image_features", 1),
                       AxisOf(m.outputs, "image_features", 2)>>)
        /\ AxisOf(m.outputs, "image_features", 1) \in Nat
        /\ SizeFits(E(1), AxisOf(m.outputs, "image_features", 1))
        /\ AxisOf(m.outputs, "image_features", 2) \in Nat
        /\ SizeFits(E(SiglipDim), AxisOf(m.outputs, "image_features", 2))
    <3>1. FeatureHolds(F("image_features", "f32", <<E(1), E(SiglipDim)>>), m.outputs)
      BY <1>4 DEF g1
    <3>2. E(1).kind # "range" /\ E(SiglipDim).kind # "range"
      BY Sizes1, Zenon
    <3>3. QED
      BY <1>3, <3>1, <3>2, Fixed2, Zenon
  <2>2. /\ AxisOf(m.outputs, "image_features", 1) = 1
        /\ AxisOf(m.outputs, "image_features", 2) = SiglipDim
    BY <2>1, Sizes1
  <2>3. QED
    BY <2>1, <2>2, Zenon DEF OutputDim
<1>9. Runs(m, sent)
  <2>1. /\ DOMAIN sent = {"pixel_values", "position_embeddings", "attention_mask"}
        /\ sent["pixel_values"].type = "f32"
        /\ sent["pixel_values"].shape = <<1, InputDim(m, "pixel_values", 2), PatchDim>>
        /\ sent["position_embeddings"].type = "f32"
        /\ sent["position_embeddings"].shape = <<1, d["P"], PatchDim>>
        /\ sent["attention_mask"].type = "f32" /\ sent["attention_mask"].shape = <<1, d["P"]>>
    BY DEF Tensor
  <2> HIDE DEF sent
  <2>2. QED
    BY <1>4, <1>5, <1>6, <1>7, <2>1, Zenon DEF Runs, Takes, Admits, FeatureIs
<1>10. Gives(m, wanted)
  <2>1. /\ DOMAIN wanted = {"image_features"}
        /\ wanted["image_features"].type = "f32"
        /\ wanted["image_features"].shape = <<1, SiglipDim>>
    BY DEF Tensor
  <2> HIDE DEF wanted
  <2>2. "f32" # "none"
    OBVIOUS
  <2>3. QED
    BY <1>4, <1>8, <2>1, <2>2, Zenon DEF Gives
<1>11. QED
  BY <1>5, <1>6, <1>7, <1>8, <1>9, <1>10, Zenon DEF InputDim, OutputDim

LEMMA SiglipTextAnswers ==
  ASSUME NEW m, Described(m), CheckLoadContract(m, SiglipTextContract) = "ok"
  PROVE  /\ Runs(m, [input_ids |-> Tensor("i32", <<1, InputDim(m, "input_ids", 2)>>)])
         /\ Gives(m, [text_features |-> Tensor("f32", <<1, SiglipDim>>)])
         /\ InputDim(m, "input_ids", 2) \in Nat \ {0}
<1> DEFINE f1 == F("input_ids", "i32", <<E(1), AnyFixed>>)
           g1 == F("text_features", "f32", <<E(1), E(SiglipDim)>>)
           sent == [input_ids |-> Tensor("i32", <<1, InputDim(m, "input_ids", 2)>>)]
           wanted == [text_features |-> Tensor("f32", <<1, SiglipDim>>)]
<1>1. CheckLoadContract(m, Contract(<<f1>>, <<g1>>)) = "ok"
  BY DEF SiglipTextContract
<1>2. f1.name = "input_ids" /\ g1.name = "text_features"
  BY DEF F, FeatureContract
<1>3. /\ \A n \in DOMAIN m.inputs : DescribedFeature(m.inputs[n])
      /\ \A n \in DOMAIN m.outputs : DescribedFeature(m.outputs[n])
  BY Zenon DEF Described
<1> HIDE DEF f1, g1
<1>4. /\ m.states = {}
      /\ \A n \in DOMAIN m.inputs : m.inputs[n].optional \/ n \in {"input_ids"}
      /\ FeatureHolds(f1, m.inputs) /\ FeatureHolds(g1, m.outputs)
      /\ ~m.outputs["text_features"].optional
  <2>1. /\ m.states = {}
        /\ \A n \in DOMAIN m.inputs : m.inputs[n].optional \/ n \in {f1.name}
        /\ FeatureHolds(f1, m.inputs) /\ FeatureHolds(g1, m.outputs)
        /\ ~m.outputs[g1.name].optional
    BY <1>1, Clauses11
  <2>2. QED
    BY <1>2, <2>1, Zenon
<1>5. /\ FeatureIs(m.inputs, "input_ids", "i32", <<1, InputDim(m, "input_ids", 2)>>)
      /\ AxisOf(m.inputs, "input_ids", 1) = 1 /\ AxisOf(m.inputs, "input_ids", 2) \in Nat \ {0}
  <2>1. /\ FeatureIs(m.inputs, "input_ids", "i32",
                     <<AxisOf(m.inputs, "input_ids", 1), AxisOf(m.inputs, "input_ids", 2)>>)
        /\ AxisOf(m.inputs, "input_ids", 1) \in Nat
        /\ SizeFits(E(1), AxisOf(m.inputs, "input_ids", 1))
        /\ AxisOf(m.inputs, "input_ids", 2) \in Nat
        /\ SizeFits(AnyFixed, AxisOf(m.inputs, "input_ids", 2))
    <3>1. FeatureHolds(F("input_ids", "i32", <<E(1), AnyFixed>>), m.inputs)
      BY <1>4 DEF f1
    <3>2. E(1).kind # "range" /\ AnyFixed.kind # "range"
      BY Sizes1, Zenon
    <3>3. QED
      BY <1>3, <3>1, <3>2, Fixed2, Zenon
  <2>2. AxisOf(m.inputs, "input_ids", 1) = 1 /\ AxisOf(m.inputs, "input_ids", 2) \in Nat \ {0}
    BY <2>1, Sizes1
  <2>3. QED
    BY <2>1, <2>2, Zenon DEF InputDim
<1>6. /\ FeatureIs(m.outputs, "text_features", "f32", <<1, SiglipDim>>)
      /\ AxisOf(m.outputs, "text_features", 1) = 1
      /\ AxisOf(m.outputs, "text_features", 2) = SiglipDim
  <2>1. /\ FeatureIs(m.outputs, "text_features", "f32",
                     <<AxisOf(m.outputs, "text_features", 1),
                       AxisOf(m.outputs, "text_features", 2)>>)
        /\ AxisOf(m.outputs, "text_features", 1) \in Nat
        /\ SizeFits(E(1), AxisOf(m.outputs, "text_features", 1))
        /\ AxisOf(m.outputs, "text_features", 2) \in Nat
        /\ SizeFits(E(SiglipDim), AxisOf(m.outputs, "text_features", 2))
    <3>1. FeatureHolds(F("text_features", "f32", <<E(1), E(SiglipDim)>>), m.outputs)
      BY <1>4 DEF g1
    <3>2. E(1).kind # "range" /\ E(SiglipDim).kind # "range"
      BY Sizes1, Zenon
    <3>3. QED
      BY <1>3, <3>1, <3>2, Fixed2, Zenon
  <2>2. /\ AxisOf(m.outputs, "text_features", 1) = 1
        /\ AxisOf(m.outputs, "text_features", 2) = SiglipDim
    BY <2>1, Sizes1
  <2>3. QED
    BY <2>1, <2>2, Zenon DEF OutputDim
<1>7. Runs(m, sent)
  <2>1. /\ DOMAIN sent = {"input_ids"}
        /\ sent["input_ids"].type = "i32"
        /\ sent["input_ids"].shape = <<1, InputDim(m, "input_ids", 2)>>
    BY DEF Tensor
  <2> HIDE DEF sent
  <2>2. QED
    BY <1>4, <1>5, <2>1, Zenon DEF Runs, Takes, Admits, FeatureIs
<1>8. Gives(m, wanted)
  <2>1. /\ DOMAIN wanted = {"text_features"}
        /\ wanted["text_features"].type = "f32" /\ wanted["text_features"].shape = <<1, SiglipDim>>
    BY DEF Tensor
  <2> HIDE DEF wanted
  <2>2. "f32" # "none"
    OBVIOUS
  <2>3. QED
    BY <1>4, <1>6, <2>1, <2>2, Zenon DEF Gives
<1>9. QED
  BY <1>5, <1>6, <1>7, <1>8, Zenon DEF InputDim, OutputDim

LEMMA DecoderBareAnswers ==
  ASSUME NEW m, Described(m), NEW d, d["heads"] # 1,
         CheckLoadContract(m, DecoderContract(d)) = "ok"
  PROVE  /\ Runs(m, [input_ids |-> Tensor("i32", <<1>>),
                 cache_length |-> Tensor("i32", <<1>>),
                 key_cache |-> Tensor("f16",
                                      <<1, InputDim(m, "key_cache", 2), 1,
                                        InputDim(m, "key_cache", 4)>>),
                 value_cache |-> Tensor("f16", <<1, d["K"], 1, d["C"]>>),
                 update_mask |-> Tensor("f16", <<1, d["C"]>>),
                 embeds |-> Tensor("f16", <<1, d["E"], 1, d["A"]>>),
                 padding_mask |-> Tensor("f16", <<1, d["C"]>>)])
         /\ Gives(m, [logits |-> Tensor("f16", <<1, 1, Vocab>>),
                  key_updates |-> Tensor("f16", <<1, d["K"], 1, 1>>),
                  value_updates |-> Tensor("f16", <<1, d["K"], 1, 1>>)])
         /\ InputDim(m, "key_cache", 2) \in Nat \ {0}
         /\ InputDim(m, "key_cache", 4) \in Nat /\ InputDim(m, "key_cache", 4) >= MaxTokenContext
<1> DEFINE f1 == F("input_ids", "i32", <<E(1)>>)
           f2 == F("cache_length", "i32", <<E(1)>>)
           f3 == F("key_cache", "f16", <<E(1), AnyFixed, E(1), AtLeast(MaxTokenContext)>>)
           f4 == F("value_cache", "f16", <<E(1), E(d["K"]), E(1), E(d["C"])>>)
           f5 == F("update_mask", "f16", <<E(1), E(d["C"])>>)
           f6 == F("embeds", "f16", <<E(1), E(d["E"]), E(1), E(d["A"])>>)
           f7 == F("padding_mask", "f16", <<E(1), E(d["C"])>>)
           g1 == F("logits", "f16", <<E(1), E(1), E(Vocab)>>)
           g2 == F("key_updates", "f16", <<E(1), E(d["K"]), E(1), E(1)>>)
           g3 == F("value_updates", "f16", <<E(1), E(d["K"]), E(1), E(1)>>)
           sent == [input_ids |-> Tensor("i32", <<1>>),
                 cache_length |-> Tensor("i32", <<1>>),
                 key_cache |-> Tensor("f16",
                                      <<1, InputDim(m, "key_cache", 2), 1,
                                        InputDim(m, "key_cache", 4)>>),
                 value_cache |-> Tensor("f16", <<1, d["K"], 1, d["C"]>>),
                 update_mask |-> Tensor("f16", <<1, d["C"]>>),
                 embeds |-> Tensor("f16", <<1, d["E"], 1, d["A"]>>),
                 padding_mask |-> Tensor("f16", <<1, d["C"]>>)]
           wanted == [logits |-> Tensor("f16", <<1, 1, Vocab>>),
                  key_updates |-> Tensor("f16", <<1, d["K"], 1, 1>>),
                  value_updates |-> Tensor("f16", <<1, d["K"], 1, 1>>)]
<1>1. CheckLoadContract(m, Contract(<<f1, f2, f3, f4, f5, f6, f7>>, <<g1, g2, g3>>)) = "ok"
  <2>1. DecoderContract(d) = Contract(<<f1, f2, f3, f4, f5, f6, f7>>, <<g1, g2, g3>> \o <<>>)
    BY DEF DecoderContract
  <2>2. <<g1, g2, g3>> \o <<>> = <<g1, g2, g3>>
    OBVIOUS
  <2>3. QED
    BY <2>1, <2>2
<1>2. /\ f1.name = "input_ids" /\ f2.name = "cache_length" /\ f3.name = "key_cache"
      /\ f4.name = "value_cache" /\ f5.name = "update_mask" /\ f6.name = "embeds"
      /\ f7.name = "padding_mask" /\ g1.name = "logits" /\ g2.name = "key_updates"
      /\ g3.name = "value_updates"
  BY DEF F, FeatureContract
<1>3. /\ \A n \in DOMAIN m.inputs : DescribedFeature(m.inputs[n])
      /\ \A n \in DOMAIN m.outputs : DescribedFeature(m.outputs[n])
  BY Zenon DEF Described
<1> HIDE DEF f1, f2, f3, f4, f5, f6, f7, g1, g2, g3
<1>4. /\ m.states = {}
      /\ \A n \in DOMAIN m.inputs : m.inputs[n].optional \/ n \in {"input_ids", "cache_length",
                                                                   "key_cache", "value_cache", "update_mask", "embeds", "padding_mask"}
      /\ FeatureHolds(f1, m.inputs) /\ FeatureHolds(f2, m.inputs) /\ FeatureHolds(f3, m.inputs)
      /\ FeatureHolds(f4, m.inputs) /\ FeatureHolds(f5, m.inputs) /\ FeatureHolds(f6, m.inputs)
      /\ FeatureHolds(f7, m.inputs) /\ FeatureHolds(g1, m.outputs) /\ FeatureHolds(g2, m.outputs)
      /\ FeatureHolds(g3, m.outputs)
      /\ ~m.outputs["logits"].optional /\ ~m.outputs["key_updates"].optional
      /\ ~m.outputs["value_updates"].optional
  <2>1. /\ m.states = {}
        /\ \A n \in DOMAIN m.inputs : m.inputs[n].optional \/ n \in {f1.name, f2.name, f3.name,
                                                                     f4.name, f5.name, f6.name, f7.name}
        /\ FeatureHolds(f1, m.inputs) /\ FeatureHolds(f2, m.inputs) /\ FeatureHolds(f3, m.inputs)
        /\ FeatureHolds(f4, m.inputs) /\ FeatureHolds(f5, m.inputs) /\ FeatureHolds(f6, m.inputs)
        /\ FeatureHolds(f7, m.inputs) /\ FeatureHolds(g1, m.outputs) /\ FeatureHolds(g2, m.outputs)
        /\ FeatureHolds(g3, m.outputs)
        /\ ~m.outputs[g1.name].optional /\ ~m.outputs[g2.name].optional
        /\ ~m.outputs[g3.name].optional
    <3> DEFINE ins == <<f1, f2, f3, f4, f5, f6, f7>>
               outs == <<g1, g2, g3>>
               all == {f1, f2, f3, f4, f5, f6, f7, g1, g2, g3}
    <3>1. ins \in Seq(all) /\ outs \in Seq(all)
      OBVIOUS
    <3>2. /\ DOMAIN ins = 1 .. 7 /\ ins[1] = f1 /\ ins[2] = f2 /\ ins[3] = f3 /\ ins[4] = f4
          /\ ins[5] = f5 /\ ins[6] = f6 /\ ins[7] = f7
          /\ DOMAIN outs = 1 .. 3 /\ outs[1] = g1 /\ outs[2] = g2 /\ outs[3] = g3
      OBVIOUS
    <3>3. /\ 1 \in DOMAIN ins /\ 2 \in DOMAIN ins /\ 3 \in DOMAIN ins /\ 4 \in DOMAIN ins
          /\ 5 \in DOMAIN ins /\ 6 \in DOMAIN ins /\ 7 \in DOMAIN ins
      BY <3>2
    <3>4. 1 \in DOMAIN outs /\ 2 \in DOMAIN outs /\ 3 \in DOMAIN outs
      BY <3>2
    <3>5. \A x \in DOMAIN ins : ins[x] = f1 \/ ins[x] = f2 \/ ins[x] = f3 \/ ins[x] = f4 \/ ins[x] = f5 \/ ins[x] = f6 \/ ins[x] = f7
      BY <3>2
    <3> HIDE DEF ins, outs, all
    <3>6. CheckLoadContract(m, Contract(ins, outs)) = "ok"
      BY <1>1 DEF ins, outs
    <3>7. ContractHolds(m, Contract(ins, outs))
      BY <3>1, <3>6, ContractChecked, Zenon
    <3>8. Contract(ins, outs).inputs = ins /\ Contract(ins, outs).outputs = outs
      BY DEF Contract
    <3>9. \A n \in Named(ins) : n \in {f1.name, f2.name, f3.name, f4.name, f5.name, f6.name,
                                       f7.name}
      BY <3>5, Zenon DEF Named
    <3>10. QED
      BY <3>2, <3>3, <3>4, <3>7, <3>8, <3>9, Zenon DEF ContractHolds
  <2>2. QED
    BY <1>2, <2>1, Zenon
<1>5. /\ FeatureIs(m.inputs, "input_ids", "i32", <<1>>)
      /\ AxisOf(m.inputs, "input_ids", 1) = 1
  <2>1. /\ FeatureIs(m.inputs, "input_ids", "i32", <<AxisOf(m.inputs, "input_ids", 1)>>)
        /\ AxisOf(m.inputs, "input_ids", 1) \in Nat
        /\ SizeFits(E(1), AxisOf(m.inputs, "input_ids", 1))
    <3>1. FeatureHolds(F("input_ids", "i32", <<E(1)>>), m.inputs)
      BY <1>4 DEF f1
    <3>2. E(1).kind # "range"
      BY Sizes1, Zenon
    <3>3. QED
      BY <1>3, <3>1, <3>2, Fixed1, Zenon
  <2>2. AxisOf(m.inputs, "input_ids", 1) = 1
    BY <2>1, Sizes1
  <2>3. QED
    BY <2>1, <2>2, Zenon DEF InputDim
<1>6. /\ FeatureIs(m.inputs, "cache_length", "i32", <<1>>)
      /\ AxisOf(m.inputs, "cache_length", 1) = 1
  <2>1. /\ FeatureIs(m.inputs, "cache_length", "i32", <<AxisOf(m.inputs, "cache_length", 1)>>)
        /\ AxisOf(m.inputs, "cache_length", 1) \in Nat
        /\ SizeFits(E(1), AxisOf(m.inputs, "cache_length", 1))
    <3>1. FeatureHolds(F("cache_length", "i32", <<E(1)>>), m.inputs)
      BY <1>4 DEF f2
    <3>2. E(1).kind # "range"
      BY Sizes1, Zenon
    <3>3. QED
      BY <1>3, <3>1, <3>2, Fixed1, Zenon
  <2>2. AxisOf(m.inputs, "cache_length", 1) = 1
    BY <2>1, Sizes1
  <2>3. QED
    BY <2>1, <2>2, Zenon DEF InputDim
<1>7. /\ FeatureIs(m.inputs, "key_cache", "f16",
                   <<1, InputDim(m, "key_cache", 2), 1, InputDim(m, "key_cache", 4)>>)
      /\ AxisOf(m.inputs, "key_cache", 1) = 1 /\ AxisOf(m.inputs, "key_cache", 2) \in Nat \ {0}
      /\ AxisOf(m.inputs, "key_cache", 3) = 1 /\ AxisOf(m.inputs, "key_cache", 4) \in Nat
      /\ AxisOf(m.inputs, "key_cache", 4) >= MaxTokenContext
  <2>1. /\ FeatureIs(m.inputs, "key_cache", "f16",
                     <<AxisOf(m.inputs, "key_cache", 1), AxisOf(m.inputs, "key_cache", 2),
                       AxisOf(m.inputs, "key_cache", 3), AxisOf(m.inputs, "key_cache", 4)>>)
        /\ AxisOf(m.inputs, "key_cache", 1) \in Nat
        /\ SizeFits(E(1), AxisOf(m.inputs, "key_cache", 1))
        /\ AxisOf(m.inputs, "key_cache", 2) \in Nat
        /\ SizeFits(AnyFixed, AxisOf(m.inputs, "key_cache", 2))
        /\ AxisOf(m.inputs, "key_cache", 3) \in Nat
        /\ SizeFits(E(1), AxisOf(m.inputs, "key_cache", 3))
        /\ AxisOf(m.inputs, "key_cache", 4) \in Nat
        /\ SizeFits(AtLeast(MaxTokenContext), AxisOf(m.inputs, "key_cache", 4))
    <3>1. FeatureHolds(F("key_cache", "f16", <<E(1), AnyFixed, E(1), AtLeast(MaxTokenContext)>>),
                       m.inputs)
      BY <1>4 DEF f3
    <3>2. /\ E(1).kind # "range" /\ AnyFixed.kind # "range" /\ E(1).kind # "range"
          /\ AtLeast(MaxTokenContext).kind # "range"
      BY Sizes1, Zenon
    <3>3. QED
      BY <1>3, <3>1, <3>2, Fixed4, Zenon
  <2>2. /\ AxisOf(m.inputs, "key_cache", 1) = 1 /\ AxisOf(m.inputs, "key_cache", 2) \in Nat \ {0}
        /\ AxisOf(m.inputs, "key_cache", 3) = 1 /\ AxisOf(m.inputs, "key_cache", 4) \in Nat
        /\ AxisOf(m.inputs, "key_cache", 4) >= MaxTokenContext
    BY <2>1, Sizes1
  <2>3. QED
    BY <2>1, <2>2, Zenon DEF InputDim
<1>8. /\ FeatureIs(m.inputs, "value_cache", "f16", <<1, d["K"], 1, d["C"]>>)
      /\ AxisOf(m.inputs, "value_cache", 1) = 1 /\ AxisOf(m.inputs, "value_cache", 2) = d["K"]
      /\ AxisOf(m.inputs, "value_cache", 3) = 1 /\ AxisOf(m.inputs, "value_cache", 4) = d["C"]
  <2>1. /\ FeatureIs(m.inputs, "value_cache", "f16",
                     <<AxisOf(m.inputs, "value_cache", 1), AxisOf(m.inputs, "value_cache", 2),
                       AxisOf(m.inputs, "value_cache", 3), AxisOf(m.inputs, "value_cache", 4)>>)
        /\ AxisOf(m.inputs, "value_cache", 1) \in Nat
        /\ SizeFits(E(1), AxisOf(m.inputs, "value_cache", 1))
        /\ AxisOf(m.inputs, "value_cache", 2) \in Nat
        /\ SizeFits(E(d["K"]), AxisOf(m.inputs, "value_cache", 2))
        /\ AxisOf(m.inputs, "value_cache", 3) \in Nat
        /\ SizeFits(E(1), AxisOf(m.inputs, "value_cache", 3))
        /\ AxisOf(m.inputs, "value_cache", 4) \in Nat
        /\ SizeFits(E(d["C"]), AxisOf(m.inputs, "value_cache", 4))
    <3>1. FeatureHolds(F("value_cache", "f16", <<E(1), E(d["K"]), E(1), E(d["C"])>>), m.inputs)
      BY <1>4 DEF f4
    <3>2. /\ E(1).kind # "range" /\ E(d["K"]).kind # "range" /\ E(1).kind # "range"
          /\ E(d["C"]).kind # "range"
      BY Sizes1, Zenon
    <3>3. QED
      BY <1>3, <3>1, <3>2, Fixed4, Zenon
  <2>2. /\ AxisOf(m.inputs, "value_cache", 1) = 1 /\ AxisOf(m.inputs, "value_cache", 2) = d["K"]
        /\ AxisOf(m.inputs, "value_cache", 3) = 1 /\ AxisOf(m.inputs, "value_cache", 4) = d["C"]
    BY <2>1, Sizes1
  <2>3. QED
    BY <2>1, <2>2, Zenon DEF InputDim
<1>9. /\ FeatureIs(m.inputs, "update_mask", "f16", <<1, d["C"]>>)
      /\ AxisOf(m.inputs, "update_mask", 1) = 1 /\ AxisOf(m.inputs, "update_mask", 2) = d["C"]
  <2>1. /\ FeatureIs(m.inputs, "update_mask", "f16",
                     <<AxisOf(m.inputs, "update_mask", 1), AxisOf(m.inputs, "update_mask", 2)>>)
        /\ AxisOf(m.inputs, "update_mask", 1) \in Nat
        /\ SizeFits(E(1), AxisOf(m.inputs, "update_mask", 1))
        /\ AxisOf(m.inputs, "update_mask", 2) \in Nat
        /\ SizeFits(E(d["C"]), AxisOf(m.inputs, "update_mask", 2))
    <3>1. FeatureHolds(F("update_mask", "f16", <<E(1), E(d["C"])>>), m.inputs)
      BY <1>4 DEF f5
    <3>2. E(1).kind # "range" /\ E(d["C"]).kind # "range"
      BY Sizes1, Zenon
    <3>3. QED
      BY <1>3, <3>1, <3>2, Fixed2, Zenon
  <2>2. AxisOf(m.inputs, "update_mask", 1) = 1 /\ AxisOf(m.inputs, "update_mask", 2) = d["C"]
    BY <2>1, Sizes1
  <2>3. QED
    BY <2>1, <2>2, Zenon DEF InputDim
<1>10. /\ FeatureIs(m.inputs, "embeds", "f16", <<1, d["E"], 1, d["A"]>>)
      /\ AxisOf(m.inputs, "embeds", 1) = 1 /\ AxisOf(m.inputs, "embeds", 2) = d["E"]
      /\ AxisOf(m.inputs, "embeds", 3) = 1 /\ AxisOf(m.inputs, "embeds", 4) = d["A"]
  <2>1. /\ FeatureIs(m.inputs, "embeds", "f16",
                     <<AxisOf(m.inputs, "embeds", 1), AxisOf(m.inputs, "embeds", 2),
                       AxisOf(m.inputs, "embeds", 3), AxisOf(m.inputs, "embeds", 4)>>)
        /\ AxisOf(m.inputs, "embeds", 1) \in Nat /\ SizeFits(E(1), AxisOf(m.inputs, "embeds", 1))
        /\ AxisOf(m.inputs, "embeds", 2) \in Nat
        /\ SizeFits(E(d["E"]), AxisOf(m.inputs, "embeds", 2))
        /\ AxisOf(m.inputs, "embeds", 3) \in Nat /\ SizeFits(E(1), AxisOf(m.inputs, "embeds", 3))
        /\ AxisOf(m.inputs, "embeds", 4) \in Nat
        /\ SizeFits(E(d["A"]), AxisOf(m.inputs, "embeds", 4))
    <3>1. FeatureHolds(F("embeds", "f16", <<E(1), E(d["E"]), E(1), E(d["A"])>>), m.inputs)
      BY <1>4 DEF f6
    <3>2. /\ E(1).kind # "range" /\ E(d["E"]).kind # "range" /\ E(1).kind # "range"
          /\ E(d["A"]).kind # "range"
      BY Sizes1, Zenon
    <3>3. QED
      BY <1>3, <3>1, <3>2, Fixed4, Zenon
  <2>2. /\ AxisOf(m.inputs, "embeds", 1) = 1 /\ AxisOf(m.inputs, "embeds", 2) = d["E"]
        /\ AxisOf(m.inputs, "embeds", 3) = 1 /\ AxisOf(m.inputs, "embeds", 4) = d["A"]
    BY <2>1, Sizes1
  <2>3. QED
    BY <2>1, <2>2, Zenon DEF InputDim
<1>11. /\ FeatureIs(m.inputs, "padding_mask", "f16", <<1, d["C"]>>)
      /\ AxisOf(m.inputs, "padding_mask", 1) = 1 /\ AxisOf(m.inputs, "padding_mask", 2) = d["C"]
  <2>1. /\ FeatureIs(m.inputs, "padding_mask", "f16",
                     <<AxisOf(m.inputs, "padding_mask", 1), AxisOf(m.inputs, "padding_mask", 2)>>)
        /\ AxisOf(m.inputs, "padding_mask", 1) \in Nat
        /\ SizeFits(E(1), AxisOf(m.inputs, "padding_mask", 1))
        /\ AxisOf(m.inputs, "padding_mask", 2) \in Nat
        /\ SizeFits(E(d["C"]), AxisOf(m.inputs, "padding_mask", 2))
    <3>1. FeatureHolds(F("padding_mask", "f16", <<E(1), E(d["C"])>>), m.inputs)
      BY <1>4 DEF f7
    <3>2. E(1).kind # "range" /\ E(d["C"]).kind # "range"
      BY Sizes1, Zenon
    <3>3. QED
      BY <1>3, <3>1, <3>2, Fixed2, Zenon
  <2>2. AxisOf(m.inputs, "padding_mask", 1) = 1 /\ AxisOf(m.inputs, "padding_mask", 2) = d["C"]
    BY <2>1, Sizes1
  <2>3. QED
    BY <2>1, <2>2, Zenon DEF InputDim
<1>12. /\ FeatureIs(m.outputs, "logits", "f16", <<1, 1, Vocab>>)
      /\ AxisOf(m.outputs, "logits", 1) = 1 /\ AxisOf(m.outputs, "logits", 2) = 1
      /\ AxisOf(m.outputs, "logits", 3) = Vocab
  <2>1. /\ FeatureIs(m.outputs, "logits", "f16",
                     <<AxisOf(m.outputs, "logits", 1), AxisOf(m.outputs, "logits", 2),
                       AxisOf(m.outputs, "logits", 3)>>)
        /\ AxisOf(m.outputs, "logits", 1) \in Nat /\ SizeFits(E(1), AxisOf(m.outputs, "logits", 1))
        /\ AxisOf(m.outputs, "logits", 2) \in Nat /\ SizeFits(E(1), AxisOf(m.outputs, "logits", 2))
        /\ AxisOf(m.outputs, "logits", 3) \in Nat
        /\ SizeFits(E(Vocab), AxisOf(m.outputs, "logits", 3))
    <3>1. FeatureHolds(F("logits", "f16", <<E(1), E(1), E(Vocab)>>), m.outputs)
      BY <1>4 DEF g1
    <3>2. E(1).kind # "range" /\ E(1).kind # "range" /\ E(Vocab).kind # "range"
      BY Sizes1, Zenon
    <3>3. QED
      BY <1>3, <3>1, <3>2, Fixed3, Zenon
  <2>2. /\ AxisOf(m.outputs, "logits", 1) = 1 /\ AxisOf(m.outputs, "logits", 2) = 1
        /\ AxisOf(m.outputs, "logits", 3) = Vocab
    BY <2>1, Sizes1
  <2>3. QED
    BY <2>1, <2>2, Zenon DEF OutputDim
<1>13. /\ FeatureIs(m.outputs, "key_updates", "f16", <<1, d["K"], 1, 1>>)
      /\ AxisOf(m.outputs, "key_updates", 1) = 1 /\ AxisOf(m.outputs, "key_updates", 2) = d["K"]
      /\ AxisOf(m.outputs, "key_updates", 3) = 1 /\ AxisOf(m.outputs, "key_updates", 4) = 1
  <2>1. /\ FeatureIs(m.outputs, "key_updates", "f16",
                     <<AxisOf(m.outputs, "key_updates", 1), AxisOf(m.outputs, "key_updates", 2),
                       AxisOf(m.outputs, "key_updates", 3), AxisOf(m.outputs, "key_updates", 4)>>)
        /\ AxisOf(m.outputs, "key_updates", 1) \in Nat
        /\ SizeFits(E(1), AxisOf(m.outputs, "key_updates", 1))
        /\ AxisOf(m.outputs, "key_updates", 2) \in Nat
        /\ SizeFits(E(d["K"]), AxisOf(m.outputs, "key_updates", 2))
        /\ AxisOf(m.outputs, "key_updates", 3) \in Nat
        /\ SizeFits(E(1), AxisOf(m.outputs, "key_updates", 3))
        /\ AxisOf(m.outputs, "key_updates", 4) \in Nat
        /\ SizeFits(E(1), AxisOf(m.outputs, "key_updates", 4))
    <3>1. FeatureHolds(F("key_updates", "f16", <<E(1), E(d["K"]), E(1), E(1)>>), m.outputs)
      BY <1>4 DEF g2
    <3>2. /\ E(1).kind # "range" /\ E(d["K"]).kind # "range" /\ E(1).kind # "range"
          /\ E(1).kind # "range"
      BY Sizes1, Zenon
    <3>3. QED
      BY <1>3, <3>1, <3>2, Fixed4, Zenon
  <2>2. /\ AxisOf(m.outputs, "key_updates", 1) = 1 /\ AxisOf(m.outputs, "key_updates", 2) = d["K"]
        /\ AxisOf(m.outputs, "key_updates", 3) = 1 /\ AxisOf(m.outputs, "key_updates", 4) = 1
    BY <2>1, Sizes1
  <2>3. QED
    BY <2>1, <2>2, Zenon DEF OutputDim
<1>14. /\ FeatureIs(m.outputs, "value_updates", "f16", <<1, d["K"], 1, 1>>)
      /\ AxisOf(m.outputs, "value_updates", 1) = 1 /\ AxisOf(m.outputs, "value_updates", 2) = d["K"]
      /\ AxisOf(m.outputs, "value_updates", 3) = 1 /\ AxisOf(m.outputs, "value_updates", 4) = 1
  <2>1. /\ FeatureIs(m.outputs, "value_updates", "f16",
                     <<AxisOf(m.outputs, "value_updates", 1), AxisOf(m.outputs, "value_updates", 2),
                       AxisOf(m.outputs, "value_updates", 3), AxisOf(m.outputs, "value_updates",
                                                                     4)>>)
        /\ AxisOf(m.outputs, "value_updates", 1) \in Nat
        /\ SizeFits(E(1), AxisOf(m.outputs, "value_updates", 1))
        /\ AxisOf(m.outputs, "value_updates", 2) \in Nat
        /\ SizeFits(E(d["K"]), AxisOf(m.outputs, "value_updates", 2))
        /\ AxisOf(m.outputs, "value_updates", 3) \in Nat
        /\ SizeFits(E(1), AxisOf(m.outputs, "value_updates", 3))
        /\ AxisOf(m.outputs, "value_updates", 4) \in Nat
        /\ SizeFits(E(1), AxisOf(m.outputs, "value_updates", 4))
    <3>1. FeatureHolds(F("value_updates", "f16", <<E(1), E(d["K"]), E(1), E(1)>>), m.outputs)
      BY <1>4 DEF g3
    <3>2. /\ E(1).kind # "range" /\ E(d["K"]).kind # "range" /\ E(1).kind # "range"
          /\ E(1).kind # "range"
      BY Sizes1, Zenon
    <3>3. QED
      BY <1>3, <3>1, <3>2, Fixed4, Zenon
  <2>2. /\ AxisOf(m.outputs, "value_updates", 1) = 1
        /\ AxisOf(m.outputs, "value_updates", 2) = d["K"]
        /\ AxisOf(m.outputs, "value_updates", 3) = 1 /\ AxisOf(m.outputs, "value_updates", 4) = 1
    BY <2>1, Sizes1
  <2>3. QED
    BY <2>1, <2>2, Zenon DEF OutputDim
<1>15. Runs(m, sent)
  <2>1. /\ DOMAIN sent = {"input_ids", "cache_length", "key_cache", "value_cache", "update_mask",
                          "embeds", "padding_mask"}
        /\ sent["input_ids"].type = "i32" /\ sent["input_ids"].shape = <<1>>
        /\ sent["cache_length"].type = "i32" /\ sent["cache_length"].shape = <<1>>
        /\ sent["key_cache"].type = "f16"
        /\ sent["key_cache"].shape = <<1, InputDim(m, "key_cache", 2), 1,
                                       InputDim(m, "key_cache", 4)>>
        /\ sent["value_cache"].type = "f16" /\ sent["value_cache"].shape = <<1, d["K"], 1, d["C"]>>
        /\ sent["update_mask"].type = "f16" /\ sent["update_mask"].shape = <<1, d["C"]>>
        /\ sent["embeds"].type = "f16" /\ sent["embeds"].shape = <<1, d["E"], 1, d["A"]>>
        /\ sent["padding_mask"].type = "f16" /\ sent["padding_mask"].shape = <<1, d["C"]>>
    BY DEF Tensor
  <2> HIDE DEF sent
  <2>2. Taken(m, "input_ids", sent["input_ids"])
    BY <1>5, <2>1, Zenon DEF Taken, Takes, Admits, FeatureIs
  <2>3. Taken(m, "cache_length", sent["cache_length"])
    BY <1>6, <2>1, Zenon DEF Taken, Takes, Admits, FeatureIs
  <2>4. Taken(m, "key_cache", sent["key_cache"])
    BY <1>7, <2>1, Zenon DEF Taken, Takes, Admits, FeatureIs
  <2>5. Taken(m, "value_cache", sent["value_cache"])
    BY <1>8, <2>1, Zenon DEF Taken, Takes, Admits, FeatureIs
  <2>6. Taken(m, "update_mask", sent["update_mask"])
    BY <1>9, <2>1, Zenon DEF Taken, Takes, Admits, FeatureIs
  <2>7. Taken(m, "embeds", sent["embeds"])
    BY <1>10, <2>1, Zenon DEF Taken, Takes, Admits, FeatureIs
  <2>8. Taken(m, "padding_mask", sent["padding_mask"])
    BY <1>11, <2>1, Zenon DEF Taken, Takes, Admits, FeatureIs
  <2>9. \A n \in DOMAIN sent : Taken(m, n, sent[n])
    BY <2>1, <2>2, <2>3, <2>4, <2>5, <2>6, <2>7, <2>8, Zenon
  <2>10. QED
    BY <1>4, <2>1, <2>9, Zenon DEF Runs, Taken
<1>16. Gives(m, wanted)
  <2>1. /\ DOMAIN wanted = {"logits", "key_updates", "value_updates"}
        /\ wanted["logits"].type = "f16" /\ wanted["logits"].shape = <<1, 1, Vocab>>
        /\ wanted["key_updates"].type = "f16" /\ wanted["key_updates"].shape = <<1, d["K"], 1, 1>>
        /\ wanted["value_updates"].type = "f16"
        /\ wanted["value_updates"].shape = <<1, d["K"], 1, 1>>
    BY DEF Tensor
  <2> HIDE DEF wanted
  <2>2. "f16" # "none"
    OBVIOUS
  <2>3. QED
    BY <1>4, <1>12, <1>13, <1>14, <2>1, <2>2, Zenon DEF Gives
<1>17. QED
  BY <1>5, <1>6, <1>7, <1>8, <1>9, <1>10, <1>11, <1>12, <1>13, <1>14, <1>15, <1>16,
     Zenon DEF InputDim, OutputDim

LEMMA DecoderAlignedAnswers ==
  ASSUME NEW m, Described(m), NEW d, d["heads"] = 1,
         CheckLoadContract(m, DecoderContract(d)) = "ok"
  PROVE  /\ Runs(m, [input_ids |-> Tensor("i32", <<1>>),
                 cache_length |-> Tensor("i32", <<1>>),
                 key_cache |-> Tensor("f16",
                                      <<1, InputDim(m, "key_cache", 2), 1,
                                        InputDim(m, "key_cache", 4)>>),
                 value_cache |-> Tensor("f16", <<1, d["K"], 1, d["C"]>>),
                 update_mask |-> Tensor("f16", <<1, d["C"]>>),
                 embeds |-> Tensor("f16", <<1, d["E"], 1, d["A"]>>),
                 padding_mask |-> Tensor("f16", <<1, d["C"]>>)])
         /\ Gives(m, [logits |-> Tensor("f16", <<1, 1, Vocab>>),
                  key_updates |-> Tensor("f16", <<1, d["K"], 1, 1>>),
                  value_updates |-> Tensor("f16", <<1, d["K"], 1, 1>>),
                  alignment |-> Tensor("f16", <<1, d["A"]>>)])
         /\ InputDim(m, "key_cache", 2) \in Nat \ {0}
         /\ InputDim(m, "key_cache", 4) \in Nat /\ InputDim(m, "key_cache", 4) >= MaxTokenContext
<1> DEFINE f1 == F("input_ids", "i32", <<E(1)>>)
           f2 == F("cache_length", "i32", <<E(1)>>)
           f3 == F("key_cache", "f16", <<E(1), AnyFixed, E(1), AtLeast(MaxTokenContext)>>)
           f4 == F("value_cache", "f16", <<E(1), E(d["K"]), E(1), E(d["C"])>>)
           f5 == F("update_mask", "f16", <<E(1), E(d["C"])>>)
           f6 == F("embeds", "f16", <<E(1), E(d["E"]), E(1), E(d["A"])>>)
           f7 == F("padding_mask", "f16", <<E(1), E(d["C"])>>)
           g1 == F("logits", "f16", <<E(1), E(1), E(Vocab)>>)
           g2 == F("key_updates", "f16", <<E(1), E(d["K"]), E(1), E(1)>>)
           g3 == F("value_updates", "f16", <<E(1), E(d["K"]), E(1), E(1)>>)
           g4 == F("alignment", "f16", <<E(1), E(d["A"])>>)
           sent == [input_ids |-> Tensor("i32", <<1>>),
                 cache_length |-> Tensor("i32", <<1>>),
                 key_cache |-> Tensor("f16",
                                      <<1, InputDim(m, "key_cache", 2), 1,
                                        InputDim(m, "key_cache", 4)>>),
                 value_cache |-> Tensor("f16", <<1, d["K"], 1, d["C"]>>),
                 update_mask |-> Tensor("f16", <<1, d["C"]>>),
                 embeds |-> Tensor("f16", <<1, d["E"], 1, d["A"]>>),
                 padding_mask |-> Tensor("f16", <<1, d["C"]>>)]
           wanted == [logits |-> Tensor("f16", <<1, 1, Vocab>>),
                  key_updates |-> Tensor("f16", <<1, d["K"], 1, 1>>),
                  value_updates |-> Tensor("f16", <<1, d["K"], 1, 1>>),
                  alignment |-> Tensor("f16", <<1, d["A"]>>)]
<1>1. CheckLoadContract(m, Contract(<<f1, f2, f3, f4, f5, f6, f7>>, <<g1, g2, g3, g4>>)) = "ok"
  <2>1. DecoderContract(d) = Contract(<<f1, f2, f3, f4, f5, f6, f7>>, <<g1, g2, g3>> \o <<g4>>)
    BY DEF DecoderContract
  <2>2. <<g1, g2, g3>> \o <<g4>> = <<g1, g2, g3, g4>>
    BY Fourth, Zenon
  <2>3. QED
    BY <2>1, <2>2
<1>2. /\ f1.name = "input_ids" /\ f2.name = "cache_length" /\ f3.name = "key_cache"
      /\ f4.name = "value_cache" /\ f5.name = "update_mask" /\ f6.name = "embeds"
      /\ f7.name = "padding_mask" /\ g1.name = "logits" /\ g2.name = "key_updates"
      /\ g3.name = "value_updates" /\ g4.name = "alignment"
  BY DEF F, FeatureContract
<1>3. /\ \A n \in DOMAIN m.inputs : DescribedFeature(m.inputs[n])
      /\ \A n \in DOMAIN m.outputs : DescribedFeature(m.outputs[n])
  BY Zenon DEF Described
<1> HIDE DEF f1, f2, f3, f4, f5, f6, f7, g1, g2, g3, g4
<1>4. /\ m.states = {}
      /\ \A n \in DOMAIN m.inputs : m.inputs[n].optional \/ n \in {"input_ids", "cache_length",
                                                                   "key_cache", "value_cache", "update_mask", "embeds", "padding_mask"}
      /\ FeatureHolds(f1, m.inputs) /\ FeatureHolds(f2, m.inputs) /\ FeatureHolds(f3, m.inputs)
      /\ FeatureHolds(f4, m.inputs) /\ FeatureHolds(f5, m.inputs) /\ FeatureHolds(f6, m.inputs)
      /\ FeatureHolds(f7, m.inputs) /\ FeatureHolds(g1, m.outputs) /\ FeatureHolds(g2, m.outputs)
      /\ FeatureHolds(g3, m.outputs) /\ FeatureHolds(g4, m.outputs)
      /\ ~m.outputs["logits"].optional /\ ~m.outputs["key_updates"].optional
      /\ ~m.outputs["value_updates"].optional /\ ~m.outputs["alignment"].optional
  <2>1. /\ m.states = {}
        /\ \A n \in DOMAIN m.inputs : m.inputs[n].optional \/ n \in {f1.name, f2.name, f3.name,
                                                                     f4.name, f5.name, f6.name, f7.name}
        /\ FeatureHolds(f1, m.inputs) /\ FeatureHolds(f2, m.inputs) /\ FeatureHolds(f3, m.inputs)
        /\ FeatureHolds(f4, m.inputs) /\ FeatureHolds(f5, m.inputs) /\ FeatureHolds(f6, m.inputs)
        /\ FeatureHolds(f7, m.inputs) /\ FeatureHolds(g1, m.outputs) /\ FeatureHolds(g2, m.outputs)
        /\ FeatureHolds(g3, m.outputs) /\ FeatureHolds(g4, m.outputs)
        /\ ~m.outputs[g1.name].optional /\ ~m.outputs[g2.name].optional
        /\ ~m.outputs[g3.name].optional /\ ~m.outputs[g4.name].optional
    <3> DEFINE ins == <<f1, f2, f3, f4, f5, f6, f7>>
               outs == <<g1, g2, g3, g4>>
               all == {f1, f2, f3, f4, f5, f6, f7, g1, g2, g3, g4}
    <3>1. ins \in Seq(all) /\ outs \in Seq(all)
      OBVIOUS
    <3>2. /\ DOMAIN ins = 1 .. 7 /\ ins[1] = f1 /\ ins[2] = f2 /\ ins[3] = f3 /\ ins[4] = f4
          /\ ins[5] = f5 /\ ins[6] = f6 /\ ins[7] = f7
          /\ DOMAIN outs = 1 .. 4 /\ outs[1] = g1 /\ outs[2] = g2 /\ outs[3] = g3 /\ outs[4] = g4
      OBVIOUS
    <3>3. /\ 1 \in DOMAIN ins /\ 2 \in DOMAIN ins /\ 3 \in DOMAIN ins /\ 4 \in DOMAIN ins
          /\ 5 \in DOMAIN ins /\ 6 \in DOMAIN ins /\ 7 \in DOMAIN ins
      BY <3>2
    <3>4. 1 \in DOMAIN outs /\ 2 \in DOMAIN outs /\ 3 \in DOMAIN outs /\ 4 \in DOMAIN outs
      BY <3>2
    <3>5. \A x \in DOMAIN ins : ins[x] = f1 \/ ins[x] = f2 \/ ins[x] = f3 \/ ins[x] = f4 \/ ins[x] = f5 \/ ins[x] = f6 \/ ins[x] = f7
      BY <3>2
    <3> HIDE DEF ins, outs, all
    <3>6. CheckLoadContract(m, Contract(ins, outs)) = "ok"
      BY <1>1 DEF ins, outs
    <3>7. ContractHolds(m, Contract(ins, outs))
      BY <3>1, <3>6, ContractChecked, Zenon
    <3>8. Contract(ins, outs).inputs = ins /\ Contract(ins, outs).outputs = outs
      BY DEF Contract
    <3>9. \A n \in Named(ins) : n \in {f1.name, f2.name, f3.name, f4.name, f5.name, f6.name,
                                       f7.name}
      BY <3>5, Zenon DEF Named
    <3>10. QED
      BY <3>2, <3>3, <3>4, <3>7, <3>8, <3>9, Zenon DEF ContractHolds
  <2>2. QED
    BY <1>2, <2>1, Zenon
<1>5. /\ FeatureIs(m.inputs, "input_ids", "i32", <<1>>)
      /\ AxisOf(m.inputs, "input_ids", 1) = 1
  <2>1. /\ FeatureIs(m.inputs, "input_ids", "i32", <<AxisOf(m.inputs, "input_ids", 1)>>)
        /\ AxisOf(m.inputs, "input_ids", 1) \in Nat
        /\ SizeFits(E(1), AxisOf(m.inputs, "input_ids", 1))
    <3>1. FeatureHolds(F("input_ids", "i32", <<E(1)>>), m.inputs)
      BY <1>4 DEF f1
    <3>2. E(1).kind # "range"
      BY Sizes1, Zenon
    <3>3. QED
      BY <1>3, <3>1, <3>2, Fixed1, Zenon
  <2>2. AxisOf(m.inputs, "input_ids", 1) = 1
    BY <2>1, Sizes1
  <2>3. QED
    BY <2>1, <2>2, Zenon DEF InputDim
<1>6. /\ FeatureIs(m.inputs, "cache_length", "i32", <<1>>)
      /\ AxisOf(m.inputs, "cache_length", 1) = 1
  <2>1. /\ FeatureIs(m.inputs, "cache_length", "i32", <<AxisOf(m.inputs, "cache_length", 1)>>)
        /\ AxisOf(m.inputs, "cache_length", 1) \in Nat
        /\ SizeFits(E(1), AxisOf(m.inputs, "cache_length", 1))
    <3>1. FeatureHolds(F("cache_length", "i32", <<E(1)>>), m.inputs)
      BY <1>4 DEF f2
    <3>2. E(1).kind # "range"
      BY Sizes1, Zenon
    <3>3. QED
      BY <1>3, <3>1, <3>2, Fixed1, Zenon
  <2>2. AxisOf(m.inputs, "cache_length", 1) = 1
    BY <2>1, Sizes1
  <2>3. QED
    BY <2>1, <2>2, Zenon DEF InputDim
<1>7. /\ FeatureIs(m.inputs, "key_cache", "f16",
                   <<1, InputDim(m, "key_cache", 2), 1, InputDim(m, "key_cache", 4)>>)
      /\ AxisOf(m.inputs, "key_cache", 1) = 1 /\ AxisOf(m.inputs, "key_cache", 2) \in Nat \ {0}
      /\ AxisOf(m.inputs, "key_cache", 3) = 1 /\ AxisOf(m.inputs, "key_cache", 4) \in Nat
      /\ AxisOf(m.inputs, "key_cache", 4) >= MaxTokenContext
  <2>1. /\ FeatureIs(m.inputs, "key_cache", "f16",
                     <<AxisOf(m.inputs, "key_cache", 1), AxisOf(m.inputs, "key_cache", 2),
                       AxisOf(m.inputs, "key_cache", 3), AxisOf(m.inputs, "key_cache", 4)>>)
        /\ AxisOf(m.inputs, "key_cache", 1) \in Nat
        /\ SizeFits(E(1), AxisOf(m.inputs, "key_cache", 1))
        /\ AxisOf(m.inputs, "key_cache", 2) \in Nat
        /\ SizeFits(AnyFixed, AxisOf(m.inputs, "key_cache", 2))
        /\ AxisOf(m.inputs, "key_cache", 3) \in Nat
        /\ SizeFits(E(1), AxisOf(m.inputs, "key_cache", 3))
        /\ AxisOf(m.inputs, "key_cache", 4) \in Nat
        /\ SizeFits(AtLeast(MaxTokenContext), AxisOf(m.inputs, "key_cache", 4))
    <3>1. FeatureHolds(F("key_cache", "f16", <<E(1), AnyFixed, E(1), AtLeast(MaxTokenContext)>>),
                       m.inputs)
      BY <1>4 DEF f3
    <3>2. /\ E(1).kind # "range" /\ AnyFixed.kind # "range" /\ E(1).kind # "range"
          /\ AtLeast(MaxTokenContext).kind # "range"
      BY Sizes1, Zenon
    <3>3. QED
      BY <1>3, <3>1, <3>2, Fixed4, Zenon
  <2>2. /\ AxisOf(m.inputs, "key_cache", 1) = 1 /\ AxisOf(m.inputs, "key_cache", 2) \in Nat \ {0}
        /\ AxisOf(m.inputs, "key_cache", 3) = 1 /\ AxisOf(m.inputs, "key_cache", 4) \in Nat
        /\ AxisOf(m.inputs, "key_cache", 4) >= MaxTokenContext
    BY <2>1, Sizes1
  <2>3. QED
    BY <2>1, <2>2, Zenon DEF InputDim
<1>8. /\ FeatureIs(m.inputs, "value_cache", "f16", <<1, d["K"], 1, d["C"]>>)
      /\ AxisOf(m.inputs, "value_cache", 1) = 1 /\ AxisOf(m.inputs, "value_cache", 2) = d["K"]
      /\ AxisOf(m.inputs, "value_cache", 3) = 1 /\ AxisOf(m.inputs, "value_cache", 4) = d["C"]
  <2>1. /\ FeatureIs(m.inputs, "value_cache", "f16",
                     <<AxisOf(m.inputs, "value_cache", 1), AxisOf(m.inputs, "value_cache", 2),
                       AxisOf(m.inputs, "value_cache", 3), AxisOf(m.inputs, "value_cache", 4)>>)
        /\ AxisOf(m.inputs, "value_cache", 1) \in Nat
        /\ SizeFits(E(1), AxisOf(m.inputs, "value_cache", 1))
        /\ AxisOf(m.inputs, "value_cache", 2) \in Nat
        /\ SizeFits(E(d["K"]), AxisOf(m.inputs, "value_cache", 2))
        /\ AxisOf(m.inputs, "value_cache", 3) \in Nat
        /\ SizeFits(E(1), AxisOf(m.inputs, "value_cache", 3))
        /\ AxisOf(m.inputs, "value_cache", 4) \in Nat
        /\ SizeFits(E(d["C"]), AxisOf(m.inputs, "value_cache", 4))
    <3>1. FeatureHolds(F("value_cache", "f16", <<E(1), E(d["K"]), E(1), E(d["C"])>>), m.inputs)
      BY <1>4 DEF f4
    <3>2. /\ E(1).kind # "range" /\ E(d["K"]).kind # "range" /\ E(1).kind # "range"
          /\ E(d["C"]).kind # "range"
      BY Sizes1, Zenon
    <3>3. QED
      BY <1>3, <3>1, <3>2, Fixed4, Zenon
  <2>2. /\ AxisOf(m.inputs, "value_cache", 1) = 1 /\ AxisOf(m.inputs, "value_cache", 2) = d["K"]
        /\ AxisOf(m.inputs, "value_cache", 3) = 1 /\ AxisOf(m.inputs, "value_cache", 4) = d["C"]
    BY <2>1, Sizes1
  <2>3. QED
    BY <2>1, <2>2, Zenon DEF InputDim
<1>9. /\ FeatureIs(m.inputs, "update_mask", "f16", <<1, d["C"]>>)
      /\ AxisOf(m.inputs, "update_mask", 1) = 1 /\ AxisOf(m.inputs, "update_mask", 2) = d["C"]
  <2>1. /\ FeatureIs(m.inputs, "update_mask", "f16",
                     <<AxisOf(m.inputs, "update_mask", 1), AxisOf(m.inputs, "update_mask", 2)>>)
        /\ AxisOf(m.inputs, "update_mask", 1) \in Nat
        /\ SizeFits(E(1), AxisOf(m.inputs, "update_mask", 1))
        /\ AxisOf(m.inputs, "update_mask", 2) \in Nat
        /\ SizeFits(E(d["C"]), AxisOf(m.inputs, "update_mask", 2))
    <3>1. FeatureHolds(F("update_mask", "f16", <<E(1), E(d["C"])>>), m.inputs)
      BY <1>4 DEF f5
    <3>2. E(1).kind # "range" /\ E(d["C"]).kind # "range"
      BY Sizes1, Zenon
    <3>3. QED
      BY <1>3, <3>1, <3>2, Fixed2, Zenon
  <2>2. AxisOf(m.inputs, "update_mask", 1) = 1 /\ AxisOf(m.inputs, "update_mask", 2) = d["C"]
    BY <2>1, Sizes1
  <2>3. QED
    BY <2>1, <2>2, Zenon DEF InputDim
<1>10. /\ FeatureIs(m.inputs, "embeds", "f16", <<1, d["E"], 1, d["A"]>>)
      /\ AxisOf(m.inputs, "embeds", 1) = 1 /\ AxisOf(m.inputs, "embeds", 2) = d["E"]
      /\ AxisOf(m.inputs, "embeds", 3) = 1 /\ AxisOf(m.inputs, "embeds", 4) = d["A"]
  <2>1. /\ FeatureIs(m.inputs, "embeds", "f16",
                     <<AxisOf(m.inputs, "embeds", 1), AxisOf(m.inputs, "embeds", 2),
                       AxisOf(m.inputs, "embeds", 3), AxisOf(m.inputs, "embeds", 4)>>)
        /\ AxisOf(m.inputs, "embeds", 1) \in Nat /\ SizeFits(E(1), AxisOf(m.inputs, "embeds", 1))
        /\ AxisOf(m.inputs, "embeds", 2) \in Nat
        /\ SizeFits(E(d["E"]), AxisOf(m.inputs, "embeds", 2))
        /\ AxisOf(m.inputs, "embeds", 3) \in Nat /\ SizeFits(E(1), AxisOf(m.inputs, "embeds", 3))
        /\ AxisOf(m.inputs, "embeds", 4) \in Nat
        /\ SizeFits(E(d["A"]), AxisOf(m.inputs, "embeds", 4))
    <3>1. FeatureHolds(F("embeds", "f16", <<E(1), E(d["E"]), E(1), E(d["A"])>>), m.inputs)
      BY <1>4 DEF f6
    <3>2. /\ E(1).kind # "range" /\ E(d["E"]).kind # "range" /\ E(1).kind # "range"
          /\ E(d["A"]).kind # "range"
      BY Sizes1, Zenon
    <3>3. QED
      BY <1>3, <3>1, <3>2, Fixed4, Zenon
  <2>2. /\ AxisOf(m.inputs, "embeds", 1) = 1 /\ AxisOf(m.inputs, "embeds", 2) = d["E"]
        /\ AxisOf(m.inputs, "embeds", 3) = 1 /\ AxisOf(m.inputs, "embeds", 4) = d["A"]
    BY <2>1, Sizes1
  <2>3. QED
    BY <2>1, <2>2, Zenon DEF InputDim
<1>11. /\ FeatureIs(m.inputs, "padding_mask", "f16", <<1, d["C"]>>)
      /\ AxisOf(m.inputs, "padding_mask", 1) = 1 /\ AxisOf(m.inputs, "padding_mask", 2) = d["C"]
  <2>1. /\ FeatureIs(m.inputs, "padding_mask", "f16",
                     <<AxisOf(m.inputs, "padding_mask", 1), AxisOf(m.inputs, "padding_mask", 2)>>)
        /\ AxisOf(m.inputs, "padding_mask", 1) \in Nat
        /\ SizeFits(E(1), AxisOf(m.inputs, "padding_mask", 1))
        /\ AxisOf(m.inputs, "padding_mask", 2) \in Nat
        /\ SizeFits(E(d["C"]), AxisOf(m.inputs, "padding_mask", 2))
    <3>1. FeatureHolds(F("padding_mask", "f16", <<E(1), E(d["C"])>>), m.inputs)
      BY <1>4 DEF f7
    <3>2. E(1).kind # "range" /\ E(d["C"]).kind # "range"
      BY Sizes1, Zenon
    <3>3. QED
      BY <1>3, <3>1, <3>2, Fixed2, Zenon
  <2>2. AxisOf(m.inputs, "padding_mask", 1) = 1 /\ AxisOf(m.inputs, "padding_mask", 2) = d["C"]
    BY <2>1, Sizes1
  <2>3. QED
    BY <2>1, <2>2, Zenon DEF InputDim
<1>12. /\ FeatureIs(m.outputs, "logits", "f16", <<1, 1, Vocab>>)
      /\ AxisOf(m.outputs, "logits", 1) = 1 /\ AxisOf(m.outputs, "logits", 2) = 1
      /\ AxisOf(m.outputs, "logits", 3) = Vocab
  <2>1. /\ FeatureIs(m.outputs, "logits", "f16",
                     <<AxisOf(m.outputs, "logits", 1), AxisOf(m.outputs, "logits", 2),
                       AxisOf(m.outputs, "logits", 3)>>)
        /\ AxisOf(m.outputs, "logits", 1) \in Nat /\ SizeFits(E(1), AxisOf(m.outputs, "logits", 1))
        /\ AxisOf(m.outputs, "logits", 2) \in Nat /\ SizeFits(E(1), AxisOf(m.outputs, "logits", 2))
        /\ AxisOf(m.outputs, "logits", 3) \in Nat
        /\ SizeFits(E(Vocab), AxisOf(m.outputs, "logits", 3))
    <3>1. FeatureHolds(F("logits", "f16", <<E(1), E(1), E(Vocab)>>), m.outputs)
      BY <1>4 DEF g1
    <3>2. E(1).kind # "range" /\ E(1).kind # "range" /\ E(Vocab).kind # "range"
      BY Sizes1, Zenon
    <3>3. QED
      BY <1>3, <3>1, <3>2, Fixed3, Zenon
  <2>2. /\ AxisOf(m.outputs, "logits", 1) = 1 /\ AxisOf(m.outputs, "logits", 2) = 1
        /\ AxisOf(m.outputs, "logits", 3) = Vocab
    BY <2>1, Sizes1
  <2>3. QED
    BY <2>1, <2>2, Zenon DEF OutputDim
<1>13. /\ FeatureIs(m.outputs, "key_updates", "f16", <<1, d["K"], 1, 1>>)
      /\ AxisOf(m.outputs, "key_updates", 1) = 1 /\ AxisOf(m.outputs, "key_updates", 2) = d["K"]
      /\ AxisOf(m.outputs, "key_updates", 3) = 1 /\ AxisOf(m.outputs, "key_updates", 4) = 1
  <2>1. /\ FeatureIs(m.outputs, "key_updates", "f16",
                     <<AxisOf(m.outputs, "key_updates", 1), AxisOf(m.outputs, "key_updates", 2),
                       AxisOf(m.outputs, "key_updates", 3), AxisOf(m.outputs, "key_updates", 4)>>)
        /\ AxisOf(m.outputs, "key_updates", 1) \in Nat
        /\ SizeFits(E(1), AxisOf(m.outputs, "key_updates", 1))
        /\ AxisOf(m.outputs, "key_updates", 2) \in Nat
        /\ SizeFits(E(d["K"]), AxisOf(m.outputs, "key_updates", 2))
        /\ AxisOf(m.outputs, "key_updates", 3) \in Nat
        /\ SizeFits(E(1), AxisOf(m.outputs, "key_updates", 3))
        /\ AxisOf(m.outputs, "key_updates", 4) \in Nat
        /\ SizeFits(E(1), AxisOf(m.outputs, "key_updates", 4))
    <3>1. FeatureHolds(F("key_updates", "f16", <<E(1), E(d["K"]), E(1), E(1)>>), m.outputs)
      BY <1>4 DEF g2
    <3>2. /\ E(1).kind # "range" /\ E(d["K"]).kind # "range" /\ E(1).kind # "range"
          /\ E(1).kind # "range"
      BY Sizes1, Zenon
    <3>3. QED
      BY <1>3, <3>1, <3>2, Fixed4, Zenon
  <2>2. /\ AxisOf(m.outputs, "key_updates", 1) = 1 /\ AxisOf(m.outputs, "key_updates", 2) = d["K"]
        /\ AxisOf(m.outputs, "key_updates", 3) = 1 /\ AxisOf(m.outputs, "key_updates", 4) = 1
    BY <2>1, Sizes1
  <2>3. QED
    BY <2>1, <2>2, Zenon DEF OutputDim
<1>14. /\ FeatureIs(m.outputs, "value_updates", "f16", <<1, d["K"], 1, 1>>)
      /\ AxisOf(m.outputs, "value_updates", 1) = 1 /\ AxisOf(m.outputs, "value_updates", 2) = d["K"]
      /\ AxisOf(m.outputs, "value_updates", 3) = 1 /\ AxisOf(m.outputs, "value_updates", 4) = 1
  <2>1. /\ FeatureIs(m.outputs, "value_updates", "f16",
                     <<AxisOf(m.outputs, "value_updates", 1), AxisOf(m.outputs, "value_updates", 2),
                       AxisOf(m.outputs, "value_updates", 3), AxisOf(m.outputs, "value_updates",
                                                                     4)>>)
        /\ AxisOf(m.outputs, "value_updates", 1) \in Nat
        /\ SizeFits(E(1), AxisOf(m.outputs, "value_updates", 1))
        /\ AxisOf(m.outputs, "value_updates", 2) \in Nat
        /\ SizeFits(E(d["K"]), AxisOf(m.outputs, "value_updates", 2))
        /\ AxisOf(m.outputs, "value_updates", 3) \in Nat
        /\ SizeFits(E(1), AxisOf(m.outputs, "value_updates", 3))
        /\ AxisOf(m.outputs, "value_updates", 4) \in Nat
        /\ SizeFits(E(1), AxisOf(m.outputs, "value_updates", 4))
    <3>1. FeatureHolds(F("value_updates", "f16", <<E(1), E(d["K"]), E(1), E(1)>>), m.outputs)
      BY <1>4 DEF g3
    <3>2. /\ E(1).kind # "range" /\ E(d["K"]).kind # "range" /\ E(1).kind # "range"
          /\ E(1).kind # "range"
      BY Sizes1, Zenon
    <3>3. QED
      BY <1>3, <3>1, <3>2, Fixed4, Zenon
  <2>2. /\ AxisOf(m.outputs, "value_updates", 1) = 1
        /\ AxisOf(m.outputs, "value_updates", 2) = d["K"]
        /\ AxisOf(m.outputs, "value_updates", 3) = 1 /\ AxisOf(m.outputs, "value_updates", 4) = 1
    BY <2>1, Sizes1
  <2>3. QED
    BY <2>1, <2>2, Zenon DEF OutputDim
<1>15. /\ FeatureIs(m.outputs, "alignment", "f16", <<1, d["A"]>>)
      /\ AxisOf(m.outputs, "alignment", 1) = 1 /\ AxisOf(m.outputs, "alignment", 2) = d["A"]
  <2>1. /\ FeatureIs(m.outputs, "alignment", "f16",
                     <<AxisOf(m.outputs, "alignment", 1), AxisOf(m.outputs, "alignment", 2)>>)
        /\ AxisOf(m.outputs, "alignment", 1) \in Nat
        /\ SizeFits(E(1), AxisOf(m.outputs, "alignment", 1))
        /\ AxisOf(m.outputs, "alignment", 2) \in Nat
        /\ SizeFits(E(d["A"]), AxisOf(m.outputs, "alignment", 2))
    <3>1. FeatureHolds(F("alignment", "f16", <<E(1), E(d["A"])>>), m.outputs)
      BY <1>4 DEF g4
    <3>2. E(1).kind # "range" /\ E(d["A"]).kind # "range"
      BY Sizes1, Zenon
    <3>3. QED
      BY <1>3, <3>1, <3>2, Fixed2, Zenon
  <2>2. AxisOf(m.outputs, "alignment", 1) = 1 /\ AxisOf(m.outputs, "alignment", 2) = d["A"]
    BY <2>1, Sizes1
  <2>3. QED
    BY <2>1, <2>2, Zenon DEF OutputDim
<1>16. Runs(m, sent)
  <2>1. /\ DOMAIN sent = {"input_ids", "cache_length", "key_cache", "value_cache", "update_mask",
                          "embeds", "padding_mask"}
        /\ sent["input_ids"].type = "i32" /\ sent["input_ids"].shape = <<1>>
        /\ sent["cache_length"].type = "i32" /\ sent["cache_length"].shape = <<1>>
        /\ sent["key_cache"].type = "f16"
        /\ sent["key_cache"].shape = <<1, InputDim(m, "key_cache", 2), 1,
                                       InputDim(m, "key_cache", 4)>>
        /\ sent["value_cache"].type = "f16" /\ sent["value_cache"].shape = <<1, d["K"], 1, d["C"]>>
        /\ sent["update_mask"].type = "f16" /\ sent["update_mask"].shape = <<1, d["C"]>>
        /\ sent["embeds"].type = "f16" /\ sent["embeds"].shape = <<1, d["E"], 1, d["A"]>>
        /\ sent["padding_mask"].type = "f16" /\ sent["padding_mask"].shape = <<1, d["C"]>>
    BY DEF Tensor
  <2> HIDE DEF sent
  <2>2. Taken(m, "input_ids", sent["input_ids"])
    BY <1>5, <2>1, Zenon DEF Taken, Takes, Admits, FeatureIs
  <2>3. Taken(m, "cache_length", sent["cache_length"])
    BY <1>6, <2>1, Zenon DEF Taken, Takes, Admits, FeatureIs
  <2>4. Taken(m, "key_cache", sent["key_cache"])
    BY <1>7, <2>1, Zenon DEF Taken, Takes, Admits, FeatureIs
  <2>5. Taken(m, "value_cache", sent["value_cache"])
    BY <1>8, <2>1, Zenon DEF Taken, Takes, Admits, FeatureIs
  <2>6. Taken(m, "update_mask", sent["update_mask"])
    BY <1>9, <2>1, Zenon DEF Taken, Takes, Admits, FeatureIs
  <2>7. Taken(m, "embeds", sent["embeds"])
    BY <1>10, <2>1, Zenon DEF Taken, Takes, Admits, FeatureIs
  <2>8. Taken(m, "padding_mask", sent["padding_mask"])
    BY <1>11, <2>1, Zenon DEF Taken, Takes, Admits, FeatureIs
  <2>9. \A n \in DOMAIN sent : Taken(m, n, sent[n])
    BY <2>1, <2>2, <2>3, <2>4, <2>5, <2>6, <2>7, <2>8, Zenon
  <2>10. QED
    BY <1>4, <2>1, <2>9, Zenon DEF Runs, Taken
<1>17. Gives(m, wanted)
  <2>1. /\ DOMAIN wanted = {"logits", "key_updates", "value_updates", "alignment"}
        /\ wanted["logits"].type = "f16" /\ wanted["logits"].shape = <<1, 1, Vocab>>
        /\ wanted["key_updates"].type = "f16" /\ wanted["key_updates"].shape = <<1, d["K"], 1, 1>>
        /\ wanted["value_updates"].type = "f16"
        /\ wanted["value_updates"].shape = <<1, d["K"], 1, 1>>
        /\ wanted["alignment"].type = "f16" /\ wanted["alignment"].shape = <<1, d["A"]>>
    BY DEF Tensor
  <2> HIDE DEF wanted
  <2>2. "f16" # "none"
    OBVIOUS
  <2>3. QED
    BY <1>4, <1>12, <1>13, <1>14, <1>15, <2>1, <2>2, Zenon DEF Gives
<1>18. QED
  BY <1>5, <1>6, <1>7, <1>8, <1>9, <1>10, <1>11, <1>12, <1>13, <1>14, <1>15, <1>16, <1>17,
     Zenon DEF InputDim, OutputDim

\* A thing and three more.
LEMMA Foremost ==
  ASSUME NEW a, NEW b, NEW c, NEW d
  PROVE  <<a>> \o <<b, c, d>> = <<a, b, c, d>>
<1> DEFINE T == {a, b, c, d}
           s == <<a>>
           t == <<b, c, d>>
           u == <<a, b, c, d>>
<1>1. /\ s \in Seq(T) /\ Len(s) = 1 /\ s[1] = a
      /\ t \in Seq(T) /\ Len(t) = 3 /\ t[1] = b /\ t[2] = c /\ t[3] = d
      /\ u \in Seq(T) /\ Len(u) = 4 /\ u[1] = a /\ u[2] = b /\ u[3] = c /\ u[4] = d
  OBVIOUS
<1> HIDE DEF T, s, t, u
<1>2. /\ s \o t \in Seq(T) /\ Len(s \o t) = 4
      /\ (s \o t)[1] = a /\ (s \o t)[2] = b /\ (s \o t)[3] = c /\ (s \o t)[4] = d
  <2>1. /\ s \o t \in Seq(T) /\ Len(s \o t) = Len(s) + Len(t)
        /\ \A i \in 1 .. Len(s) : (s \o t)[i] = s[i]
        /\ \A i \in (Len(s) + 1) .. (Len(s) + Len(t)) : (s \o t)[i] = t[i - Len(s)]
    BY <1>1, ConcatenationFacts, Zenon
  <2>2. /\ 1 \in 1 .. Len(s) /\ Len(s) + Len(t) = 4
        /\ 2 \in (Len(s) + 1) .. (Len(s) + Len(t)) /\ 2 - Len(s) = 1
        /\ 3 \in (Len(s) + 1) .. (Len(s) + Len(t)) /\ 3 - Len(s) = 2
        /\ 4 \in (Len(s) + 1) .. (Len(s) + Len(t)) /\ 4 - Len(s) = 3
    BY <1>1
  <2>3. /\ (s \o t)[1] = s[1] /\ (s \o t)[2] = t[2 - Len(s)]
        /\ (s \o t)[3] = t[3 - Len(s)] /\ (s \o t)[4] = t[4 - Len(s)]
    BY <2>1, <2>2, Zenon
  <2>4. QED
    BY <1>1, <2>1, <2>2, <2>3, Zenon
<1>3. \A i \in 1 .. 4 : (s \o t)[i] = u[i]
  BY <1>1, <1>2
<1>4. s \o t = u
  BY <1>1, <1>2, <1>3
<1>5. QED
  BY <1>4 DEF s, t, u

\* The language model's graph is flexible along its frames: it takes every
\* count in the range its contract names, and no door sends another.
LEMMA LidAnswers ==
  ASSUME NEW m, Described(m), CheckLoadContract(m, LidContract) = "ok"
  PROVE  /\ \A k \in MinFrames .. MaxFrames : Runs(m,
                                                   [mel_features |-> Tensor("f32",
                                                                            <<1, k, LidMels>>)])
         /\ Gives(m, [log_probabilities |-> Tensor("f32", <<1, NumLanguages>>)])
<1> DEFINE ds == <<E(1), RangeDim(MinFrames, MaxFrames), E(LidMels)>>
           f1 == F("mel_features", "f32", ds)
           g1 == F("log_probabilities", "f32", <<E(1), E(NumLanguages)>>)
           wanted == [log_probabilities |-> Tensor("f32", <<1, NumLanguages>>)]
           info == m.inputs["mel_features"]
<1>1. CheckLoadContract(m, Contract(<<f1>>, <<g1>>)) = "ok"
  BY DEF LidContract
<1>2. /\ f1.name = "mel_features" /\ g1.name = "log_probabilities"
      /\ f1.dims = ds /\ f1.type = "f32"
  BY DEF F, FeatureContract
<1>3. /\ \A n \in DOMAIN m.inputs : DescribedFeature(m.inputs[n])
      /\ \A n \in DOMAIN m.outputs : DescribedFeature(m.outputs[n])
  BY Zenon DEF Described
<1> HIDE DEF f1, g1
<1>4. /\ m.states = {}
      /\ \A n \in DOMAIN m.inputs : m.inputs[n].optional \/ n = "mel_features"
      /\ FeatureHolds(f1, m.inputs) /\ FeatureHolds(g1, m.outputs)
      /\ ~m.outputs["log_probabilities"].optional
  <2>1. /\ m.states = {} /\ \A n \in DOMAIN m.inputs : m.inputs[n].optional \/ n \in {f1.name}
        /\ FeatureHolds(f1, m.inputs) /\ FeatureHolds(g1, m.outputs) /\ ~m.outputs[g1.name].optional
    BY <1>1, Clauses11
  <2>2. QED
    BY <1>2, <2>1, Zenon
<1>5. /\ DOMAIN ds = 1 .. 3 /\ Len(ds) = 3
      /\ ds[1] = E(1) /\ ds[2] = RangeDim(MinFrames, MaxFrames) /\ ds[3] = E(LidMels)
  OBVIOUS
<1> HIDE DEF ds
<1>6. /\ "mel_features" \in DOMAIN m.inputs /\ info.type = "f32"
      /\ Len(info.shape) = 3 /\ info.shape \in Seq(Nat)
      /\ DOMAIN info.ranges \subseteq DOMAIN info.shape
      /\ info.verdict = RequiredVerdict(f1)
      /\ \A a \in DOMAIN ds : AxisHolds(ds[a], info.ranges, a)
  BY <1>2, <1>3, <1>4, <1>5, Zenon DEF FeatureHolds, DescribedFeature
<1>7. info.verdict = "range"
  <2>1. 2 \in DOMAIN ds /\ ds[2].kind = "range"
    BY <1>5 DEF RangeDim
  <2>2. QED
    BY <1>2, <1>6, <2>1, Zenon DEF RequiredVerdict
<1>8. /\ DOMAIN info.ranges = 1 .. 3
      /\ info.ranges[1] = AxisRange(1, 1)
      /\ info.ranges[2] = AxisRange(MinFrames, MaxFrames - MinFrames + 1)
      /\ info.ranges[3] = AxisRange(LidMels, 1)
  <2>1. 1 \in DOMAIN ds /\ 2 \in DOMAIN ds /\ 3 \in DOMAIN ds
    BY <1>5
  <2>2. /\ AxisHolds(E(1), info.ranges, 1)
        /\ AxisHolds(RangeDim(MinFrames, MaxFrames), info.ranges, 2)
        /\ AxisHolds(E(LidMels), info.ranges, 3)
    BY <1>5, <1>6, <2>1, Zenon
  <2>3. 1 \in DOMAIN info.ranges /\ info.ranges[1] = AxisRange(1, 1)
    BY <2>2 DEF AxisHolds, E, Exactly
  <2>4. 2 \in DOMAIN info.ranges /\ info.ranges[2] = AxisRange(MinFrames, MaxFrames - MinFrames + 1)
    BY <2>2 DEF AxisHolds, RangeDim
  <2>5. 3 \in DOMAIN info.ranges /\ info.ranges[3] = AxisRange(LidMels, 1)
    BY <2>2 DEF AxisHolds, E, Exactly
  <2>6. DOMAIN info.shape = 1 .. 3
    BY <1>6
  <2>7. QED
    BY <1>6, <2>3, <2>4, <2>5, <2>6
<1>9. ASSUME NEW k \in MinFrames .. MaxFrames
      PROVE  Runs(m, [mel_features |-> Tensor("f32", <<1, k, LidMels>>)])
  <2> DEFINE shape == <<1, k, LidMels>>
             sent == [mel_features |-> Tensor("f32", shape)]
  <2>1. /\ DOMAIN sent = {"mel_features"} /\ sent["mel_features"].type = "f32"
        /\ sent["mel_features"].shape = shape
    BY DEF Tensor
  <2>2. DOMAIN shape = 1 .. 3 /\ shape[1] = 1 /\ shape[2] = k /\ shape[3] = LidMels
    OBVIOUS
  <2>3. /\ 1 \in AxisRange(1, 1).min .. AxisRange(1, 1).min + AxisRange(1, 1).count - 1
        /\ k \in AxisRange(MinFrames, MaxFrames - MinFrames + 1).min ..
                   AxisRange(MinFrames, MaxFrames - MinFrames + 1).min
                     + AxisRange(MinFrames, MaxFrames - MinFrames + 1).count - 1
        /\ LidMels \in AxisRange(LidMels, 1).min .. AxisRange(LidMels, 1).min + AxisRange(LidMels,
                                                                                          1).count - 1
    BY DEF AxisRange, MinFrames, MaxFrames, LidMels
  <2> HIDE DEF shape, sent
  <2>4. \A a \in DOMAIN shape :
          shape[a] \in info.ranges[a].min .. info.ranges[a].min + info.ranges[a].count - 1
    <3>1. \A a \in 1 .. 3 : a = 1 \/ a = 2 \/ a = 3
      OBVIOUS
    <3>2. QED
      BY <1>8, <2>2, <2>3, <3>1, Zenon
  <2>5. Admits(info, shape)
    BY <1>7, <1>8, <2>2, <2>4 DEF Admits
  <2>6. Runs(m, sent)
    BY <1>4, <1>6, <2>1, <2>5, Zenon DEF Runs, Takes
  <2>7. QED
    BY <2>6 DEF sent, shape
<1>10. FeatureIs(m.outputs, "log_probabilities", "f32", <<1, NumLanguages>>)
  <2>1. /\ FeatureIs(m.outputs, "log_probabilities", "f32",
                     <<AxisOf(m.outputs, "log_probabilities", 1),
                       AxisOf(m.outputs, "log_probabilities", 2)>>)
        /\ SizeFits(E(1), AxisOf(m.outputs, "log_probabilities", 1))
        /\ SizeFits(E(NumLanguages), AxisOf(m.outputs, "log_probabilities", 2))
    <3>1. FeatureHolds(F("log_probabilities", "f32", <<E(1), E(NumLanguages)>>), m.outputs)
      BY <1>4 DEF g1
    <3>2. E(1).kind # "range" /\ E(NumLanguages).kind # "range"
      BY Sizes1, Zenon
    <3>3. QED
      BY <1>3, <3>1, <3>2, Fixed2, Zenon
  <2>2. QED
    BY <2>1, Sizes1, Zenon
<1>11. Gives(m, wanted)
  <2>1. /\ DOMAIN wanted = {"log_probabilities"} /\ wanted["log_probabilities"].type = "f32"
        /\ wanted["log_probabilities"].shape = <<1, NumLanguages>>
    BY DEF Tensor
  <2> HIDE DEF wanted
  <2>2. "f32" # "none"
    OBVIOUS
  <2>3. QED
    BY <1>4, <1>10, <2>1, <2>2, Zenon DEF Gives
<1>12. QED
  BY <1>9, <1>11

\* The face graph takes a batch as its form says and gives a row per face.
LEMMA FaceAnswers ==
  ASSUME NEW m, Described(m), NEW d, CheckLoadContract(m, FaceContract(d)) = "ok",
         d["axes"] = 1 => d["batch"] = InputDim(m, "face", 1)
  PROVE  /\ Runs(m, [face |-> Tensor("f32", (IF d["axes"] = 1 THEN <<d["batch"]>> ELSE <<>>)
                                              \o <<3, FaceSide, FaceSide>>)])
         /\ Gives(m,
                  [features |-> Tensor("f32",
                                       IF d["rows"] = 1 THEN <<Width>> ELSE <<d["batch"], Width>>)])
<1> DEFINE dims1 == (IF d["axes"] = 1 THEN <<AnyFixed>> ELSE <<>>) \o <<E(3), E(FaceSide),
                                                                        E(FaceSide)>>
           shape1 == (IF d["axes"] = 1 THEN <<d["batch"]>> ELSE <<>>) \o <<3, FaceSide, FaceSide>>
           dims2 == IF d["rows"] = 1 THEN <<E(Width)>> ELSE <<E(d["batch"]), E(Width)>>
           shape2 == IF d["rows"] = 1 THEN <<Width>> ELSE <<d["batch"], Width>>
           f1 == F("face", "f32", dims1)
           g1 == F("features", "f32", dims2)
           sent == [face |-> Tensor("f32", shape1)]
           wanted == [features |-> Tensor("f32", shape2)]
<1>1. CheckLoadContract(m, Contract(<<f1>>, <<g1>>)) = "ok"
  BY DEF FaceContract
<1>2. f1.name = "face" /\ g1.name = "features"
  BY DEF F, FeatureContract
<1>3. /\ \A n \in DOMAIN m.inputs : DescribedFeature(m.inputs[n])
      /\ \A n \in DOMAIN m.outputs : DescribedFeature(m.outputs[n])
  BY Zenon DEF Described
<1> HIDE DEF f1, g1, dims1, dims2, shape1, shape2
<1>4. /\ m.states = {}
      /\ \A n \in DOMAIN m.inputs : m.inputs[n].optional \/ n = "face"
      /\ FeatureHolds(f1, m.inputs) /\ FeatureHolds(g1, m.outputs)
      /\ ~m.outputs["features"].optional
  <2>1. /\ m.states = {} /\ \A n \in DOMAIN m.inputs : m.inputs[n].optional \/ n \in {f1.name}
        /\ FeatureHolds(f1, m.inputs) /\ FeatureHolds(g1, m.outputs) /\ ~m.outputs[g1.name].optional
    BY <1>1, Clauses11
  <2>2. QED
    BY <1>2, <2>1, Zenon
<1>5. /\ FeatureHolds(F("face", "f32", dims1), m.inputs)
      /\ FeatureHolds(F("features", "f32", dims2), m.outputs)
  BY <1>4 DEF f1, g1
<1>6. FeatureIs(m.inputs, "face", "f32", shape1)
  <2> DEFINE a(i) == AxisOf(m.inputs, "face", i)
  <2>0. E(3).kind # "range" /\ E(FaceSide).kind # "range" /\ AnyFixed.kind # "range"
    BY Sizes1, Zenon
  <2>1. CASE d["axes"] = 1
    <3>1. /\ dims1 = <<AnyFixed, E(3), E(FaceSide), E(FaceSide)>>
          /\ shape1 = <<d["batch"], 3, FaceSide, FaceSide>>
      <4>1. \A p, q, r, s : <<p>> \o <<q, r, s>> = <<p, q, r, s>>
        BY Foremost, Zenon
      <4>2. QED
        BY <2>1, <4>1, Zenon DEF dims1, shape1
    <3>2. FeatureHolds(F("face", "f32", <<AnyFixed, E(3), E(FaceSide), E(FaceSide)>>), m.inputs)
      BY <1>5, <3>1, Zenon
    <3>3. /\ FeatureIs(m.inputs, "face", "f32", <<a(1), a(2), a(3), a(4)>>)
          /\ SizeFits(E(3), a(2)) /\ SizeFits(E(FaceSide), a(3)) /\ SizeFits(E(FaceSide), a(4))
      BY <1>3, <2>0, <3>2, Fixed4, Zenon
    <3>4. a(1) = d["batch"] /\ a(2) = 3 /\ a(3) = FaceSide /\ a(4) = FaceSide
      BY <2>1, <3>3, Sizes1, Zenon DEF InputDim
    <3>5. QED
      BY <3>1, <3>3, <3>4, Zenon
  <2>2. CASE d["axes"] # 1
    <3>1. dims1 = <<E(3), E(FaceSide), E(FaceSide)>> /\ shape1 = <<3, FaceSide, FaceSide>>
      BY <2>2 DEF dims1, shape1
    <3>2. FeatureHolds(F("face", "f32", <<E(3), E(FaceSide), E(FaceSide)>>), m.inputs)
      BY <1>5, <3>1, Zenon
    <3>3. /\ FeatureIs(m.inputs, "face", "f32", <<a(1), a(2), a(3)>>)
          /\ SizeFits(E(3), a(1)) /\ SizeFits(E(FaceSide), a(2)) /\ SizeFits(E(FaceSide), a(3))
      BY <1>3, <2>0, <3>2, Fixed3, Zenon
    <3>4. a(1) = 3 /\ a(2) = FaceSide /\ a(3) = FaceSide
      BY <3>3, Sizes1, Zenon
    <3>5. QED
      BY <3>1, <3>3, <3>4, Zenon
  <2>3. QED
    BY <2>1, <2>2
<1>7. FeatureIs(m.outputs, "features", "f32", shape2)
  <2> DEFINE a(i) == AxisOf(m.outputs, "features", i)
  <2>0. \A n : E(n).kind # "range"
    BY Sizes1, Zenon
  <2>1. CASE d["rows"] = 1
    <3>1. FeatureHolds(F("features", "f32", <<E(Width)>>), m.outputs) /\ shape2 = <<Width>>
      BY <1>5, <2>1, Zenon DEF dims2, shape2
    <3>2. FeatureIs(m.outputs, "features", "f32", <<a(1)>>) /\ SizeFits(E(Width), a(1))
      BY <1>3, <2>0, <3>1, Fixed1, Zenon
    <3>3. QED
      BY <3>1, <3>2, Sizes1, Zenon
  <2>2. CASE d["rows"] # 1
    <3>1. /\ FeatureHolds(F("features", "f32", <<E(d["batch"]), E(Width)>>), m.outputs)
          /\ shape2 = <<d["batch"], Width>>
      BY <1>5, <2>2, Zenon DEF dims2, shape2
    <3>2. /\ FeatureIs(m.outputs, "features", "f32", <<a(1), a(2)>>)
          /\ SizeFits(E(d["batch"]), a(1)) /\ SizeFits(E(Width), a(2))
      BY <1>3, <2>0, <3>1, Fixed2, Zenon
    <3>3. a(1) = d["batch"] /\ a(2) = Width
      BY <3>2, Sizes1, Zenon
    <3>4. QED
      BY <3>1, <3>2, <3>3, Zenon
  <2>3. QED
    BY <2>1, <2>2
<1>8. Runs(m, sent)
  <2>1. DOMAIN sent = {"face"} /\ sent["face"].type = "f32" /\ sent["face"].shape = shape1
    BY DEF Tensor
  <2> HIDE DEF sent
  <2>2. QED
    BY <1>4, <1>6, <2>1, Zenon DEF Runs, Takes, Admits, FeatureIs
<1>9. Gives(m, wanted)
  <2>1. /\ DOMAIN wanted = {"features"} /\ wanted["features"].type = "f32"
        /\ wanted["features"].shape = shape2
    BY DEF Tensor
  <2> HIDE DEF wanted
  <2>2. "f32" # "none"
    OBVIOUS
  <2>3. QED
    BY <1>4, <1>7, <2>1, <2>2, Zenon DEF Gives
<1>10. QED
  BY <1>8, <1>9 DEF shape1, shape2

-----------------------------------------------------------------------------
(* Opening. *)

\* What is read of several sets of numbers, the first before the second.
LEMMA JoinedNumbers ==
  ASSUME NEW f, NEW g
  PROVE  /\ DOMAIN (f ++ g) = DOMAIN f \cup DOMAIN g
         /\ \A x \in DOMAIN f : (f ++ g)[x] = f[x]
         /\ \A x \in DOMAIN g \ DOMAIN f : (f ++ g)[x] = g[x]
BY Zenon DEF ++

\* What is known of the parts of whisper once each has passed its check, in the
\* numbers read off them.
MelKnown ==
  /\ {"S", "M", "T"} \subseteq DOMAIN dims
  /\ Runs(models["mel"], [audio |-> Tensor("f32", <<dims["S"]>>)])
  /\ Gives(models["mel"], [mel |-> Tensor("f16", <<1, dims["M"], 1, dims["T"]>>)])
EncoderKnown ==
  /\ {"E", "A"} \subseteq DOMAIN dims
  /\ Runs(models["encoder"], [mel |-> Tensor("f16", <<1, dims["M"], 1, dims["T"]>>)])
  /\ Gives(models["encoder"], [embeds |-> Tensor("f16", <<1, dims["E"], 1, dims["A"]>>)])
DecoderKnown ==
  /\ Runs(models["decoder"],
          [input_ids |-> Tensor("i32", <<1>>), cache_length |-> Tensor("i32", <<1>>),
           key_cache |-> Tensor("f16", <<1, dims["K"], 1, dims["C"]>>),
           value_cache |-> Tensor("f16", <<1, dims["K"], 1, dims["C"]>>),
           update_mask |-> Tensor("f16", <<1, dims["C"]>>),
           embeds |-> Tensor("f16", <<1, dims["E"], 1, dims["A"]>>),
           padding_mask |-> Tensor("f16", <<1, dims["C"]>>)])
  /\ Gives(models["decoder"],
           [logits |-> Tensor("f16", <<1, 1, Vocab>>),
            key_updates |-> Tensor("f16", <<1, dims["K"], 1, 1>>),
            value_updates |-> Tensor("f16", <<1, dims["K"], 1, 1>>)]
           ++ IF dims["heads"] = 1 THEN [alignment |-> Tensor("f16", <<1, dims["A"]>>)] ELSE <<>>)
  /\ dims["C"] \in Nat /\ dims["C"] >= MaxTokenContext

\* What is known of the one model of any other door.
ModelKnown ==
  /\ Gives(models["model"], ModelRead)
  /\ door \notin {"lid", "siglip_image"} => Runs(models["model"], ModelSent)
  /\ door = "lid" =>
       \A k \in MinFrames .. MaxFrames :
         Runs(models["model"], [mel_features |-> Tensor("f32", <<1, k, LidMels>>)])
  /\ door = "siglip_image" =>
       Runs(models["model"], [pixel_values |-> Tensor("f32", <<1, dims["P"], PatchDim>>),
                              position_embeddings |-> Tensor("f32", <<1, dims["P"], PatchDim>>),
                              attention_mask |-> Tensor("f32", <<1, dims["P"]>>)])
  /\ door = "siglip_text" => dims["tokens"] \in Nat /\ SpecialTokens < dims["tokens"]
  /\ door = "align" => /\ dims["window"] \in Nat /\ dims["window"] >= Receptive
                       /\ dims["frames"] = Frames(dims["window"])
  /\ door = "face" => dims["batch"] \in Nat \ {0}

Opened ==
  /\ door = "whisper" => MelKnown /\ EncoderKnown /\ DecoderKnown
  /\ door # "whisper" => ModelKnown
Opening ==
  /\ turn \in DOMAIN Parts(door)
  /\ door = "whisper" => /\ turn > 1 => MelKnown
                         /\ turn > 2 => EncoderKnown
Stages == {"opening", "refused", "open", "predicting"}
OpeningInv ==
  /\ door \in DOMAIN Loadable /\ models \in Loadable[door]
  /\ stage \in Stages
  /\ stage = "opening" => Opening
  /\ stage \in {"open", "predicting"} => Opened

\* A part that is passed has passed its contract over the numbers read until
\* then, none of which was missing, and what the door checks after it.
LEMMA PartPassed ==
  ASSUME OpeningInv, OpenPart, stage' # "refused"
  PROVE  LET piece == Parts(door)[turn]
             early == EarlyRead(piece, models[piece])
             d == early ++ dims
             all == ReadBack(piece, models[piece]) ++ d
         IN /\ Described(models[piece])
            /\ CheckLoadContract(models[piece], ContractOf(piece, d)) = "ok"
            /\ \A n \in DOMAIN early : early[n] # Absent
            /\ Afterwards(all) = "ok"
            /\ dims' = all
            /\ UNCHANGED <<door, models, call, answer, embeddings>>
            /\ IF turn = Len(Parts(door)) THEN stage' = "open" /\ turn' = 0
               ELSE stage' = "opening" /\ turn' = turn + 1
<1> DEFINE piece == Parts(door)[turn]
           early == EarlyRead(piece, models[piece])
           d == early ++ dims
           all == ReadBack(piece, models[piece]) ++ d
<1>1. Described(models[piece])
  <2>1. stage = "opening" /\ turn \in DOMAIN Parts(door)
    BY Zenon DEF OpeningInv, OpenPart, Opening
  <2>2. QED
    BY <2>1, DoorsAssumption, Zenon DEF OpeningInv, DoorsAssumption
<1>2. \A why : Refuse(why) => stage' = "refused"
  BY DEF Refuse
<1>3. /\ CheckLoadContract(models[piece], ContractOf(piece, d)) = "ok"
      /\ \A n \in DOMAIN early : early[n] # Absent
      /\ Afterwards(all) = "ok"
      /\ dims' = all
      /\ UNCHANGED <<door, models, call, answer, embeddings>>
      /\ IF turn = Len(Parts(door)) THEN stage' = "open" /\ turn' = 0
         ELSE stage' = stage /\ turn' = turn + 1
  BY <1>2, Zenon DEF OpenPart
<1>4. stage = "opening"
  BY DEF OpenPart
<1>5. QED
  BY <1>1, <1>3, <1>4, Zenon

\* What one whole model that passed gives its door.
LEMMA ModelPassed ==
  ASSUME OpeningInv, OpenPart, stage' # "refused", door # "whisper"
  PROVE  LET m == models["model"]
             early == EarlyRead("model", m)
             d == early ++ dims
         IN /\ stage' = "open" /\ Described(m)
            /\ CheckLoadContract(m, ContractOf("model", d)) = "ok"
            /\ \A n \in DOMAIN early : early[n] # Absent
            /\ dims' = ReadBack("model", m) ++ d
            /\ Afterwards(dims') = "ok"
            /\ UNCHANGED <<door, models, call, answer, embeddings>>
<1>1. Parts(door) = <<"model">>
  BY DEF Parts
<1>2. turn \in DOMAIN Parts(door)
  BY Zenon DEF OpeningInv, OpenPart, Opening
<1>3. turn = 1 /\ Parts(door)[turn] = "model" /\ Len(Parts(door)) = 1
  BY <1>1, <1>2
<1>4. QED
  BY <1>3, PartPassed, Zenon

\* Each door that is no whisper knows its model when it opens.
LEMMA OpensKnowing ==
  ASSUME OpeningInv, OpenPart, stage' # "refused", door # "whisper"
  PROVE  stage' = "open" /\ ModelKnown'
<1> DEFINE m == models["model"]
           early == EarlyRead("model", m)
           d == early ++ dims
           back == ReadBack("model", m)
<1>1. /\ stage' = "open" /\ Described(m)
      /\ CheckLoadContract(m, ContractOf("model", d)) = "ok"
      /\ \A n \in DOMAIN early : early[n] # Absent
      /\ dims' = back ++ d
      /\ Afterwards(dims') = "ok"
      /\ door' = door /\ models' = models
  BY ModelPassed, Zenon
<1>2. /\ DOMAIN (early ++ dims) = DOMAIN early \cup DOMAIN dims
      /\ \A x \in DOMAIN early : d[x] = early[x]
      /\ DOMAIN (back ++ d) = DOMAIN back \cup DOMAIN d
      /\ \A x \in DOMAIN back : dims'[x] = back[x]
      /\ \A x \in DOMAIN d \ DOMAIN back : dims'[x] = d[x]
  <2>1. /\ DOMAIN (early ++ dims) = DOMAIN early \cup DOMAIN dims
        /\ \A x \in DOMAIN early : (early ++ dims)[x] = early[x]
    BY JoinedNumbers, Zenon
  <2> HIDE DEF early, back
  <2>2. ASSUME NEW g
        PROVE  /\ DOMAIN (back ++ g) = DOMAIN back \cup DOMAIN g
               /\ \A x \in DOMAIN back : (back ++ g)[x] = back[x]
               /\ \A x \in DOMAIN g \ DOMAIN back : (back ++ g)[x] = g[x]
    BY JoinedNumbers, Zenon
  <2>3. /\ DOMAIN (back ++ d) = DOMAIN back \cup DOMAIN d
        /\ \A x \in DOMAIN back : (back ++ d)[x] = back[x]
        /\ \A x \in DOMAIN d \ DOMAIN back : (back ++ d)[x] = d[x]
    BY <2>2
  <2>4. QED
    BY <1>1, <2>1, <2>3
<1>3. door \in DoorNames
  BY DoorsAssumption, Zenon DEF OpeningInv, DoorsAssumption
<1>10. CASE door = "identity"
  <2>1. ContractOf("model", d) = IdentityContract
    BY <1>10 DEF ContractOf
  <2>2. /\ ModelSent' = [mel |-> Tensor("f32", <<1, IdentityMels, IdentityFrames>>)]
        /\ ModelRead' = [embedding |-> Tensor("f32", <<1, IdentityDim>>)]
    BY <1>1, <1>10 DEF ModelSent, ModelRead
  <2>3. QED
    BY <1>1, <1>10, <2>1, <2>2, IdentityAnswers DEF ModelKnown
<1>11. CASE door = "ced"
  <2>1. ContractOf("model", d) = CedContract
    BY <1>11 DEF ContractOf
  <2>2. /\ ModelSent' = [mel |-> Tensor("f32", <<1, CedMels, CedFrames>>)]
        /\ ModelRead' = [logits |-> Tensor("f32", <<1, NumClasses>>)]
    BY <1>1, <1>11 DEF ModelSent, ModelRead
  <2>3. QED
    BY <1>1, <1>11, <2>1, <2>2, CedAnswers DEF ModelKnown
<1>12. CASE door = "segment"
  <2>1. ContractOf("model", d) = SegmentContract
    BY <1>12 DEF ContractOf
  <2>2. dims'["frames"] = OutputDim(m, "segments", 2)
    <3>1. back = [frames |-> OutputDim(m, "segments", 2)]
      BY <1>12 DEF ReadBack
    <3>2. QED
      BY <1>2, <3>1
  <2>3. /\ ModelSent' = [audio |-> Tensor("f32", <<1, 1, SegmentSamples>>)]
        /\ ModelRead' = [segments |-> Tensor("f32",
                                             <<1, OutputDim(m, "segments", 2), PowersetClasses>>)]
    BY <1>1, <1>12, <2>2 DEF ModelSent, ModelRead
  <2>4. QED
    BY <1>1, <1>12, <2>1, <2>3, SegmentAnswers DEF ModelKnown
<1>13. CASE door = "embed"
  <2>1. ContractOf("model", d) = EmbedContract
    BY <1>13 DEF ContractOf
  <2>2. dims'["frames"] = InputDim(m, "mask", 2)
    <3>1. back = [frames |-> InputDim(m, "mask", 2)]
      BY <1>13 DEF ReadBack
    <3>2. QED
      BY <1>2, <3>1
  <2>3. /\ ModelSent' = [waveform |-> Tensor("f32", <<EmbedSlots, SegmentSamples>>),
                         mask |-> Tensor("f32", <<EmbedSlots, InputDim(m, "mask", 2)>>)]
        /\ ModelRead' = [embedding |-> Tensor("f32", <<EmbedSlots, SpeakerDim>>)]
    BY <1>1, <1>13, <2>2 DEF ModelSent, EmbedSent, ModelRead
  <2>4. QED
    BY <1>1, <1>13, <2>1, <2>3, EmbedAnswers DEF ModelKnown
<1>14. CASE door = "align"
  <2>1. ContractOf("model", d) = AlignContract
    BY <1>14 DEF ContractOf
  <2>2. /\ dims'["window"] = InputDim(m, "waveform", 2)
        /\ dims'["frames"] = OutputDim(m, "emissions", 2)
        /\ dims'["width"] = OutputDim(m, "emissions", 3)
    <3>1. back = [window |-> InputDim(m, "waveform", 2), frames |-> OutputDim(m, "emissions", 2),
                  width |-> OutputDim(m, "emissions", 3)]
      BY <1>14 DEF ReadBack
    <3>2. QED
      BY <1>2, <3>1
  <2>3. /\ ModelSent' = [waveform |-> Tensor("f32", <<1, InputDim(m, "waveform", 2)>>)]
        /\ ModelRead' = [emissions |-> Tensor("f32",
                                              <<1, OutputDim(m, "emissions", 2),
                                                OutputDim(m, "emissions", 3)>>)]
    BY <1>1, <1>14, <2>2 DEF ModelSent, ModelRead
  <2>4. dims'["frames"] = Frames(dims'["window"])
    BY <1>1, <1>14 DEF Afterwards
  <2>5. QED
    BY <1>1, <1>14, <2>1, <2>2, <2>3, <2>4, AlignAnswers DEF ModelKnown
<1>15. CASE door = "clap_audio"
  <2>1. ContractOf("model", d) = ClapAudioContract
    BY <1>15 DEF ContractOf
  <2>2. /\ ModelSent' = [input_features |-> Tensor("f32", <<1, 1, ClapFrames, ClapMels>>)]
        /\ ModelRead' = [audio_embeds |-> Tensor("f32", <<1, ClapDim>>)]
    BY <1>1, <1>15 DEF ModelSent, ModelRead
  <2>3. QED
    BY <1>1, <1>15, <2>1, <2>2, ClapAudioAnswers DEF ModelKnown
<1>16. CASE door = "clap_text"
  <2>1. ContractOf("model", d) = ClapTextContract
    BY <1>16 DEF ContractOf
  <2>2. /\ ModelSent' = [input_ids |-> Tensor("i32", <<1, TextMaxTokens>>),
                         attention_mask |-> Tensor("i32", <<1, TextMaxTokens>>)]
        /\ ModelRead' = [text_embeds |-> Tensor("f32", <<1, ClapDim>>)]
    BY <1>1, <1>16 DEF ModelSent, ClapTextSent, ModelRead
  <2>3. QED
    BY <1>1, <1>16, <2>1, <2>2, ClapTextAnswers DEF ModelKnown
<1>17. CASE door = "siglip_text"
  <2>1. ContractOf("model", d) = SiglipTextContract
    BY <1>17 DEF ContractOf
  <2>2. dims'["tokens"] = InputDim(m, "input_ids", 2)
    <3>1. back = [tokens |-> InputDim(m, "input_ids", 2)]
      BY <1>17 DEF ReadBack
    <3>2. QED
      BY <1>2, <3>1
  <2>3. /\ ModelSent' = [input_ids |-> Tensor("i32", <<1, InputDim(m, "input_ids", 2)>>)]
        /\ ModelRead' = [text_features |-> Tensor("f32", <<1, SiglipDim>>)]
    BY <1>1, <1>17, <2>2 DEF ModelSent, ModelRead
  <2>4. /\ Runs(m, [input_ids |-> Tensor("i32", <<1, InputDim(m, "input_ids", 2)>>)])
        /\ Gives(m, [text_features |-> Tensor("f32", <<1, SiglipDim>>)])
        /\ InputDim(m, "input_ids", 2) \in Nat \ {0}
    BY <1>1, <2>1, SiglipTextAnswers
  <2>5. ~(SpecialTokens >= dims'["tokens"])
    BY <1>1, <1>17 DEF Afterwards
  <2>6. SpecialTokens < dims'["tokens"]
    BY <2>2, <2>4, <2>5, DoorsAssumption DEF DoorsAssumption
  <2>7. QED
    BY <1>1, <1>17, <2>2, <2>3, <2>4, <2>6 DEF ModelKnown
<1>18. CASE door = "face"
  <2>1. ContractOf("model", d) = FaceContract(d)
    BY <1>18 DEF ContractOf
  <2> DEFINE form == IF "face" \in DOMAIN m.inputs THEN InputForm(m.inputs["face"].shape) ELSE InputForm(<<>>)
  <2>2. /\ d["axes"] = form.axes /\ d["batch"] = form.batch /\ form.batch # Absent
        /\ dims'["axes"] = d["axes"] /\ dims'["batch"] = d["batch"] /\ dims'["rows"] = d["rows"]
    <3>1. /\ DOMAIN early = {"axes", "batch", "rows"} /\ early["axes"] = form.axes
          /\ early["batch"] = form.batch
      BY <1>18 DEF EarlyRead
    <3>2. DOMAIN back = {}
      BY <1>18 DEF ReadBack
    <3>3. /\ "axes" \in DOMAIN early /\ "batch" \in DOMAIN early /\ "rows" \in DOMAIN early
          /\ DOMAIN early \subseteq DOMAIN d \ DOMAIN back
      BY <1>2, <3>1, <3>2
    <3> HIDE DEF early, back, d, form
    <3>4. QED
      BY <1>1, <1>2, <3>1, <3>3, Zenon
  <2>3. /\ d["axes"] = 1 => d["batch"] = InputDim(m, "face", 1)
        /\ d["batch"] \in Nat \ {0}
    <3>1. CASE "face" \in DOMAIN m.inputs
      <4>1. m.inputs["face"].shape \in Seq(Nat)
        BY <1>1, <3>1, Zenon DEF Described, DescribedFeature
      <4>2. /\ form = InputForm(m.inputs["face"].shape) /\ form.batch # Absent
        BY <2>2, <3>1
      <4>3. /\ form.axes = 1 => form.batch = m.inputs["face"].shape[1] /\ 1 \in DOMAIN m.inputs["face"].shape
            /\ form.batch \in Nat \ {0}
        BY <4>1, <4>2 DEF InputForm, Absent
      <4>4. QED
        BY <2>2, <3>1, <4>3 DEF InputDim, AxisOf
    <3>2. CASE "face" \notin DOMAIN m.inputs
      <4>1. form.batch = Absent
        BY <3>2 DEF InputForm, Absent
      <4>2. QED
        BY <2>2, <4>1
    <3>3. QED
      BY <3>1, <3>2
  <2>4. /\ Runs(m, [face |-> Tensor("f32", (IF d["axes"] = 1 THEN <<d["batch"]>> ELSE <<>>)
                                             \o <<3, FaceSide, FaceSide>>)])
        /\ Gives(m,
                 [features |-> Tensor("f32",
                                      IF d["rows"] = 1 THEN <<Width>> ELSE <<d["batch"], Width>>)])
    BY <1>1, <2>1, <2>3, FaceAnswers
  <2>5. /\ ModelSent' = [face |-> Tensor("f32", (IF d["axes"] = 1 THEN <<d["batch"]>> ELSE <<>>)
                                                  \o <<3, FaceSide, FaceSide>>)]
        /\ ModelRead' = [features |-> Tensor("f32",
                                             IF d["rows"] = 1 THEN <<Width>> ELSE <<d["batch"],
                                                                                    Width>>)]
    <3> HIDE DEF d
    <3>1. QED
      BY <1>1, <1>18, <2>2 DEF ModelSent, ModelRead, FacesSent, FacesWanted
  <2>6. QED
    BY <1>1, <1>18, <2>2, <2>3, <2>4, <2>5 DEF ModelKnown
<1>19. CASE door = "lid"
  <2>1. ContractOf("model", d) = LidContract
    BY <1>19 DEF ContractOf
  <2>2. ModelRead' = [log_probabilities |-> Tensor("f32", <<1, NumLanguages>>)]
    BY <1>1, <1>19 DEF ModelRead
  <2>3. QED
    BY <1>1, <1>19, <2>1, <2>2, LidAnswers DEF ModelKnown
<1>20. CASE door = "siglip_image"
  <2>1. ContractOf("model", d) = SiglipImageContract(d)
    BY <1>20 DEF ContractOf
  <2>2. dims'["P"] = d["P"] /\ (d["P"] = InputDim(m, "pixel_values", 2))
    <3>1. /\ DOMAIN early = {"P"}
          /\ early["P"] = Absent \/ early["P"] = InputDim(m, "pixel_values", 2)
      BY <1>20 DEF EarlyRead
    <3>2. DOMAIN back = {}
      BY <1>20 DEF ReadBack
    <3>3. "P" \in DOMAIN early /\ "P" \in DOMAIN d \ DOMAIN back
      BY <1>2, <3>1, <3>2
    <3> HIDE DEF early, back, d
    <3>4. QED
      BY <1>1, <1>2, <3>1, <3>3, Zenon
  <2>3. ModelRead' = [image_features |-> Tensor("f32", <<1, SiglipDim>>)]
    BY <1>1, <1>20 DEF ModelRead
  <2>4. /\ Runs(m, [pixel_values |-> Tensor("f32", <<1, InputDim(m, "pixel_values", 2), PatchDim>>),
                    position_embeddings |-> Tensor("f32", <<1, d["P"], PatchDim>>),
                    attention_mask |-> Tensor("f32", <<1, d["P"]>>)])
        /\ Gives(m, [image_features |-> Tensor("f32", <<1, SiglipDim>>)])
    BY <1>1, <2>1, SiglipImageAnswers
  <2>5. QED
    <3> HIDE DEF d
    <3>1. QED
      BY <1>1, <1>20, <2>2, <2>3, <2>4 DEF ModelKnown
<1>21. QED
  BY <1>3, <1>10, <1>11, <1>12, <1>13, <1>14, <1>15, <1>16, <1>17, <1>18, <1>19, <1>20 DEF DoorNames

-----------------------------------------------------------------------------
(* Whisper's three models. *)

\* What is read of a model may be read together, and in part.
LEMMA GivenTogether ==
  ASSUME NEW m, NEW f, NEW g, Gives(m, f), Gives(m, g)
  PROVE  Gives(m, f ++ g)
<1>1. /\ DOMAIN (f ++ g) = DOMAIN f \cup DOMAIN g
      /\ \A x \in DOMAIN f : (f ++ g)[x] = f[x]
      /\ \A x \in DOMAIN g \ DOMAIN f : (f ++ g)[x] = g[x]
  BY JoinedNumbers, Zenon
<1>2. QED
  BY <1>1, Zenon DEF Gives

LEMMA GivenInPart ==
  ASSUME NEW m, NEW f, NEW g, Gives(m, f), DOMAIN g \subseteq DOMAIN f,
         \A n \in DOMAIN g : g[n] = f[n]
  PROVE  Gives(m, g)
BY Zenon DEF Gives

\* A whisper part that is passed has passed its contract over the numbers read
\* before it, and the next is opened.
LEMMA WhisperPassed ==
  ASSUME OpeningInv, OpenPart, stage' # "refused", door = "whisper",
         NEW k \in 1 .. 3, turn = k, NEW p, p = Parts("whisper")[k]
  PROVE  LET m == models[p]
             early == EarlyRead(p, m)
             d == early ++ dims
         IN /\ Described(m)
            /\ CheckLoadContract(m, ContractOf(p, d)) = "ok"
            /\ dims' = ReadBack(p, m) ++ d
            /\ models' = models
            /\ k = 3 => stage' = "open"
            /\ k # 3 => stage' = "opening" /\ turn' = k + 1
<1>1. Len(Parts(door)) = 3 /\ Parts(door)[turn] = p
  BY DEF Parts
<1>2. QED
  BY <1>1, PartPassed, Zenon

\* The parts passed before it are known.
LEMMA PassedBefore ==
  ASSUME OpeningInv, OpenPart, door = "whisper"
  PROVE  turn \in 1 .. 3 /\ (turn > 1 => MelKnown) /\ (turn > 2 => EncoderKnown)
<1>1. Opening
  BY Zenon DEF OpeningInv, OpenPart
<1>2. DOMAIN Parts("whisper") = 1 .. 3
  BY DEF Parts
<1>3. QED
  BY <1>1, <1>2, Zenon DEF Opening

LEMMA WhisperParts ==
  /\ Parts("whisper")[1] = "mel" /\ Parts("whisper")[2] = "encoder"
  /\ Parts("whisper")[3] = "decoder"
  /\ 1 \in 1 .. 3 /\ 2 \in 1 .. 3 /\ 3 \in 1 .. 3
  /\ 1 # 3 /\ 2 # 3 /\ 2 > 1 /\ 3 > 1 /\ 3 > 2 /\ 1 + 1 = 2 /\ 2 + 1 = 3
BY DEF Parts

\* The numbers read of the mel model are there, and what was read of it stays.
LEMMA MelStays ==
  ASSUME MelKnown, models' = models, {"S", "M", "T"} \subseteq DOMAIN dims',
         dims'["S"] = dims["S"], dims'["M"] = dims["M"], dims'["T"] = dims["T"]
  PROVE  MelKnown'
BY Zenon DEF MelKnown

LEMMA EncoderStays ==
  ASSUME EncoderKnown, models' = models, {"E", "A"} \subseteq DOMAIN dims',
         dims'["M"] = dims["M"], dims'["T"] = dims["T"],
         dims'["E"] = dims["E"], dims'["A"] = dims["A"]
  PROVE  EncoderKnown'
BY Zenon DEF EncoderKnown

\* Each part of whisper is known once it is passed, in numbers that no later
\* part changes.
LEMMA MelOpens ==
  ASSUME OpeningInv, OpenPart, stage' # "refused", door = "whisper", turn = 1
  PROVE  stage' = "opening" /\ turn' = 2 /\ MelKnown'
<1> DEFINE m == models["mel"]
           d == EarlyRead("mel", m) ++ dims
           back == ReadBack("mel", m)
<1>1. /\ Described(m)
      /\ CheckLoadContract(m, ContractOf("mel", d)) = "ok"
      /\ dims' = back ++ d
      /\ models' = models /\ stage' = "opening" /\ turn' = 1 + 1
  BY WhisperPassed, WhisperParts, Zenon
<1>2. ContractOf("mel", d) = MelContract
  BY DEF ContractOf
<1>3. back = [S |-> InputDim(m, "audio", 1), M |-> OutputDim(m, "mel", 2),
              T |-> OutputDim(m, "mel", 4)]
  BY DEF ReadBack
<1>4. /\ {"S", "M", "T"} \subseteq DOMAIN dims'
      /\ dims'["S"] = back["S"] /\ dims'["M"] = back["M"] /\ dims'["T"] = back["T"]
  <2>1. DOMAIN back = {"S", "M", "T"}
    BY <1>3
  <2> HIDE DEF back, d
  <2>2. /\ DOMAIN (back ++ d) = DOMAIN back \cup DOMAIN d
        /\ \A x \in DOMAIN back : (back ++ d)[x] = back[x]
    BY JoinedNumbers, Zenon
  <2>3. QED
    BY <1>1, <2>1, <2>2
<1>5. /\ Runs(m, [audio |-> Tensor("f32", <<InputDim(m, "audio", 1)>>)])
      /\ Gives(m, [mel |-> Tensor("f16", <<1, OutputDim(m, "mel", 2), 1, OutputDim(m, "mel", 4)>>)])
  BY <1>1, <1>2, MelAnswers
<1>6. /\ dims'["S"] = InputDim(m, "audio", 1)
      /\ dims'["M"] = OutputDim(m, "mel", 2) /\ dims'["T"] = OutputDim(m, "mel", 4)
  BY <1>3, <1>4
<1>7. MelKnown'
  BY <1>1, <1>4, <1>5, <1>6 DEF MelKnown
<1>8. QED
  BY <1>1, <1>7

LEMMA EncoderOpens ==
  ASSUME OpeningInv, OpenPart, stage' # "refused", door = "whisper", turn = 2
  PROVE  stage' = "opening" /\ turn' = 3 /\ MelKnown' /\ EncoderKnown'
<1> DEFINE m == models["encoder"]
           early == EarlyRead("encoder", m)
           d == early ++ dims
           back == ReadBack("encoder", m)
<1>1. /\ Described(m)
      /\ CheckLoadContract(m, ContractOf("encoder", d)) = "ok"
      /\ dims' = back ++ d
      /\ models' = models /\ stage' = "opening" /\ turn' = 2 + 1
  BY WhisperPassed, WhisperParts, Zenon
<1>2. MelKnown
  BY PassedBefore, WhisperParts, Zenon
<1>3. ContractOf("encoder", d) = EncoderContract(d)
  BY DEF ContractOf
<1>4. back = [E |-> OutputDim(m, "embeds", 2), A |-> OutputDim(m, "embeds", 4)]
  BY DEF ReadBack
<1>5. DOMAIN early = {}
  BY DEF EarlyRead
<1>6. /\ {"S", "M", "T"} \subseteq DOMAIN dims' /\ {"E", "A"} \subseteq DOMAIN dims'
      /\ dims'["E"] = back["E"] /\ dims'["A"] = back["A"]
      /\ dims'["S"] = dims["S"] /\ dims'["M"] = dims["M"] /\ dims'["T"] = dims["T"]
      /\ d["M"] = dims["M"] /\ d["T"] = dims["T"]
  <2>1. DOMAIN back = {"E", "A"}
    BY <1>4
  <2>2. /\ DOMAIN (early ++ dims) = DOMAIN early \cup DOMAIN dims
        /\ \A x \in DOMAIN dims \ DOMAIN early : (early ++ dims)[x] = dims[x]
    BY JoinedNumbers, Zenon
  <2>3. DOMAIN d = DOMAIN dims /\ \A x \in DOMAIN dims : d[x] = dims[x]
    BY <1>5, <2>2
  <2>4. {"S", "M", "T"} \subseteq DOMAIN dims
    BY <1>2 DEF MelKnown
  <2> HIDE DEF back, d, early
  <2>5. /\ DOMAIN (back ++ d) = DOMAIN back \cup DOMAIN d
        /\ \A x \in DOMAIN back : (back ++ d)[x] = back[x]
        /\ \A x \in DOMAIN d \ DOMAIN back : (back ++ d)[x] = d[x]
    BY JoinedNumbers, Zenon
  <2>6. QED
    BY <1>1, <2>1, <2>3, <2>4, <2>5
<1>7. /\ Runs(m, [mel |-> Tensor("f16", <<1, d["M"], 1, d["T"]>>)])
      /\ Gives(m,
               [embeds |-> Tensor("f16",
                                  <<1, OutputDim(m, "embeds", 2), 1, OutputDim(m, "embeds", 4)>>)])
  BY <1>1, <1>3, EncoderAnswers
<1>8. dims'["E"] = OutputDim(m, "embeds", 2) /\ dims'["A"] = OutputDim(m, "embeds", 4)
  BY <1>4, <1>6
<1> HIDE DEF d
<1>9. EncoderKnown'
  BY <1>1, <1>6, <1>7, <1>8 DEF EncoderKnown
<1>10. MelKnown'
  BY <1>1, <1>2, <1>6, MelStays, Zenon
<1>11. QED
  BY <1>1, <1>9, <1>10

LEMMA DecoderOpens ==
  ASSUME OpeningInv, OpenPart, stage' # "refused", door = "whisper", turn = 3
  PROVE  stage' = "open" /\ MelKnown' /\ EncoderKnown' /\ DecoderKnown'
<1> DEFINE m == models["decoder"]
           early == EarlyRead("decoder", m)
           d == early ++ dims
           back == ReadBack("decoder", m)
           sent == [input_ids |-> Tensor("i32", <<1>>), cache_length |-> Tensor("i32", <<1>>),
                    key_cache |-> Tensor("f16", <<1, d["K"], 1, d["C"]>>),
                    value_cache |-> Tensor("f16", <<1, d["K"], 1, d["C"]>>),
                    update_mask |-> Tensor("f16", <<1, d["C"]>>),
                    embeds |-> Tensor("f16", <<1, d["E"], 1, d["A"]>>),
                    padding_mask |-> Tensor("f16", <<1, d["C"]>>)]
           three == [logits |-> Tensor("f16", <<1, 1, Vocab>>),
                     key_updates |-> Tensor("f16", <<1, d["K"], 1, 1>>),
                     value_updates |-> Tensor("f16", <<1, d["K"], 1, 1>>)]
           four == [logits |-> Tensor("f16", <<1, 1, Vocab>>),
                    key_updates |-> Tensor("f16", <<1, d["K"], 1, 1>>),
                    value_updates |-> Tensor("f16", <<1, d["K"], 1, 1>>),
                    alignment |-> Tensor("f16", <<1, d["A"]>>)]
           fourth == [alignment |-> Tensor("f16", <<1, d["A"]>>)]
           last == IF d["heads"] = 1 THEN fourth ELSE <<>>
<1>1. /\ Described(m)
      /\ CheckLoadContract(m, ContractOf("decoder", d)) = "ok"
      /\ dims' = back ++ d
      /\ models' = models /\ stage' = "open"
  BY WhisperPassed, WhisperParts, Zenon
<1>2. MelKnown /\ EncoderKnown
  BY PassedBefore, WhisperParts, Zenon
<1>3. ContractOf("decoder", d) = DecoderContract(d)
  BY DEF ContractOf
<1>4. DOMAIN back = {}
  BY DEF ReadBack
<1>5. /\ DOMAIN early = {"heads", "K", "C"}
      /\ early["K"] = InputDim(m, "key_cache", 2) /\ early["C"] = InputDim(m, "key_cache", 4)
  BY DEF EarlyRead
<1>6. /\ d["K"] = InputDim(m, "key_cache", 2) /\ d["C"] = InputDim(m, "key_cache", 4)
      /\ {"S", "M", "T"} \subseteq DOMAIN dims' /\ {"E", "A"} \subseteq DOMAIN dims'
      /\ \A x \in {"S", "M", "T", "E", "A"} : dims'[x] = dims[x]
      /\ \A x \in {"heads", "K", "C", "E", "A"} : dims'[x] = d[x]
  <2>1. {"S", "M", "T", "E", "A"} \subseteq DOMAIN dims
    BY <1>2 DEF MelKnown, EncoderKnown
  <2> HIDE DEF early
  <2>2. /\ DOMAIN (early ++ dims) = DOMAIN early \cup DOMAIN dims
        /\ \A x \in DOMAIN early : (early ++ dims)[x] = early[x]
        /\ \A x \in DOMAIN dims \ DOMAIN early : (early ++ dims)[x] = dims[x]
    BY JoinedNumbers, Zenon
  <2> HIDE DEF back, d
  <2>3. /\ DOMAIN (back ++ d) = DOMAIN back \cup DOMAIN d
        /\ \A x \in DOMAIN d \ DOMAIN back : (back ++ d)[x] = d[x]
    BY JoinedNumbers, Zenon
  <2>4. DOMAIN dims' = DOMAIN d /\ \A x \in DOMAIN d : dims'[x] = d[x]
    BY <1>1, <1>4, <2>3
  <2>5. /\ DOMAIN d = {"heads", "K", "C"} \cup DOMAIN dims
        /\ \A x \in {"heads", "K", "C"} : d[x] = early[x]
        /\ \A x \in DOMAIN dims \ {"heads", "K", "C"} : d[x] = dims[x]
    BY <1>5, <2>2 DEF d
  <2>6. QED
    BY <1>5, <2>1, <2>4, <2>5
<1>7. /\ Runs(m, sent)
      /\ Gives(m, three)
      /\ d["heads"] = 1 => Gives(m, fourth)
      /\ d["C"] \in Nat /\ d["C"] >= MaxTokenContext
  <2> HIDE DEF d, m
  <2>1. CASE d["heads"] = 1
    <3>1. /\ Runs(m, sent) /\ Gives(m, four)
          /\ d["C"] \in Nat /\ d["C"] >= MaxTokenContext
      BY <1>1, <1>3, <1>6, <2>1, DecoderAlignedAnswers
    <3>2. Gives(m, three)
      <4>1. DOMAIN three \subseteq DOMAIN four /\ \A n \in DOMAIN three : three[n] = four[n]
        OBVIOUS
      <4> HIDE DEF three, four
      <4>2. QED
        BY <3>1, <4>1, GivenInPart, Zenon
    <3>3. Gives(m, fourth)
      <4>1. DOMAIN fourth \subseteq DOMAIN four /\ \A n \in DOMAIN fourth : fourth[n] = four[n]
        OBVIOUS
      <4> HIDE DEF fourth, four
      <4>2. QED
        BY <3>1, <4>1, GivenInPart, Zenon
    <3>4. QED
      BY <3>1, <3>2, <3>3
  <2>2. CASE d["heads"] # 1
    BY <1>1, <1>3, <1>6, <2>2, DecoderBareAnswers
  <2>3. QED
    BY <2>1, <2>2
<1>8. Gives(m, three ++ last)
  <2>1. Gives(m, last)
    <3>1. CASE d["heads"] = 1
      BY <1>7, <3>1
    <3>2. CASE d["heads"] # 1
      <4>1. DOMAIN last = {}
        BY <3>2
      <4>2. QED
        BY <4>1, Zenon DEF Gives
    <3>3. QED
      BY <3>1, <3>2
  <2> HIDE DEF three, last
  <2>2. QED
    BY <1>7, <2>1, GivenTogether, Zenon
<1>9. DecoderKnown'
  <2>1. /\ dims'["K"] = d["K"] /\ dims'["C"] = d["C"] /\ dims'["E"] = d["E"]
        /\ dims'["A"] = d["A"] /\ dims'["heads"] = d["heads"]
    BY <1>6
  <2> HIDE DEF d
  <2>2. QED
    BY <1>1, <1>7, <1>8, <2>1 DEF DecoderKnown
<1>10. MelKnown' /\ EncoderKnown'
  BY <1>1, <1>2, <1>6, MelStays, EncoderStays
<1>11. QED
  BY <1>1, <1>9, <1>10

\* A door that opens knows every model it opened on.
LEMMA Opens ==
  ASSUME OpeningInv, OpenPart
  PROVE  OpeningInv'
<1>1. CASE stage' = "refused"
  <2>1. door' = door /\ models' = models
    BY Zenon DEF OpenPart, Refuse
  <2>2. "refused" \in Stages /\ "refused" # "opening" /\ "refused" \notin {"open", "predicting"}
    BY DEF Stages
  <2>3. QED
    BY <1>1, <2>1, <2>2, Zenon DEF OpeningInv
<1>2. CASE stage' # "refused" /\ door # "whisper"
  <2>1. stage' = "open" /\ ModelKnown'
    BY <1>2, OpensKnowing, Zenon
  <2>2. door' = door /\ models' = models
    BY <1>2, ModelPassed, Zenon
  <2>3. "open" \in Stages /\ "open" # "opening"
    BY DEF Stages
  <2>4. QED
    BY <1>2, <2>1, <2>2, <2>3, Zenon DEF OpeningInv, Opened
<1>3. CASE stage' # "refused" /\ door = "whisper"
  <2>1. door' = door /\ models' = models /\ turn \in 1 .. 3
    BY <1>3, PassedBefore, PartPassed, Zenon
  <2>2. "open" \in Stages /\ "opening" \in Stages /\ "open" # "opening" /\ "opening" # "predicting"
    BY DEF Stages
  <2>3. CASE turn = 1
    <3>1. stage' = "opening" /\ turn' = 2 /\ MelKnown'
      BY <1>3, <2>3, MelOpens
    <3>2. 2 \in DOMAIN Parts("whisper") /\ ~(2 > 2)
      BY DEF Parts
    <3>3. QED
      BY <1>3, <2>1, <2>2, <3>1, <3>2, Zenon DEF OpeningInv, Opening
  <2>4. CASE turn = 2
    <3>1. stage' = "opening" /\ turn' = 3 /\ MelKnown' /\ EncoderKnown'
      BY <1>3, <2>4, EncoderOpens
    <3>2. 3 \in DOMAIN Parts("whisper")
      BY DEF Parts
    <3>3. QED
      BY <1>3, <2>1, <2>2, <3>1, <3>2, Zenon DEF OpeningInv, Opening
  <2>5. CASE turn = 3
    <3>1. stage' = "open" /\ MelKnown' /\ EncoderKnown' /\ DecoderKnown'
      BY <1>3, <2>5, DecoderOpens
    <3>2. QED
      BY <1>3, <2>1, <2>2, <3>1, Zenon DEF OpeningInv, Opened
  <2>6. QED
    BY <2>1, <2>3, <2>4, <2>5
<1>4. QED
  BY <1>1, <1>2, <1>3

-----------------------------------------------------------------------------
(* Calling. *)

\* A call is of a natural number of things; an aligner's is of its real samples
\* padded to the receptive field, or of none.
CallOfADoor ==
  /\ call.size \in Nat /\ call.real \in Nat
  /\ door = "align" => call.real = 0 \/ call.size = Max({call.real, Receptive})
  /\ call.bad \subseteq 1 .. call.size

\* A call that was accepted, while its predictions are made.
Heard ==
  /\ CallOfADoor /\ turn \in Nat \ {0} /\ answer = Plain("none")
  /\ door = "whisper" => call.size = dims["S"]
  /\ door = "lid" => call.size \in MinFrames .. MaxFrames
  /\ door = "siglip_image" => call.size = dims["P"]
  /\ door = "siglip_text" => call.size # 0
  /\ door = "align" => ~(call.size > dims["window"])

LEMMA LargerOfTwo ==
  ASSUME NEW a \in Nat, NEW b \in Nat
  PROVE  Max({a, b}) = IF a <= b THEN b ELSE a
<1>1. Max({a, b}) \in {a, b} /\ \A y \in {a, b} : Max({a, b}) >= y
  <2>1. {a, b} \in SUBSET Int /\ {a, b} # {} /\ a + b \in Int /\ \A x \in {a, b} : x <= a + b
    OBVIOUS
  <2>2. QED
    BY <2>1, MaxOfBounded, Zenon
<1>2. QED
  BY <1>1

LEMMA SmallerOfTwo ==
  ASSUME NEW a \in Nat, NEW b \in Nat
  PROVE  Min({a, b}) = IF a <= b THEN a ELSE b
<1>1. Min({a, b}) \in {a, b} /\ \A y \in {a, b} : Min({a, b}) <= y
  <2>1. {a, b} \in SUBSET Nat /\ {a, b} # {}
    OBVIOUS
  <2>2. QED
    BY <2>1, MinOfNaturals, Zenon
<1>2. QED
  BY <1>1

LEMMA CallsAreMade ==
  ASSUME door \in DOMAIN Loadable, NEW c \in Calls
  PROVE  /\ c.size \in Nat /\ c.real \in Nat
         /\ door = "align" => c.real = 0 \/ c.size = Max({c.real, Receptive})
         /\ c.bad \subseteq 1 .. c.size
<1>1. CallSizes[door] \subseteq Nat /\ Receptive \in Nat
  BY DoorsAssumption, Zenon DEF DoorsAssumption
<1>2. CASE c \in [size : CallSizes[door], clean : BOOLEAN, real : {0}, bad : {{}}]
  BY <1>1, <1>2
<1>3. CASE door = "align" /\ c \in {[size |-> Max({n, Receptive}), clean |-> TRUE, real |-> n,
                                     bad |-> {}] : n \in CallSizes[door]}
  <2>1. PICK n \in CallSizes[door] : c = [size |-> Max({n, Receptive}), clean |-> TRUE, real |-> n,
                                          bad |-> {}]
    BY <1>3
  <2>2. n \in Nat /\ Max({n, Receptive}) \in Nat
    <3>1. n \in Nat
      BY <1>1
    <3>2. Max({n, Receptive}) = IF n <= Receptive THEN Receptive ELSE n
      BY <1>1, <3>1, LargerOfTwo, Zenon
    <3>3. QED
      BY <1>1, <3>1, <3>2
  <2>3. QED
    BY <2>1, <2>2
<1>4. CASE door = "face" /\ c \in UNION {[size : {n}, clean : {TRUE}, real : {0},
                                          bad : SUBSET (1 .. n)] : n \in CallSizes[door]}
  <2>1. PICK n \in CallSizes[door] : c \in [size : {n}, clean : {TRUE}, real : {0},
                                            bad : SUBSET (1 .. n)]
    BY <1>4
  <2>2. c.size = n /\ c.real = 0 /\ c.bad \in SUBSET (1 .. n)
    BY <2>1
  <2>3. door # "align"
    BY <1>4
  <2>4. QED
    BY <1>1, <2>2, <2>3
<1>5. c \in [size : CallSizes[door], clean : BOOLEAN, real : {0}, bad : {{}}]
      \/ (door = "align" /\ c \in {[size |-> Max({n, Receptive}), clean |-> TRUE, real |-> n,
                                    bad |-> {}] : n \in CallSizes[door]})
      \/ (door = "face" /\ c \in UNION {[size : {n}, clean : {TRUE}, real : {0},
                                         bad : SUBSET (1 .. n)] : n \in CallSizes[door]})
  BY Zenon DEF Calls
<1>6. QED
  BY <1>2, <1>3, <1>4, <1>5

\* What a refusal may say, on opening and on being asked.
Reasons == {"SpecialTokenOverhead", "ZeroEmbeddingWidth", "MissingFeature", "ContractMismatch",
            "UnsatisfiableInput", "UnsatisfiableState", "FrameCountMismatch", "UnprovableNormalization"}
Replies == {"AudioLength", "WindowLength", "InputLength", "FrameCountOutOfRange", "EmptyAudio",
            "AudioTooLong", "InputTooLong", "PatchBudgetMismatch", "EmptyText", "NonFiniteInput"}

LEMMA PartsAreRefusedForReasons ==
  ASSUME OpenPart, stage' = "refused"
  PROVE  /\ \E why \in Reasons : answer' = Plain(why)
         /\ UNCHANGED <<door, models, dims, turn, call, embeddings>>
<1>1. stage = "opening"
  BY DEF OpenPart
<1>2. Beforehand \in Reasons \cup {"ok"}
  BY DEF Beforehand, Reasons
<1>3. \A all : Afterwards(all) \in Reasons \cup {"ok"}
  BY DEF Afterwards, Reasons
<1>4. \A verdict : Rendered(verdict) \in Reasons
  BY DEF Rendered, Reasons
<1>5. "MissingFeature" \in Reasons
  BY DEF Reasons
<1>6. "opening" # "refused" /\ "open" # "refused"
  OBVIOUS
<1>7. \E why \in Reasons : Refuse(why)
  <2> DEFINE piece == Parts(door)[turn]
             early == EarlyRead(piece, models[piece])
             d == early ++ dims
             verdict == CheckLoadContract(models[piece], ContractOf(piece, d))
             all == ReadBack(piece, models[piece]) ++ d
  <2>1. IF Beforehand # "ok" THEN Refuse(Beforehand)
        ELSE IF \E n \in DOMAIN early : early[n] = Absent THEN Refuse("MissingFeature")
        ELSE IF verdict # "ok" THEN Refuse(Rendered(verdict))
        ELSE IF Afterwards(all) # "ok" THEN Refuse(Afterwards(all))
        ELSE stage' = "open" \/ stage' = stage
    BY Zenon DEF OpenPart
  <2> HIDE DEF piece, early, d, verdict, all
  <2>2. QED
    BY <1>1, <1>2, <1>3, <1>4, <1>5, <1>6, <2>1, Zenon
<1>8. QED
  BY <1>7, Zenon DEF Refuse

LEMMA CallsAreTurnedAway ==
  ASSUME NEW c
  PROVE  Accepts(c) \in Replies \cup {"ok"}
<1>1. SizeHolds(c) \in Replies \cup {"ok"}
  BY DEF SizeHolds, Replies, AudioInput, IdentityWindow, SegmentWindow, FrameRange, CedWindow,
         ClapWindow, AlignWindow, PatchBudget
<1>2. "NonFiniteInput" \in Replies
  BY DEF Replies
<1>3. QED
  BY <1>1, <1>2, Zenon DEF Accepts

\* A call that is accepted is of the size its door's tensors have.
LEMMA AcceptedIsHeard ==
  ASSUME OpeningInv, stage = "open", Ask, stage' = "predicting"
  PROVE  Heard'
<1>1. PICK c \in Calls : /\ call' = c
                         /\ answer' = Plain(IF Accepts(c) = "ok" THEN "none" ELSE Accepts(c))
                         /\ stage' = IF Accepts(c) = "ok" THEN "predicting" ELSE "open"
                         /\ turn' = IF Accepts(c) = "ok" THEN 1 ELSE 0
  BY Zenon DEF Ask
<1>2. door' = door /\ dims' = dims /\ models' = models
  BY Zenon DEF Ask
<1>3. Accepts(c) = "ok" /\ turn' = 1 /\ answer' = Plain("none")
  BY <1>1
<1>4. SizeHolds(c) = "ok"
  BY <1>3 DEF Accepts
<1>5. door \in DOMAIN Loadable
  BY Zenon DEF OpeningInv
<1>6. CallOfADoor'
  BY <1>1, <1>2, <1>5, CallsAreMade, Zenon DEF CallOfADoor
<1>7. /\ door = "whisper" => c.size = dims["S"]
      /\ door = "lid" => c.size \in MinFrames .. MaxFrames
      /\ door = "siglip_image" => c.size = dims["P"]
      /\ door = "siglip_text" => c.size # 0
      /\ door = "align" => ~(c.size > dims["window"])
  BY <1>4 DEF SizeHolds, AudioInput, FrameRange, PatchBudget, AlignWindow
<1>8. 1 \in Nat \ {0}
  OBVIOUS
<1>9. QED
  BY <1>1, <1>2, <1>3, <1>6, <1>7, <1>8, Zenon DEF Heard

\* Every prediction of a call that was accepted runs and gives what is read.
LEMMA PredictionsRun ==
  ASSUME OpeningInv, stage = "predicting", Heard, turn <= Turns
  PROVE  /\ Outcomes(models[Parts(door)[Min({turn, Len(Parts(door))})]], Sent, Expected) = {"ok"}
         /\ LoopsFit
<1>1. Opened
  BY Zenon DEF OpeningInv
<1>2. turn \in Nat \ {0}
  BY Zenon DEF Heard
<1>3. CASE door = "whisper"
  <2>1. MelKnown /\ EncoderKnown /\ DecoderKnown
    BY <1>1, <1>3 DEF Opened
  <2>2. /\ turn = 1 \/ turn = 2 \/ turn = 3
        /\ Parts(door) = <<"mel", "encoder", "decoder">> /\ Len(Parts(door)) = 3
    BY <1>2, <1>3 DEF Turns, Parts
  <2>3. Parts(door)[Min({turn, Len(Parts(door))})] =
          IF turn = 1 THEN "mel" ELSE IF turn = 2 THEN "encoder" ELSE "decoder"
    <3>1. Min({turn, 3}) = turn
      <4>1. Min({turn, 3}) = IF turn <= 3 THEN turn ELSE 3
        <5>1. turn \in Nat /\ 3 \in Nat
          BY <1>2
        <5>2. QED
          BY <5>1, SmallerOfTwo, Zenon
      <4>2. QED
        BY <2>2, <4>1
    <3>2. QED
      BY <2>2, <3>1
  <2>4. Sent = WhisperSent /\ Expected = WhisperWanted /\ call.size = dims["S"]
    BY <1>3, Zenon DEF Sent, Expected, Heard
  <2>5. LoopsFit
    BY <1>3, <2>1, DoorsAssumption DEF LoopsFit, DecoderKnown, DoorsAssumption
  <2>6. CASE turn = 1
    <3>1. /\ WhisperSent = [audio |-> Tensor("f32", <<dims["S"]>>)]
          /\ WhisperWanted = [mel |-> Tensor("f16", <<1, dims["M"], 1, dims["T"]>>)]
          /\ Parts(door)[Min({turn, Len(Parts(door))})] = "mel"
      BY <2>3, <2>4, <2>6 DEF WhisperSent, WhisperWanted
    <3>2. QED
      BY <2>1, <2>4, <2>5, <3>1, GivenIsRead, Zenon DEF MelKnown
  <2>7. CASE turn = 2
    <3>1. /\ WhisperSent = [mel |-> Tensor("f16", <<1, dims["M"], 1, dims["T"]>>)]
          /\ WhisperWanted = [embeds |-> Tensor("f16", <<1, dims["E"], 1, dims["A"]>>)]
          /\ Parts(door)[Min({turn, Len(Parts(door))})] = "encoder"
      BY <2>3, <2>4, <2>7 DEF WhisperSent, WhisperWanted
    <3>2. QED
      BY <2>1, <2>4, <2>5, <3>1, GivenIsRead, Zenon DEF EncoderKnown
  <2>8. CASE turn = 3
    <3>1. Parts(door)[Min({turn, Len(Parts(door))})] = "decoder"
      BY <2>3, <2>8
    <3>2. Runs(models["decoder"], WhisperSent)
      BY <2>1, <2>8 DEF WhisperSent, DecoderKnown
    <3>3. Gives(models["decoder"], WhisperWanted)
      BY <2>1, <2>8 DEF WhisperWanted, DecoderKnown
    <3>4. QED
      BY <2>4, <2>5, <3>1, <3>2, <3>3, GivenIsRead, Zenon
  <2>9. QED
    BY <2>2, <2>6, <2>7, <2>8
<1>4. CASE door # "whisper"
  <2>1. ModelKnown
    BY <1>1, <1>4 DEF Opened
  <2>2. Parts(door)[Min({turn, Len(Parts(door))})] = "model"
    <3>1. Parts(door) = <<"model">> /\ Len(Parts(door)) = 1
      BY <1>4 DEF Parts
    <3>2. Min({turn, 1}) = 1
      <4>1. Min({turn, 1}) = IF turn <= 1 THEN turn ELSE 1
        <5>1. turn \in Nat /\ 1 \in Nat
          BY <1>2
        <5>2. QED
          BY <5>1, SmallerOfTwo, Zenon
      <4>2. QED
        BY <1>2, <4>1
    <3>3. QED
      BY <3>1, <3>2
  <2>3. Expected = ModelRead
    BY <1>4 DEF Expected
  <2>4. Runs(models["model"], Sent)
    <3>1. CASE door = "lid"
      <4>1. Sent = [mel_features |-> Tensor("f32", <<1, call.size, LidMels>>)]
        BY <3>1 DEF Sent
      <4>2. QED
        BY <2>1, <3>1, <4>1, Zenon DEF ModelKnown, Heard
    <3>2. CASE door = "siglip_image"
      <4>1. Sent = PatchesSent
        BY <3>2 DEF Sent
      <4>2. QED
        BY <2>1, <3>2, <4>1, Zenon DEF ModelKnown, Heard, PatchesSent
    <3>3. CASE door \notin {"lid", "siglip_image"}
      <4>1. Sent = ModelSent
        BY <1>4, <3>3 DEF Sent
      <4>2. QED
        BY <2>1, <3>3, <4>1, Zenon DEF ModelKnown
    <3>4. QED
      BY <3>1, <3>2, <3>3
  <2>5. LoopsFit
    <3>1. CASE door = "siglip_text"
      <4> DEFINE t == dims["tokens"]
      <4>1. /\ t \in Nat /\ SpecialTokens \in Nat /\ SpecialTokens < t /\ call.size \in Nat
            /\ call.size # 0
        BY <2>1, <3>1, DoorsAssumption DEF ModelKnown, DoorsAssumption, Heard, CallOfADoor
      <4> HIDE DEF t
      <4>2. Min({call.size,
                 t - SpecialTokens}) = IF call.size <= t - SpecialTokens THEN call.size ELSE t - SpecialTokens
        <5>1. t - SpecialTokens \in Nat
          BY <4>1
        <5>2. QED
          BY <4>1, <5>1, SmallerOfTwo, Zenon
      <4>3. TokensIn(t) \in SpecialTokens + 1 .. t
        BY <4>1, <4>2 DEF TokensIn
      <4>4. QED
        BY <3>1, <4>3 DEF LoopsFit, t
    <3>2. CASE door # "siglip_text"
      BY <1>4, <3>2 DEF LoopsFit
    <3>3. QED
      BY <3>1, <3>2
  <2>6. QED
    BY <2>1, <2>2, <2>3, <2>4, <2>5, GivenIsRead, Zenon DEF ModelKnown
<1>5. QED
  BY <1>3, <1>4

-----------------------------------------------------------------------------
(* Faces cut into batches, and frames of a padded window. *)

LEMMA Batches ==
  ASSUME NEW b \in Nat \ {0}, NEW m \in Nat, NEW n \in Nat
  PROVE  /\ m * b \in Nat /\ (m + 1) * b = m * b + b
         /\ m <= n => m * b <= n * b
<1>1. m * b \in Nat /\ n * b \in Nat /\ (m + 1) * b = m * b + b
  OBVIOUS
<1>2. ASSUME m <= n PROVE m * b <= n * b
  <2>1. PICK k \in Nat : n = m + k
    <3>1. n - m \in Nat /\ n = m + (n - m)
      BY <1>2
    <3>2. QED
      BY <3>1
  <2>2. n * b = m * b + k * b /\ k * b \in Nat
    BY <2>1
  <2>3. QED
    BY <1>1, <2>2
<1>3. QED
  BY <1>1, <1>2

\* So many batches hold all of a call, and the last of them some of it.
LEMMA BatchesOfACall ==
  ASSUME NEW size \in Nat, NEW b \in Nat \ {0}, NEW t \in Nat \ {0}
  PROVE  t <= (size + b - 1) \div b <=> (t - 1) * b < size
<1> DEFINE q == (size + b - 1) \div b
<1>1. q \in Nat /\ q * b <= size + b - 1 /\ (q + 1) * b > size + b - 1
  <2>1. size + b - 1 \in Nat
    OBVIOUS
  <2>2. \A x \in Nat : x \div b \in Nat /\ (x \div b) * b <= x /\ ((x \div b) + 1) * b > x
    OBVIOUS
  <2>3. QED
    BY <2>1, <2>2
<1> HIDE DEF q
<1>2. t - 1 \in Nat /\ t = (t - 1) + 1
  OBVIOUS
<1>3. q * b \in Nat /\ (q + 1) * b = q * b + b /\ (t - 1) * b \in Nat /\ t * b = (t - 1) * b + b
  <2>1. q * b \in Nat /\ (q + 1) * b = q * b + b
    BY <1>1, Batches
  <2>2. (t - 1) * b \in Nat /\ ((t - 1) + 1) * b = (t - 1) * b + b
    BY <1>2, Batches
  <2>3. QED
    BY <1>2, <2>1, <2>2
<1>4. ASSUME t <= q PROVE (t - 1) * b < size
  <2>1. t * b <= q * b
    BY <1>1, <1>4, Batches
  <2>2. QED
    BY <1>1, <1>3, <2>1
<1>5. ASSUME ~(t <= q) PROVE ~((t - 1) * b < size)
  <2>1. q <= t - 1
    BY <1>1, <1>2, <1>5
  <2>2. q * b <= (t - 1) * b
    BY <1>1, <1>2, <2>1, Batches
  <2>3. QED
    BY <1>1, <1>3, <2>2
<1>6. QED
  BY <1>4, <1>5 DEF q

LEMMA IntervalSize ==
  ASSUME NEW lo \in Nat, NEW hi \in Nat, lo <= hi
  PROVE  Cardinality(lo + 1 .. hi) = hi - lo
<1>1. lo + 1 \in Int /\ hi \in Int
  OBVIOUS
<1>2. Cardinality(lo + 1 .. hi) = IF lo + 1 > hi THEN 0 ELSE hi - (lo + 1) + 1
  BY <1>1, FS_Interval, Zenon
<1>3. QED
  BY <1>2

\* Picking a run of the faces of a call gives their places in order.
LEMMA RunOfFaces ==
  ASSUME NEW n \in Nat, NEW lo \in Nat, NEW hi \in Nat, lo <= hi, hi <= n
  PROVE  LET s == [i \in 1 .. n |-> i]
             picked == At(s, lo + 1 .. hi)
         IN /\ picked \in Seq(Nat) /\ Len(picked) = hi - lo
            /\ \A k \in 1 .. hi - lo : picked[k] = lo + k
            /\ Cardinality(lo + 1 .. hi) = hi - lo
<1> DEFINE s == [i \in 1 .. n |-> i]
           idx == lo + 1 .. hi
<1>1. Cardinality(idx) = hi - lo
  BY IntervalSize, Zenon
<1>2. idx \in SUBSET (1 .. n)
  OBVIOUS
<1>3. ASSUME NEW k \in 1 .. hi - lo PROVE Nth(idx, k) = lo + k
  <2>1. k \in 1 .. Cardinality(idx)
    BY <1>1
  <2>2. Nth(idx, k) \in idx /\ Rank(idx, Nth(idx, k)) = k
    BY <1>2, <2>1, NthSelected, Zenon
  <2>3. \A i \in idx : Rank(idx, i) = i - lo
    <3> TAKE i \in idx
    <3>1. {j \in idx : j <= i} = lo + 1 .. i
      OBVIOUS
    <3>2. Cardinality(lo + 1 .. i) = i - lo
      <4>1. i \in Nat /\ lo <= i
        OBVIOUS
      <4>2. QED
        BY <4>1, IntervalSize, Zenon
    <3>3. QED
      BY <3>1, <3>2 DEF Rank
  <2> DEFINE x == Nth(idx, k)
  <2>4. x \in idx /\ x - lo = k
    BY <2>2, <2>3
  <2> HIDE DEF x
  <2>5. x = lo + k
    BY <2>4
  <2>6. QED
    BY <2>5 DEF x
<1>4. At(s, idx) = [k \in 1 .. hi - lo |-> s[Nth(idx, k)]]
  BY <1>1 DEF At
<1>5. \A k \in 1 .. hi - lo : s[Nth(idx, k)] = lo + k
  BY <1>3
<1>6. At(s, idx) = [k \in 1 .. hi - lo |-> lo + k]
  BY <1>4, <1>5, Zenon
<1>7. hi - lo \in Nat
  OBVIOUS
<1>8. QED
  BY <1>1, <1>6, <1>7

\* Faces that were embedded come back in their places.
InPlace == embeddings \in Seq(Nat) /\ \A i \in DOMAIN embeddings : embeddings[i] = i
Done == IF (turn - 1) * dims["batch"] <= call.size THEN (turn - 1) * dims["batch"] ELSE call.size
FacesInv ==
  /\ InPlace
  /\ stage \notin {"opening", "predicting"} =>
       /\ answer.what = "ok" => Len(embeddings) = call.size
       /\ answer.what = "NonFiniteOutput" =>
            answer.at \in call.bad /\ call.bad \cap 1 .. answer.at - 1 = {}
  /\ stage = "predicting" => Len(embeddings) = Done /\ call.bad \cap 1 .. Len(embeddings) = {}

LEMMA PlacedFaces ==
  ASSUME InPlace, NEW n \in Nat, NEW lo \in Nat, NEW hi \in Nat, lo <= hi, hi <= n,
         Len(embeddings) = lo, embeddings' = embeddings \o At([i \in 1 .. n |-> i], lo + 1 .. hi)
  PROVE  InPlace' /\ Len(embeddings') = hi
<1> DEFINE picked == At([i \in 1 .. n |-> i], lo + 1 .. hi)
<1>1. /\ picked \in Seq(Nat) /\ Len(picked) = hi - lo
      /\ \A k \in 1 .. hi - lo : picked[k] = lo + k
  BY RunOfFaces, Zenon
<1>2. embeddings \in Seq(Nat) /\ \A i \in 1 .. lo : embeddings[i] = i
  BY DEF InPlace
<1> HIDE DEF picked
<1>3. /\ embeddings \o picked \in Seq(Nat) /\ Len(embeddings \o picked) = lo + (hi - lo)
      /\ \A i \in 1 .. lo : (embeddings \o picked)[i] = embeddings[i]
      /\ \A i \in lo + 1 .. lo + (hi - lo) : (embeddings \o picked)[i] = picked[i - lo]
  <2>1. /\ embeddings \o picked \in Seq(Nat)
        /\ Len(embeddings \o picked) = Len(embeddings) + Len(picked)
        /\ \A i \in 1 .. Len(embeddings) : (embeddings \o picked)[i] = embeddings[i]
        /\ \A i \in Len(embeddings) + 1 .. Len(embeddings) + Len(picked) :
             (embeddings \o picked)[i] = picked[i - Len(embeddings)]
    <3>1. picked \in Seq(Nat) /\ embeddings \in Seq(Nat)
      BY <1>1, <1>2
    <3>2. QED
      BY <3>1, ConcatenationFacts, Zenon
  <2>2. Len(embeddings) = lo /\ Len(picked) = hi - lo
    BY <1>1
  <2>3. QED
    BY <2>1, <2>2, Zenon
<1>4. embeddings' = embeddings \o picked
  BY DEF picked
<1> DEFINE e == embeddings \o picked
<1>5. /\ e \in Seq(Nat) /\ Len(e) = hi
      /\ \A i \in 1 .. lo : e[i] = i
      /\ \A i \in lo + 1 .. hi : e[i] = picked[i - lo]
  BY <1>2, <1>3
<1> HIDE DEF e
<1>6. \A i \in DOMAIN e : e[i] = i
  <2> TAKE i \in DOMAIN e
  <2>1. i \in 1 .. hi
    BY <1>5
  <2>2. CASE i <= lo
    BY <1>5, <2>1, <2>2
  <2>3. CASE ~(i <= lo)
    <3>1. i \in lo + 1 .. hi /\ i - lo \in 1 .. hi - lo /\ lo + (i - lo) = i
      BY <2>1, <2>3
    <3>2. QED
      BY <1>1, <1>5, <3>1
  <2>4. QED
    BY <2>2, <2>3
<1>7. QED
  BY <1>4, <1>5, <1>6, Zenon DEF InPlace, e

\* A chunk of faces is the next batch of them, as far as the call goes, and what
\* is embedded of it ends before the first that fails.
LEMMA ChunkIsARun ==
  ASSUME door = "face", dims["batch"] \in Nat \ {0}, call.size \in Nat, turn \in Nat \ {0},
         turn <= Turns
  PROVE  LET lo == (turn - 1) * dims["batch"]
             hi == IF turn * dims["batch"] <= call.size THEN turn * dims["batch"] ELSE call.size
         IN /\ lo \in Nat /\ hi \in Nat /\ lo < hi /\ hi <= call.size
            /\ Chunk(turn) = lo + 1 .. hi
            /\ Done = lo
<1> DEFINE b == dims["batch"]
           lo == (turn - 1) * b
<1>1. Turns = (call.size + b - 1) \div b
  BY DEF Turns
<1>2. lo < call.size
  BY <1>1, BatchesOfACall, Zenon
<1>3. turn - 1 \in Nat /\ (turn - 1) + 1 = turn
  OBVIOUS
<1>4. lo \in Nat /\ turn * b = lo + b
  <2>1. (turn - 1) * b \in Nat /\ ((turn - 1) + 1) * b = (turn - 1) * b + b
    BY <1>3, Batches
  <2>2. QED
    BY <1>3, <2>1
<1>5. Chunk(turn) = {i \in 1 .. call.size : i > lo /\ i <= turn * b}
  BY DEF Chunk
<1>6. Done = IF lo <= call.size THEN lo ELSE call.size
  BY DEF Done
<1> DEFINE p == turn * b
<1>7. p = lo + b /\ Chunk(turn) = {i \in 1 .. call.size : i > lo /\ i <= p} /\ b \in Nat \ {0}
  BY <1>4, <1>5
<1> HIDE DEF lo, b, p
<1>8. /\ lo \in Nat /\ (IF p <= call.size THEN p ELSE call.size) \in Nat
      /\ lo < (IF p <= call.size THEN p ELSE call.size)
      /\ (IF p <= call.size THEN p ELSE call.size) <= call.size
      /\ Done = lo
  BY <1>2, <1>4, <1>6, <1>7
<1>9. Chunk(turn) = lo + 1 .. (IF p <= call.size THEN p ELSE call.size)
  BY <1>2, <1>4, <1>7
<1>10. QED
  BY <1>8, <1>9 DEF lo, p, b

LEMMA NormalisedIsARun ==
  ASSUME NEW k, NEW lo \in Nat, NEW hi \in Nat, lo < hi, Chunk(k) = lo + 1 .. hi,
         call.bad \subseteq Nat
  PROVE  \E e \in lo .. hi :
           /\ Normalised(k) = lo + 1 .. e
           /\ call.bad \cap lo + 1 .. e = {}
           /\ e # hi => e + 1 \in call.bad
           /\ Normalised(k) = Chunk(k) <=> e = hi
<1> DEFINE bad == Chunk(k) \cap call.bad
<1>1. CASE bad = {}
  <2>1. Normalised(k) = lo + 1 .. hi
    BY <1>1 DEF Normalised
  <2>2. hi \in lo .. hi /\ call.bad \cap lo + 1 .. hi = {}
    BY <1>1
  <2>3. QED
    BY <2>1, <2>2
<1>2. CASE bad # {}
  <2> DEFINE b == Min(bad)
  <2>1. b \in bad /\ \A y \in bad : b <= y
    <3>1. bad \in SUBSET Nat
      OBVIOUS
    <3>2. QED
      BY <1>2, <3>1, MinOfNaturals, Zenon
  <2> HIDE DEF b
  <2>2. b \in lo + 1 .. hi /\ b \in call.bad
    BY <2>1
  <2>3. Normalised(k) = {i \in lo + 1 .. hi : \A y \in bad : i < y}
    BY <1>2 DEF Normalised
  <2>4. bad \subseteq Nat
    OBVIOUS
  <2>5. Normalised(k) = lo + 1 .. b - 1
    <3> HIDE DEF bad
    <3>1. \A i \in lo + 1 .. hi : (\A y \in bad : i < y) <=> i <= b - 1
      BY <2>1, <2>2, <2>4
    <3>2. QED
      BY <2>2, <2>3, <3>1
  <2>6. call.bad \cap lo + 1 .. b - 1 = {}
    <3>1. \A i \in call.bad \cap lo + 1 .. b - 1 : i \in bad
      BY <2>2
    <3>2. QED
      BY <2>1, <2>2, <3>1
  <2>7. /\ b - 1 \in lo .. hi /\ b - 1 # hi /\ (b - 1) + 1 = b /\ lo + 1 .. b - 1 # lo + 1 .. hi
    BY <2>2
  <2>8. QED
    BY <2>2, <2>5, <2>6, <2>7
<1>3. QED
  BY <1>1, <1>2

\* A chunk that is predicted keeps the faces in their places, and names the
\* first that fails.
LEMMA PredictsFaces ==
  ASSUME OpeningInv, stage = "predicting", Heard, door = "face", FacesInv, Predict
  PROVE  FacesInv'
<1>1. /\ turn \in Nat \ {0} /\ turn <= Turns /\ call.size \in Nat
      /\ call.bad \subseteq 1 .. call.size
      /\ dims["batch"] \in Nat \ {0} /\ answer = Plain("none")
  <2>1. Opened /\ turn <= Turns
    BY Zenon DEF OpeningInv, Predict
  <2>2. QED
    BY <2>1, Zenon DEF Opened, ModelKnown, Heard, CallOfADoor
<1>2. UNCHANGED <<door, models, dims, call>>
  BY Zenon DEF Predict
<1> DEFINE lo == (turn - 1) * dims["batch"]
           hi == IF turn * dims["batch"] <= call.size THEN turn * dims["batch"] ELSE call.size
<1>3. /\ lo \in Nat /\ hi \in Nat /\ lo < hi /\ hi <= call.size
      /\ Chunk(turn) = lo + 1 .. hi /\ Done = lo
  BY <1>1, ChunkIsARun, Zenon
<1>4. /\ embeddings' = embeddings \o At(Faces, Normalised(turn))
      /\ IF Normalised(turn) # Chunk(turn)
         THEN /\ answer' = [what |-> "NonFiniteOutput", at |-> FailedAt(Normalised(turn))]
              /\ stage' = "open"
         ELSE turn' = turn + 1 /\ stage' = "predicting"
  <2>1. LoopsFit
    BY <1>1, PredictionsRun, Zenon
  <2>2. \A outcome \in Outcomes(models[Parts(door)[Min({turn, Len(Parts(door))})]], Sent,
                                Expected) : outcome = "ok"
    BY <1>1, PredictionsRun, Zenon
  <2>3. PICK outcome \in Outcomes(models[Parts(door)[Min({turn, Len(Parts(door))})]], Sent,
                                  Expected) :
          LET embedded == IF door = "face" /\ outcome = "ok" THEN Normalised(turn) ELSE {}
              spoilt == door = "face" /\ outcome = "ok" /\ embedded # Chunk(turn)
          IN /\ embeddings' = embeddings \o At(Faces, embedded)
             /\ IF outcome # "ok" \/ spoilt \/ ~LoopsFit
                THEN /\ answer' = IF outcome # "ok" THEN Plain(outcome)
                                  ELSE IF spoilt
                                  THEN [what |-> "NonFiniteOutput", at |-> FailedAt(embedded)]
                                  ELSE Plain("IndexOutOfBounds")
                     /\ stage' = "open" /\ turn' = 0
                ELSE /\ turn' = turn + 1 /\ UNCHANGED <<answer, stage>>
    BY Zenon DEF Predict
  <2>4. outcome = "ok"
    BY <2>2, Zenon
  <2>5. QED
    BY <2>1, <2>3, <2>4, Zenon
<1>5. PICK e \in lo .. hi :
        /\ Normalised(turn) = lo + 1 .. e
        /\ call.bad \cap lo + 1 .. e = {}
        /\ e # hi => e + 1 \in call.bad
        /\ Normalised(turn) = Chunk(turn) <=> e = hi
  <2>1. call.bad \subseteq Nat
    BY <1>1
  <2> HIDE DEF lo, hi
  <2>2. QED
    BY <1>3, <2>1, NormalisedIsARun
<1>6. InPlace /\ Len(embeddings) = lo /\ call.bad \cap 1 .. lo = {}
  <2>1. InPlace /\ Len(embeddings) = Done /\ call.bad \cap 1 .. Len(embeddings) = {}
    BY Zenon DEF FacesInv
  <2> HIDE DEF lo
  <2>2. QED
    BY <1>3, <2>1
<1>7. FailedAt(lo + 1 .. e) = e + 1
  <2>1. Cardinality(lo + 1 .. e) = e - lo
    <3> HIDE DEF lo, hi
    <3>1. e \in Nat /\ lo <= e
      BY <1>3, <1>5
    <3>2. QED
      BY <1>3, <3>1, IntervalSize, Zenon
  <2>2. FailedAt(lo + 1 .. e) = lo + Cardinality(lo + 1 .. e) + 1
    BY DEF FailedAt
  <2> HIDE DEF lo, hi
  <2>3. QED
    BY <1>3, <1>5, <2>1, <2>2
<1>8. turn - 1 \in Nat /\ (turn + 1) - 1 = turn
  BY <1>1
<1>9. turn' = turn + 1 => Done' = hi
  <2>1. turn' = turn + 1 => turn' - 1 = turn
    BY <1>8
  <2>2. QED
    BY <1>2, <2>1 DEF Done
<1> HIDE DEF lo, hi
<1>10. InPlace' /\ Len(embeddings') = e
  <2>1. e \in Nat /\ lo <= e /\ e <= call.size
    BY <1>1, <1>3, <1>5
  <2>2. embeddings' = embeddings \o At([i \in 1 .. call.size |-> i], lo + 1 .. e)
    BY <1>4, <1>5, Zenon DEF Faces
  <2>3. QED
    BY <1>1, <1>3, <1>6, <2>1, <2>2, PlacedFaces, Zenon
<1>11. call.bad \cap 1 .. e = {}
  BY <1>1, <1>3, <1>5, <1>6
<1>12. CASE Normalised(turn) # Chunk(turn)
  <2>1. /\ answer' = [what |-> "NonFiniteOutput", at |-> e + 1] /\ stage' = "open"
        /\ e + 1 \in call.bad
    BY <1>4, <1>5, <1>7, <1>12, Zenon
  <2>2. (e + 1) - 1 = e
    BY <1>3, <1>5
  <2>3. answer'.what = "NonFiniteOutput" /\ answer'.at = e + 1
    BY <2>1
  <2>4. "NonFiniteOutput" # "ok" /\ "open" # "predicting"
    OBVIOUS
  <2>5. QED
    BY <1>2, <1>10, <1>11, <2>1, <2>2, <2>3, <2>4, Zenon DEF FacesInv
<1>13. CASE Normalised(turn) = Chunk(turn)
  <2>1. turn' = turn + 1 /\ stage' = "predicting" /\ e = hi
    BY <1>4, <1>5, <1>13, Zenon
  <2>2. QED
    BY <1>2, <1>9, <1>10, <1>11, <2>1, Zenon DEF FacesInv
<1>14. QED
  BY <1>12, <1>13

\* The frames that lie within so many samples, and no more of them.
LEMMA FramesWithin ==
  ASSUME NEW n \in Nat, n >= Receptive
  PROVE  /\ Frames(n) \in Nat \ {0}
         /\ (Frames(n) - 1) * Stride + Receptive <= n
         /\ Frames(n) * Stride + Receptive > n
         /\ \A m \in Nat : n <= m => Frames(n) <= Frames(m)
<1>1. Receptive \in Nat \ {0} /\ Stride \in Nat \ {0}
  BY DoorsAssumption DEF DoorsAssumption
<1>2. \A m \in Nat : m >= Receptive => Frames(m) = (m - Receptive) \div Stride + 1
  BY <1>1 DEF Frames
<1>3. \A x \in Nat : x \div Stride \in Nat /\ (x \div Stride) * Stride <= x /\ ((x \div Stride) + 1) * Stride > x
  BY <1>1
<1>4. ASSUME NEW m \in Nat, m >= Receptive
      PROVE  /\ Frames(m) - 1 \in Nat /\ Frames(m) \in Nat \ {0}
             /\ (Frames(m) - 1) * Stride <= m - Receptive
             /\ Frames(m) * Stride > m - Receptive
  <2> DEFINE q == (m - Receptive) \div Stride
  <2>1. m - Receptive \in Nat
    BY <1>1, <1>4
  <2>2. q \in Nat /\ q * Stride <= m - Receptive /\ (q + 1) * Stride > m - Receptive
    BY <1>3, <2>1
  <2>3. Frames(m) = q + 1
    BY <1>2, <1>4
  <2> HIDE DEF q
  <2>4. Frames(m) - 1 = q
    BY <2>2, <2>3
  <2>5. QED
    BY <2>2, <2>3, <2>4
<1>5. ASSUME NEW m \in Nat, n <= m PROVE Frames(n) <= Frames(m)
  <2>1. m >= Receptive
    BY <1>1, <1>5
  <2> DEFINE p == Frames(n)
             q == Frames(m)
  <2>2. /\ p - 1 \in Nat /\ (p - 1) * Stride <= n - Receptive
        /\ q \in Nat \ {0} /\ q * Stride > m - Receptive
    BY <1>4, <2>1
  <2> HIDE DEF p, q
  <2>3. ~(q <= p - 1)
    <3>1. q * Stride \in Nat /\ (p - 1) * Stride \in Nat
      BY <1>1, <2>2, Batches
    <3>2. (p - 1) * Stride < q * Stride
      BY <1>1, <1>5, <2>2, <3>1
    <3>3. q <= p - 1 => q * Stride <= (p - 1) * Stride
      BY <1>1, <2>2, Batches
    <3>4. QED
      BY <3>1, <3>2, <3>3
  <2>4. p \in Int
    BY <1>4 DEF p
  <2>5. p <= q
    BY <2>2, <2>3, <2>4
  <2>6. QED
    BY <2>5 DEF p, q
<1>6. QED
  <2> DEFINE p == Frames(n)
  <2>1. p \in Nat \ {0} /\ (p - 1) * Stride <= n - Receptive /\ p * Stride > n - Receptive
    BY <1>4
  <2>2. p - 1 \in Nat
    BY <2>1
  <2>3. (p - 1) * Stride \in Nat /\ p * Stride \in Nat
    BY <1>1, <2>1, <2>2, Batches
  <2> HIDE DEF p
  <2>4. (p - 1) * Stride + Receptive <= n /\ p * Stride + Receptive > n
    BY <1>1, <2>1, <2>3
  <2>5. QED
    BY <1>5, <2>1, <2>4 DEF p

\* What the aligner answers with is as many frames as hear real samples.
LEMMA AnswersFrames ==
  ASSUME OpeningInv, stage = "predicting", Heard, door = "align", Answer
  PROVE  KeptFramesAreReal'
<1>1. /\ Opened /\ answer' = [what |-> "ok", at |-> KeptFrames]
      /\ call' = call /\ door' = door
  BY Zenon DEF OpeningInv, Answer
<1> DEFINE w == dims["window"]
           at == KeptFrames
<1>2. /\ w \in Nat /\ w >= Receptive /\ dims["frames"] = Frames(w)
      /\ call.size \in Nat /\ call.real \in Nat /\ ~(call.size > w)
      /\ call.real = 0 \/ call.size = Max({call.real, Receptive})
  BY <1>1, Zenon DEF Opened, ModelKnown, Heard, CallOfADoor
<1>3. Receptive \in Nat \ {0} /\ Stride \in Nat \ {0}
  BY DoorsAssumption DEF DoorsAssumption
<1>4. /\ (at = 0) = (call.real = 0)
      /\ at > 1 => (at - 1) * Stride + Receptive <= call.real
      /\ call.real > 0 => at * Stride + Receptive > call.real
      /\ at \in Nat
  <2>1. CASE call.real = 0
    <3>1. at = 0
      BY <2>1 DEF KeptFrames
    <3>2. QED
      BY <2>1, <3>1
  <2>2. CASE call.real # 0
    <3> DEFINE s == call.size
    <3>1. /\ s = Max({call.real, Receptive})
          /\ s = IF call.real <= Receptive THEN Receptive ELSE call.real
      <4>1. Max({call.real, Receptive}) = IF call.real <= Receptive THEN Receptive ELSE call.real
        BY <1>2, <1>3, LargerOfTwo
      <4>2. QED
        BY <1>2, <2>2, <4>1
    <3>2. s \in Nat /\ s >= Receptive /\ s <= w /\ s >= call.real
      BY <1>2, <1>3, <3>1
    <3>3. /\ Frames(s) \in Nat \ {0} /\ Frames(w) \in Nat \ {0} /\ Frames(s) <= Frames(w)
          /\ (Frames(s) - 1) * Stride + Receptive <= s
          /\ Frames(s) * Stride + Receptive > s
      <4> HIDE DEF s, w
      <4>1. QED
        BY <1>2, <3>2, FramesWithin
    <3>4. at = Frames(s)
      <4>1. at = Min({Frames(s), Frames(w)})
        BY <1>2, <2>2, <3>1 DEF KeptFrames
      <4> DEFINE p == Frames(s)
                 q == Frames(w)
      <4>2. p \in Nat /\ q \in Nat /\ p <= q /\ at = Min({p, q})
        BY <3>3, <4>1
      <4> HIDE DEF p, q, at
      <4>3. Min({p, q}) = IF p <= q THEN p ELSE q
        BY <4>2, SmallerOfTwo
      <4>4. at = p
        BY <4>2, <4>3
      <4>5. QED
        BY <4>4 DEF p
    <3> HIDE DEF at, s, w
    <3>5. /\ at \in Nat \ {0} /\ (at - 1) * Stride + Receptive <= s /\ at * Stride + Receptive > s
          /\ at - 1 \in Nat
      BY <3>3, <3>4
    <3>6. at * Stride \in Nat /\ (at - 1) * Stride \in Nat
      BY <1>3, <3>5, Batches
    <3>7. at * Stride + Receptive > call.real
      BY <1>2, <1>3, <3>2, <3>5, <3>6
    <3>8. ASSUME at > 1 PROVE (at - 1) * Stride + Receptive <= call.real
      <4>1. (at - 1) * Stride >= 1 * Stride
        <5>1. 1 \in Nat /\ 1 <= at - 1
          BY <3>5, <3>8
        <5>2. QED
          BY <1>3, <3>5, <5>1, Batches
      <4>2. s > Receptive
        BY <1>3, <3>2, <3>5, <3>6, <4>1
      <4>3. s = call.real
        BY <1>2, <1>3, <3>1, <4>2
      <4>4. QED
        BY <3>5, <4>3
    <3>9. QED
      BY <2>2, <3>5, <3>7, <3>8
  <2>3. QED
    BY <2>1, <2>2
<1> HIDE DEF at
<1>5. answer'.at = at /\ (at + 1) - 1 = at
  BY <1>1, <1>4 DEF at
<1>6. QED
  BY <1>1, <1>4, <1>5, Zenon DEF KeptFramesAreReal

-----------------------------------------------------------------------------
(* The doors. *)

\* What holds of every door at every step: what it knows of its models, what it
\* was asked, where its faces are, and that nothing it said was of a broken model.
DoorInv ==
  /\ OpeningInv
  /\ OpenDoorsAnswer
  /\ stage = "opening" => answer = Plain("none") /\ embeddings = <<>>
  /\ stage = "predicting" => Heard
  /\ door = "face" => FacesInv
  /\ KeptFramesAreReal

LEMMA NothingYet ==
  ASSUME embeddings = <<>>
  PROVE  InPlace /\ Len(embeddings) = 0
BY DEF InPlace

LEMMA SaidPlainly ==
  /\ \A why \in Reasons \cup Replies \cup {"none"} :
       /\ Plain(why).what \notin Broken /\ Plain(why).what # "ok"
       /\ Plain(why).what # "NonFiniteOutput"
  /\ "none" \in Reasons \cup Replies \cup {"none"}
  /\ "ok" \notin Broken /\ "NonFiniteOutput" \notin Broken
BY DEF Reasons, Replies, Plain, Broken

LEMMA DoorsStart == DoorInit => DoorInv
<1> SUFFICES ASSUME DoorInit PROVE DoorInv
  OBVIOUS
<1>1. PICK d \in DOMAIN Loadable : \E loaded \in Loadable[d] : Loaded(d, loaded)
  BY Zenon DEF DoorInit
<1>2. /\ door \in DOMAIN Loadable /\ models \in Loadable[door] /\ stage = "opening" /\ turn = 1
      /\ answer = Plain("none") /\ embeddings = <<>>
  BY <1>1, Zenon DEF Loaded
<1>3. OpeningInv
  <2>1. "opening" \in Stages /\ "opening" \notin {"open", "predicting"} /\ ~(1 > 1) /\ ~(1 > 2)
    BY DEF Stages
  <2>2. 1 \in DOMAIN Parts(door)
    BY DEF Parts
  <2>3. QED
    BY <1>2, <2>1, <2>2, Zenon DEF OpeningInv, Opening
<1>4. InPlace /\ Len(embeddings) = 0
  BY <1>2, NothingYet
<1>5. answer.what \notin Broken /\ answer.what # "ok" /\ "opening" # "predicting"
  BY <1>2, SaidPlainly, Zenon
<1>6. QED
  BY <1>2, <1>3, <1>4, <1>5, Zenon DEF DoorInv, OpenDoorsAnswer, FacesInv, KeptFramesAreReal

\* Opening a part of a door, asked or refused.
LEMMA OpeningKeeps ==
  ASSUME DoorInv, OpenPart
  PROVE  DoorInv'
<1>1. OpeningInv'
  BY Opens, Zenon DEF DoorInv
<1>2. /\ answer = Plain("none") /\ embeddings = <<>>
  BY Zenon DEF DoorInv, OpenPart
<1>3. CASE stage' = "refused"
  <2>1. PICK why \in Reasons : answer' = Plain(why)
    BY <1>3, PartsAreRefusedForReasons, Zenon
  <2>2. door' = door /\ embeddings' = <<>>
    BY <1>2, <1>3, PartsAreRefusedForReasons, Zenon
  <2>3. answer'.what \notin Broken /\ answer'.what # "ok" /\ answer'.what # "NonFiniteOutput"
    BY <2>1, SaidPlainly, Zenon
  <2>4. InPlace'
    BY <2>2 DEF InPlace
  <2>5. "refused" # "opening" /\ "refused" # "predicting"
    OBVIOUS
  <2>6. QED
    BY <1>1, <1>3, <2>2, <2>3, <2>4, <2>5, Zenon DEF DoorInv, OpenDoorsAnswer, FacesInv,
       KeptFramesAreReal
<1>4. CASE stage' # "refused"
  <2>1. /\ answer' = Plain("none") /\ embeddings' = <<>>
        /\ stage' = "open" \/ stage' = "opening"
    <3>1. OpeningInv
      BY Zenon DEF DoorInv
    <3>2. QED
      BY <1>2, <1>4, <3>1, PartPassed, Zenon
  <2>2. answer'.what \notin Broken /\ answer'.what # "ok" /\ answer'.what # "NonFiniteOutput"
    BY <2>1, SaidPlainly, Zenon
  <2>3. InPlace'
    BY <2>1 DEF InPlace
  <2>4. "open" # "opening" /\ "open" # "predicting" /\ "opening" # "predicting"
    OBVIOUS
  <2>5. QED
    BY <1>1, <2>1, <2>2, <2>3, <2>4, Zenon DEF DoorInv, OpenDoorsAnswer, FacesInv, KeptFramesAreReal
<1>5. QED
  BY <1>3, <1>4

\* What a door knows of its models stays while it is asked and answers.
LEMMA KnownStays ==
  ASSUME OpeningInv, UNCHANGED <<door, models, dims>>, stage \in {"open", "predicting"},
         stage' \in {"open", "predicting"}
  PROVE  OpeningInv'
<1>1. stage' \in Stages /\ stage' # "opening"
  BY DEF Stages
<1>2. door' = door /\ models' = models /\ dims' = dims
  OBVIOUS
<1>3. Opened
  BY Zenon DEF OpeningInv
<1>4. ModelSent' = ModelSent /\ ModelRead' = ModelRead
  BY <1>2 DEF ModelSent, ModelRead, EmbedSent, ClapTextSent, FacesSent, FacesWanted
<1>5. Opened'
  BY <1>2, <1>3, <1>4, Zenon DEF Opened, MelKnown, EncoderKnown, DecoderKnown, ModelKnown
<1>6. QED
  BY <1>1, <1>2, <1>5, Zenon DEF OpeningInv

LEMMA AskingKeeps ==
  ASSUME DoorInv, Ask
  PROVE  DoorInv'
<1>1. PICK c \in Calls : /\ answer' = Plain(IF Accepts(c) = "ok" THEN "none" ELSE Accepts(c))
                         /\ stage' = IF Accepts(c) = "ok" THEN "predicting" ELSE "open"
                         /\ turn' = IF Accepts(c) = "ok" THEN 1 ELSE 0
                         /\ embeddings' = <<>>
  BY Zenon DEF Ask
<1>2. stage = "open" /\ UNCHANGED <<door, models, dims>>
  BY Zenon DEF Ask
<1>3. OpeningInv
  BY Zenon DEF DoorInv
<1>4. OpeningInv'
  BY <1>1, <1>2, <1>3, KnownStays, Zenon
<1>5. stage' = "predicting" => Heard'
  BY <1>2, <1>3, AcceptedIsHeard, Zenon
<1>6. answer'.what \notin Broken /\ answer'.what # "ok" /\ answer'.what # "NonFiniteOutput"
  <2>1. (IF Accepts(c) = "ok" THEN "none" ELSE Accepts(c)) \in Reasons \cup Replies \cup {"none"}
    BY CallsAreTurnedAway, Zenon
  <2>2. QED
    BY <1>1, <2>1, SaidPlainly, Zenon
<1>7. InPlace' /\ Len(embeddings') = 0
  BY <1>1 DEF InPlace
<1>8. ASSUME stage' = "predicting", door = "face" PROVE Done' = 0 /\ call'.bad \cap 1 .. 0 = {}
  <2>1. turn' = 1
    BY <1>1, <1>8
  <2>2. dims["batch"] \in Nat \ {0} /\ call'.size \in Nat
    <3>1. Opened /\ Heard'
      BY <1>2, <1>3, <1>5, <1>8, Zenon DEF OpeningInv
    <3>2. QED
      BY <1>8, <3>1, Zenon DEF Opened, ModelKnown, Heard, CallOfADoor
  <2>3. turn' - 1 = 0 /\ 0 * dims["batch"] = 0
    BY <2>1, <2>2
  <2>4. QED
    BY <1>2, <2>2, <2>3 DEF Done
<1>9. door = "face" => FacesInv'
  BY <1>6, <1>7, <1>8, Zenon DEF FacesInv
<1>10. stage' # "opening"
  BY <1>1
<1>11. QED
  BY <1>2, <1>4, <1>5, <1>6, <1>9, <1>10, Zenon DEF DoorInv, OpenDoorsAnswer, KeptFramesAreReal

\* A prediction ends in a row that cannot be normalised, or the call goes on.
LEMMA PredictionSays ==
  ASSUME OpeningInv, Heard, Predict
  PROVE  /\ UNCHANGED <<door, models, dims, call>>
         /\ \/ stage' = "predicting" /\ answer' = answer /\ turn' = turn + 1
            \/ stage' = "open" /\ answer'.what = "NonFiniteOutput"
<1>1. stage = "predicting" /\ turn <= Turns
  BY Zenon DEF Predict
<1>2. LoopsFit
  BY <1>1, PredictionsRun, Zenon
<1>3. \A outcome \in Outcomes(models[Parts(door)[Min({turn, Len(Parts(door))})]], Sent,
                              Expected) : outcome = "ok"
  BY <1>1, PredictionsRun, Zenon
<1>4. PICK outcome \in Outcomes(models[Parts(door)[Min({turn, Len(Parts(door))})]], Sent,
                                Expected) :
        LET embedded == IF door = "face" /\ outcome = "ok" THEN Normalised(turn) ELSE {}
            spoilt == door = "face" /\ outcome = "ok" /\ embedded # Chunk(turn)
        IN IF outcome # "ok" \/ spoilt \/ ~LoopsFit
           THEN /\ answer' = IF outcome # "ok" THEN Plain(outcome)
                             ELSE IF spoilt
                             THEN [what |-> "NonFiniteOutput", at |-> FailedAt(embedded)]
                             ELSE Plain("IndexOutOfBounds")
                /\ stage' = "open" /\ turn' = 0
           ELSE /\ turn' = turn + 1 /\ UNCHANGED <<answer, stage>>
  BY Zenon DEF Predict
<1>5. outcome = "ok"
  BY <1>3, Zenon
<1>6. \/ stage' = "predicting" /\ answer' = answer /\ turn' = turn + 1
      \/ stage' = "open" /\ answer' = [what |-> "NonFiniteOutput",
                                       at |-> FailedAt(Normalised(turn))]
  BY <1>1, <1>2, <1>4, <1>5, Zenon
<1>7. \A x : [what |-> "NonFiniteOutput", at |-> x].what = "NonFiniteOutput"
  OBVIOUS
<1>8. UNCHANGED <<door, models, dims, call>>
  BY Zenon DEF Predict
<1>9. QED
  BY <1>6, <1>7, <1>8, Zenon

LEMMA PredictingKeeps ==
  ASSUME DoorInv, Predict
  PROVE  DoorInv'
<1>1. stage = "predicting" /\ OpeningInv /\ Heard
  BY Zenon DEF DoorInv, Predict
<1>2. /\ UNCHANGED <<door, models, dims, call>>
      /\ \/ stage' = "predicting" /\ answer' = answer /\ turn' = turn + 1
         \/ stage' = "open" /\ answer'.what = "NonFiniteOutput"
  BY <1>1, PredictionSays, Zenon
<1>3. OpeningInv'
  BY <1>1, <1>2, KnownStays, Zenon
<1>4. door = "face" => FacesInv'
  BY <1>1, PredictsFaces, Zenon DEF DoorInv
<1>5. stage' = "predicting" => Heard'
  <2>1. turn \in Nat \ {0} => turn + 1 \in Nat \ {0}
    OBVIOUS
  <2>2. "open" # "predicting"
    OBVIOUS
  <2>3. QED
    BY <1>1, <1>2, <2>1, <2>2, Zenon DEF Heard, CallOfADoor
<1>6. answer'.what \notin Broken /\ answer'.what # "ok"
  <2>1. answer.what \notin Broken /\ answer.what # "ok"
    BY <1>1, SaidPlainly, Zenon DEF Heard
  <2>2. "NonFiniteOutput" # "ok"
    OBVIOUS
  <2>3. QED
    BY <1>2, <2>1, <2>2, SaidPlainly, Zenon
<1>7. stage' # "opening"
  BY <1>2
<1>8. QED
  BY <1>2, <1>3, <1>4, <1>5, <1>6, <1>7, Zenon DEF DoorInv, OpenDoorsAnswer, KeptFramesAreReal

\* A call is answered when all its batches are in.
LEMMA AnsweringKeeps ==
  ASSUME DoorInv, Answer
  PROVE  DoorInv'
<1>1. /\ stage = "predicting" /\ OpeningInv /\ Heard /\ ~(turn <= Turns)
  <2>1. turn \in Nat => TRUE
    OBVIOUS
  <2>2. stage = "predicting" /\ OpeningInv /\ Heard /\ turn > Turns
    BY Zenon DEF DoorInv, Answer
  <2>3. turn \in Nat
    BY <2>2 DEF Heard
  <2>4. Turns \in Int
    <3>1. CASE door = "face"
      <4>1. dims["batch"] \in Nat \ {0} /\ call.size \in Nat
        BY <2>2, <3>1, Zenon DEF OpeningInv, Opened, ModelKnown, Heard, CallOfADoor
      <4> DEFINE b == dims["batch"]
                 n == call.size
      <4>2. Turns = (n + b - 1) \div b /\ b \in Nat \ {0} /\ n \in Nat
        BY <3>1, <4>1 DEF Turns
      <4> HIDE DEF b, n
      <4>3. QED
        BY <4>2
    <3>2. CASE door # "face"
      BY <3>2 DEF Turns
    <3>3. QED
      BY <3>1, <3>2
  <2>5. QED
    BY <2>2, <2>3, <2>4
<1>2. /\ UNCHANGED <<door, models, dims, call, embeddings>>
      /\ answer' = [what |-> "ok", at |-> IF door = "align" THEN KeptFrames ELSE 0]
      /\ stage' = "open"
  BY Zenon DEF Answer
<1>3. OpeningInv'
  BY <1>1, <1>2, KnownStays, Zenon
<1>4. answer'.what = "ok" /\ "ok" # "NonFiniteOutput" /\ "open" # "predicting" /\ "open" # "opening"
  BY <1>2
<1>5. KeptFramesAreReal'
  <2>1. CASE door = "align"
    BY <1>1, <2>1, AnswersFrames, Zenon
  <2>2. CASE door # "align"
    BY <1>2, <2>2, Zenon DEF KeptFramesAreReal
  <2>3. QED
    BY <2>1, <2>2
<1>6. ASSUME door = "face" PROVE InPlace' /\ Len(embeddings') = call'.size
  <2>1. /\ InPlace /\ Len(embeddings) = Done
    BY <1>1, <1>6, Zenon DEF DoorInv, FacesInv
  <2>2. /\ turn \in Nat \ {0} /\ call.size \in Nat /\ dims["batch"] \in Nat \ {0}
    BY <1>1, <1>6, Zenon DEF OpeningInv, Opened, ModelKnown, Heard, CallOfADoor
  <2> DEFINE b == dims["batch"]
             n == call.size
             lo == (turn - 1) * b
  <2>3. Turns = (n + b - 1) \div b
    BY <1>6 DEF Turns
  <2>4. ~(lo < n)
    BY <1>1, <2>2, <2>3, BatchesOfACall, Zenon
  <2>5. lo \in Nat
    <3>1. turn - 1 \in Nat
      BY <2>2
    <3>2. QED
      BY <2>2, <3>1, Batches
  <2>6. Done = IF lo <= n THEN lo ELSE n
    BY DEF Done
  <2> HIDE DEF lo, b
  <2>7. Done = n
    BY <2>2, <2>4, <2>5, <2>6
  <2>8. QED
    BY <1>2, <2>1, <2>7, Zenon DEF InPlace
<1>7. door = "face" => FacesInv'
  BY <1>2, <1>4, <1>6, Zenon DEF FacesInv
<1>8. QED
  BY <1>2, <1>3, <1>4, <1>5, <1>7, SaidPlainly, Zenon DEF DoorInv, OpenDoorsAnswer

LEMMA DoorsKeepOn == DoorInv /\ [DoorNext]_doorVars => DoorInv'
<1> SUFFICES ASSUME DoorInv, [DoorNext]_doorVars PROVE DoorInv'
  OBVIOUS
<1>1. CASE OpenPart
  BY <1>1, OpeningKeeps, Zenon
<1>2. CASE Ask
  BY <1>2, AskingKeeps, Zenon
<1>3. CASE Predict
  BY <1>3, PredictingKeeps, Zenon
<1>4. CASE Answer
  BY <1>4, AnsweringKeeps, Zenon
<1>5. CASE UNCHANGED doorVars
  <2>1. /\ door' = door /\ models' = models /\ stage' = stage /\ dims' = dims /\ turn' = turn
        /\ call' = call /\ answer' = answer /\ embeddings' = embeddings
    BY <1>5 DEF doorVars
  <2>2. ModelSent' = ModelSent /\ ModelRead' = ModelRead
    BY <2>1 DEF ModelSent, ModelRead, EmbedSent, ClapTextSent, FacesSent, FacesWanted
  <2>3. OpeningInv'
    <3>1. Opening' <=> Opening
      BY <2>1, Zenon DEF Opening, MelKnown, EncoderKnown
    <3>2. Opened' <=> Opened
      BY <2>1, <2>2, Zenon DEF Opened, MelKnown, EncoderKnown, DecoderKnown, ModelKnown
    <3>3. QED
      BY <2>1, <3>1, <3>2, Zenon DEF DoorInv, OpeningInv
  <2>4. /\ OpenDoorsAnswer' <=> OpenDoorsAnswer
        /\ Heard' <=> Heard
        /\ KeptFramesAreReal' <=> KeptFramesAreReal
    BY <2>1, Zenon DEF OpenDoorsAnswer, Heard, CallOfADoor, KeptFramesAreReal
  <2>5. FacesInv' <=> FacesInv
    BY <2>1, Zenon DEF FacesInv, InPlace, Done
  <2>6. QED
    BY <2>1, <2>3, <2>4, <2>5, Zenon DEF DoorInv
<1>6. QED
  BY <1>1, <1>2, <1>3, <1>4, <1>5, Zenon DEF DoorNext

LEMMA DoorsHold == DoorSpec => []DoorInv
BY DoorsStart, DoorsKeepOn, PTL DEF DoorSpec

\* A door that opened on a model, any model the framework can describe, never
\* fails for its shape: not a prediction that does not run, not an output that
\* is missing or read as what it is not, not an index outside what was declared
\* (CoreMlBackend::new, each door's load and predict).
THEOREM DoorsThatOpenAnswer == DoorSpec => []OpenDoorsAnswer
<1>1. DoorInv => OpenDoorsAnswer
  BY Zenon DEF DoorInv
<1>2. QED
  BY <1>1, DoorsHold, PTL

\* However an artifact batches its faces each row comes back for its own face,
\* and a row that fails is named by its place in the call; and the frames kept of
\* a padded window are those of real samples, for every geometry of window,
\* receptive field and stride (FaceEmbedder::embed, Encoder::emissions_raw).
THEOREM FacesAndFramesStay == DoorSpec => []FacesAndFramesHold
<1>1. DoorInv => FacesAndFramesHold
  <2> SUFFICES ASSUME DoorInv PROVE FacesAndFramesHold
    OBVIOUS
  <2>1. KeptFramesAreReal
    BY Zenon DEF DoorInv
  <2>2. ASSUME door = "face", stage # "opening" PROVE FacesKeepTheirRows
    <3>1. FacesInv
      BY <2>2, Zenon DEF DoorInv
    <3>2. CASE stage = "predicting"
      <4>1. answer.what # "ok" /\ answer.what # "NonFiniteOutput"
        BY <3>2, SaidPlainly, Zenon DEF DoorInv, Heard
      <4>2. QED
        BY <3>1, <4>1, Zenon DEF FacesInv, InPlace, FacesKeepTheirRows
    <3>3. CASE stage # "predicting"
      <4>1. stage \notin {"opening", "predicting"}
        BY <2>2, <3>3
      <4>2. QED
        BY <3>1, <4>1, Zenon DEF FacesInv, InPlace, FacesKeepTheirRows
    <3>4. QED
      BY <3>2, <3>3
  <2>3. ASSUME ~(door = "face" /\ stage # "opening") PROVE FacesKeepTheirRows
    BY <2>3, Zenon DEF FacesKeepTheirRows
  <2>4. QED
    BY <2>1, <2>2, <2>3, Zenon DEF FacesAndFramesHold
<1>2. QED
  BY <1>1, DoorsHold, PTL

-----------------------------------------------------------------------------
(* A long text.                                                            *)

\* Of a text: a stretch of it, and what is known of a piece made of one.
Stretches(t) == {c \in [start : Nat, end : Nat] : c.start < c.end /\ c.end <= t.units}
Pieces(t) == [chunk : Stretches(t), why : {"cut", "own"}]
Count(t, c) == t.tokens[<<c.start, c.end>>]
InBudget(t, p) ==
  \/ Count(t, p.chunk) <= t.window
  \/ p.why = "own" /\ Count(t, p.chunk) <= TokenCeiling
  \/ p.chunk.end = p.chunk.start + 1
Reaches(p, u) == p.chunk.start <= u /\ u < p.chunk.end
\* Pieces that reach every unit up to a place, and abut if nothing overlaps.
Tiles(t, ps, n) ==
  /\ ps \in Seq(Pieces(t))
  /\ \A u \in 0 .. n - 1 : \E i \in DOMAIN ps : Reaches(ps[i], u)
  /\ IF ps = <<>> THEN n = 0 ELSE ps[1].chunk.start = 0
  /\ t.overlap = 0 =>
       /\ \A i \in 1 .. Len(ps) - 1 : ps[i].chunk.end = ps[i + 1].chunk.start
       /\ ps # <<>> => ps[Len(ps)].chunk.end = n
  /\ \A i \in DOMAIN ps : InBudget(t, ps[i])
Whole(t, ps) == ps # <<>> /\ Tiles(t, ps, t.units) /\ ps[Len(ps)].chunk.end = t.units
\* Chunks in order, each within the window or a unit.
Precedes(t, c, d) ==
  /\ c.start < d.start /\ c.end < d.end
  /\ t.overlap = 0 => c.end <= d.start
Ordered(t, cs) ==
  /\ cs \in Seq(Stretches(t))
  /\ \A i \in DOMAIN cs : InBudget(t, Cut(cs[i]))
  /\ \A i \in 1 .. Len(cs) - 1 : Precedes(t, cs[i], cs[i + 1])

\* The chunk the sweep holds is not among the pieces yet, nor are those behind
\* it; the pieces reach up to where it starts.
Sweeping ==
  /\ cur \in Stretches(text) /\ InBudget(text, Cut(cur))
  /\ Ordered(text, chunks)
  /\ chunks # <<>> => Precedes(text, cur, chunks[1])
  /\ Tiles(text, pieces, cur.start)
  /\ windows = <<>>
Embedding ==
  /\ pieces = <<>> \/ Whole(text, pieces)
  /\ text.units > 0 => pieces # <<>>
  /\ text.cap # 0 => Len(pieces) <= text.cap
  /\ windows \in Seq([chunk : Stretches(text), offset : Int, ids : Int])
  /\ Len(windows) <= Len(pieces)
  /\ \A i \in DOMAIN windows : windows[i].chunk = pieces[i].chunk /\ windows[i].ids = Count(text, pieces[i].chunk)
TextInd ==
  /\ text \in LongTexts
  /\ state = "asked" => pieces = <<>> /\ windows = <<>>
  /\ state \in {"sweeping", "swept", "chunked", "ok"} => text.window <= TokenCeiling
  /\ state = "sweeping" => Sweeping
  /\ state = "swept" => windows = <<>> /\ (pieces = <<>> \/ Whole(text, pieces))
  /\ state \in {"chunked", "ok"} => Embedding
  /\ state = "ok" => Len(windows) = Len(pieces)

LEMMA Counted ==
  ASSUME NEW t \in LongTexts
  PROVE  /\ t.units \in Nat /\ t.window \in Nat /\ t.overlap \in Nat /\ t.cap \in Nat
         /\ TokenCeiling \in Nat
         /\ \A c \in Stretches(t) : Count(t, c) \in Nat /\ (c.end = c.start + 1 => Count(t, c) <= TokenCeiling)
<1>1. Tokenized(t) /\ TokenCeiling \in Nat
  BY LongTextAssumption
<1>2. t.units \in Nat /\ t.window \in Nat /\ t.overlap \in Nat /\ t.cap \in Nat
  BY <1>1 DEF Tokenized
<1>3. ASSUME NEW c \in Stretches(t) PROVE Count(t, c) \in Nat /\ (c.end = c.start + 1 => Count(t, c) <= TokenCeiling)
  <2>1. c.start \in 0 .. t.units - 1 /\ c.end \in 0 .. t.units /\ c.start \in 0 .. t.units /\ c.start < c.end
    BY <1>2 DEF Stretches
  <2>2. Count(t, c) \in Nat
    BY <1>1, <2>1 DEF Count, Tokenized
  <2>3. ASSUME c.end = c.start + 1 PROVE Count(t, c) <= TokenCeiling
    BY <1>1, <2>1, <2>3 DEF Count, Tokenized
  <2>4. QED
    BY <2>2, <2>3
<1>4. QED
  BY <1>1, <1>2, <1>3

\* A piece that starts where the others end.
LEMMA TilesGrow ==
  ASSUME NEW t \in LongTexts, NEW ps, NEW n \in Nat, Tiles(t, ps, n),
         NEW p \in Pieces(t), p.chunk.start = n, InBudget(t, p),
         NEW m \in Nat, m <= p.chunk.end, t.overlap = 0 => m = p.chunk.end
  PROVE  Tiles(t, Append(ps, p), m) /\ Append(ps, p) # <<>> /\ Append(ps, p)[Len(Append(ps, p))] = p
<1> DEFINE qs == Append(ps, p)
<1>1. ps \in Seq(Pieces(t)) /\ qs \in Seq(Pieces(t)) /\ Len(qs) = Len(ps) + 1 /\ Len(ps) \in Nat
      /\ DOMAIN qs = 1 .. Len(ps) + 1 /\ DOMAIN ps = 1 .. Len(ps)
      /\ (\A i \in 1 .. Len(ps) : qs[i] = ps[i]) /\ qs[Len(ps) + 1] = p
  BY DEF Tiles
<1> HIDE DEF qs
<1>2. p.chunk.start \in Nat /\ p.chunk.end \in Nat
  BY DEF Pieces, Stretches
<1>3. ASSUME NEW u \in 0 .. m - 1 PROVE \E i \in DOMAIN qs : Reaches(qs[i], u)
  <2>1. CASE u < n
    <3>1. PICK i \in DOMAIN ps : Reaches(ps[i], u)
      BY <2>1 DEF Tiles
    <3>2. QED
      BY <1>1, <3>1
  <2>2. CASE u >= n
    <3>1. Reaches(p, u)
      BY <1>2, <2>2 DEF Reaches
    <3>2. QED
      BY <1>1, <3>1
  <2>3. QED
    BY <2>1, <2>2
<1>4. qs # <<>> /\ qs[1].chunk.start = 0
  <2>1. CASE ps = <<>>
    <3>1. Len(ps) = 0 /\ n = 0
      BY <2>1 DEF Tiles
    <3>2. qs[1] = p /\ Len(qs) = 1
      BY <1>1, <3>1
    <3>3. QED
      BY <3>1, <3>2
  <2>2. CASE ps # <<>>
    <3>1. 1 \in 1 .. Len(ps)
      BY <1>1, <2>2
    <3>2. qs[1] = ps[1] /\ Len(qs) > 0
      BY <1>1, <3>1
    <3>3. QED
      BY <2>2, <3>2 DEF Tiles
  <2>3. QED
    BY <2>1, <2>2
<1>5. ASSUME t.overlap = 0, NEW i \in 1 .. Len(qs) - 1 PROVE qs[i].chunk.end = qs[i + 1].chunk.start
  <2>0. i \in 1 .. Len(ps) /\ qs[i] = ps[i]
    BY <1>1
  <2>1. CASE i = Len(ps)
    <3>1. ps # <<>>
      BY <1>1, <2>0
    <3>2. ps[Len(ps)].chunk.end = n
      BY <1>5, <3>1 DEF Tiles
    <3>3. qs[i + 1] = p
      BY <1>1, <2>1
    <3>4. QED
      BY <2>0, <2>1, <3>2, <3>3
  <2>2. CASE i # Len(ps)
    <3>0. i \in 1 .. Len(ps) /\ Len(ps) \in Nat
      BY <1>1, <2>0
    <3>1. i \in 1 .. Len(ps) - 1 /\ i + 1 \in 1 .. Len(ps)
      BY <3>0, <2>2
    <3>2. ps[i].chunk.end = ps[i + 1].chunk.start
      BY <1>5, <3>1 DEF Tiles
    <3>3. QED
      BY <1>1, <2>0, <3>1, <3>2
  <2>3. QED
    BY <2>1, <2>2
<1>6. \A i \in DOMAIN qs : InBudget(t, qs[i])
  BY <1>1 DEF Tiles
<1>7. qs[Len(qs)] = p
  BY <1>1
<1>8. Tiles(t, qs, m)
  BY <1>1, <1>3, <1>4, <1>5, <1>6, <1>7 DEF Tiles
<1>9. QED
  BY <1>4, <1>7, <1>8 DEF qs

LEMMA CutIsAPiece ==
  ASSUME NEW t, NEW c \in Stretches(t)
  PROVE  Cut(c) \in Pieces(t) /\ Own(c) \in Pieces(t) /\ Cut(c).chunk = c /\ Own(c).chunk = c
  BY DEF Pieces, Cut, Own

\* A range of units, and one that fits.
LEMMA RangeFacts ==
  ASSUME NEW a \in Nat, NEW b \in Nat
  PROVE  /\ ByteRange(a, b).start = a /\ ByteRange(a, b).end = b
         /\ a < b /\ b <= text.units => ByteRange(a, b) \in Stretches(text)
         /\ FitsBudget(a, b) => InBudget(text, Cut(ByteRange(a, b)))
<1>1. ByteRange(a, b).start = a /\ ByteRange(a, b).end = b
  BY DEF ByteRange
<1>2. a < b /\ b <= text.units => ByteRange(a, b) \in Stretches(text)
  BY DEF ByteRange, Stretches
<1>3. ASSUME FitsBudget(a, b) PROVE InBudget(text, Cut(ByteRange(a, b)))
  <2>1. text.tokens[<<a, b>>] <= text.window
    BY <1>3 DEF FitsBudget, FailsOn, MeasureRange
  <2>2. Cut(ByteRange(a, b)).chunk = ByteRange(a, b)
    BY DEF Cut
  <2>3. QED
    BY <1>1, <2>1, <2>2 DEF InBudget, Count
<1>4. QED
  BY <1>1, <1>2, <1>3

LEMMA OwnIsInBudget ==
  ASSUME text \in LongTexts, NEW c \in Stretches(text), OwnFails(c) = "ok"
  PROVE  InBudget(text, Own(c))
<1>1. ~(Enc(c) > TokenCeiling)
  BY DEF OwnFails
<1>2. Count(text, c) <= TokenCeiling
  BY <1>1, Counted DEF Enc, Count
<1>3. QED
  BY <1>2 DEF InBudget, Own

LEMMA TextInitially == TextInit => TextInd
<1> SUFFICES ASSUME TextInit PROVE TextInd
  OBVIOUS
<1>1. text \in LongTexts /\ pieces = <<>> /\ windows = <<>> /\ state = "asked"
  BY DEF TextInit, Texted
<1>2. QED
  BY <1>1 DEF TextInd

\* A call that ends with a complaint says nothing of its pieces.
LEMMA ComplaintStep ==
  ASSUME TextInd, NEW what, Ended(what), what \notin {"asked", "sweeping", "swept", "chunked", "ok"}
  PROVE  TextInd'
  BY DEF TextInd, Ended

LEMMA NothingIsCovered == \A t : Tiles(t, <<>>, 0)
  BY DEF Tiles

LEMMA ListsAreOrdered ==
  ASSUME text \in LongTexts, NEW cs \in ChunkLists, ContentAware(cs)
  PROVE  Ordered(text, cs)
<1>1. cs \in Seq([start : Nat, end : Nat])
  BY LongTextAssumption
<1>2. \A i \in DOMAIN cs : cs[i] \in [start : Nat, end : Nat]
  <2> DEFINE S == [start : Nat, end : Nat]
  <2>1. cs \in Seq(S)
    BY <1>1
  <2> HIDE DEF S
  <2>2. \A i \in DOMAIN cs : cs[i] \in S
    BY <2>1
  <2>3. QED
    BY <2>2 DEF S
<1>3. ASSUME NEW i \in DOMAIN cs PROVE cs[i] \in Stretches(text) /\ InBudget(text, Cut(cs[i]))
  <2>1. cs[i].start < cs[i].end /\ cs[i].end <= text.units
        /\ (FitsBudget(cs[i].start, cs[i].end) \/ cs[i].end = cs[i].start + 1)
    BY DEF ContentAware, Nonempty
  <2>2. cs[i] = ByteRange(cs[i].start, cs[i].end)
    BY <1>2 DEF ByteRange
  <2>3. FitsBudget(cs[i].start, cs[i].end) => InBudget(text, Cut(cs[i]))
    BY <1>2, <2>2, RangeFacts
  <2>4. cs[i].end = cs[i].start + 1 => InBudget(text, Cut(cs[i]))
    BY DEF InBudget, Cut
  <2>5. QED
    BY <1>2, <2>1, <2>3, <2>4 DEF Stretches
<1>4. cs \in Seq(Stretches(text))
  BY <1>1, <1>3
<1>5. \A i \in 1 .. Len(cs) - 1 : Precedes(text, cs[i], cs[i + 1])
  BY DEF ContentAware, Before, Precedes
<1>6. QED
  BY <1>3, <1>4, <1>5 DEF Ordered

\* What is left of ordered chunks without the first.
LEMMA RestIsOrdered ==
  ASSUME NEW t, NEW cs, Ordered(t, cs), cs # <<>>
  PROVE  /\ cs[1] \in Stretches(t) /\ InBudget(t, Cut(cs[1])) /\ Head(cs) = cs[1]
         /\ Ordered(t, Tail(cs))
         /\ Tail(cs) # <<>> => Precedes(t, cs[1], Tail(cs)[1])
<1>1. cs \in Seq(Stretches(t)) /\ Len(cs) \in Nat /\ Len(cs) > 0 /\ DOMAIN cs = 1 .. Len(cs)
  BY DEF Ordered
<1>2. /\ Tail(cs) \in Seq(Stretches(t)) /\ Len(Tail(cs)) = Len(cs) - 1 /\ Head(cs) = cs[1]
      /\ \A i \in 1 .. Len(cs) - 1 : Tail(cs)[i] = cs[i + 1]
      /\ DOMAIN Tail(cs) = 1 .. Len(cs) - 1
  BY <1>1
<1>3. cs[1] \in Stretches(t) /\ InBudget(t, Cut(cs[1]))
  BY <1>1 DEF Ordered
<1>4. ASSUME NEW i \in DOMAIN Tail(cs) PROVE InBudget(t, Cut(Tail(cs)[i]))
  <2>1. i + 1 \in DOMAIN cs /\ Tail(cs)[i] = cs[i + 1]
    BY <1>1, <1>2
  <2>2. QED
    BY <2>1 DEF Ordered
<1>5. ASSUME NEW i \in 1 .. Len(Tail(cs)) - 1 PROVE Precedes(t, Tail(cs)[i], Tail(cs)[i + 1])
  <2>1. i + 1 \in 1 .. Len(cs) - 1 /\ Tail(cs)[i] = cs[i + 1] /\ Tail(cs)[i + 1] = cs[i + 1 + 1]
    BY <1>1, <1>2
  <2>2. QED
    BY <2>1 DEF Ordered
<1>6. ASSUME Tail(cs) # <<>> PROVE Precedes(t, cs[1], Tail(cs)[1])
  <2>1. 1 \in 1 .. Len(cs) - 1
    BY <1>1, <1>2, <1>6
  <2>2. Tail(cs)[1] = cs[1 + 1]
    BY <1>2, <2>1
  <2>3. QED
    BY <2>1, <2>2 DEF Ordered
<1>7. QED
  BY <1>2, <1>3, <1>4, <1>5, <1>6 DEF Ordered

LEMMA CurFacts ==
  ASSUME text \in LongTexts, NEW c \in Stretches(text)
  PROVE  /\ c.start \in Nat /\ c.end \in Nat /\ c.start < c.end /\ c.end <= text.units /\ text.units \in Nat
         /\ Cut(c) \in Pieces(text) /\ Own(c) \in Pieces(text) /\ Cut(c).chunk = c /\ Own(c).chunk = c
  BY Counted, CutIsAPiece DEF Stretches

\* Where the sweep goes on.
LEMMA SweepOn ==
  ASSUME text \in LongTexts, text' = text, windows' = windows, state' = "sweeping", windows = <<>>,
         text.window <= TokenCeiling, cur' \in Stretches(text), InBudget(text, Cut(cur')), Ordered(text, chunks'),
         chunks' # <<>> => Precedes(text, cur', chunks'[1]), Tiles(text, pieces', cur'.start)
  PROVE  TextInd'
  BY DEF TextInd, Sweeping

LEMMA ChunkLongStep == ASSUME TextInd, ChunkLong PROVE TextInd'
<1>1. text \in LongTexts /\ state = "asked" /\ pieces = <<>> /\ windows = <<>>
  BY DEF TextInd, ChunkLong
<1>2. CASE ValidateLongInput # "ok"
  <2>1. Ended(ValidateLongInput)
    BY <1>2 DEF ChunkLong
  <2>2. ValidateLongInput \in {"InputTooLarge", "WindowOverBudget", "Windowing"}
    BY <1>2 DEF ValidateLongInput
  <2>3. QED
    BY <2>1, <2>2, ComplaintStep
<1>3. CASE ValidateLongInput = "ok"
  <2>1. text.window <= TokenCeiling
    <3>1. ~(text.window > TokenCeiling)
      BY <1>3 DEF ValidateLongInput
    <3>2. QED
      BY <1>1, <3>1, Counted
  <2>2. CASE Ended("Windowing")
    BY <2>2, ComplaintStep
  <2>3. ASSUME ~Ended("Windowing") PROVE TextInd'
    <3>1. PICK cs \in ChunkLists :
            /\ ContentAware(cs)
            /\ LET first == cs[1]
                   alone == MeasureRange(0, first.start)
               IN CASE cs = <<>> ->
                            state' = "swept" /\ UNCHANGED <<chunks, cur, pieces>>
                       [] cs # <<>> /\ first.start = 0 ->
                            /\ state' = "sweeping" /\ chunks' = Tail(cs)
                            /\ cur' = first /\ UNCHANGED pieces
                       [] cs # <<>> /\ first.start > 0 /\ FailsOn(0, first.end) ->
                            state' = "Tokenize" /\ UNCHANGED <<chunks, cur, pieces>>
                       [] cs # <<>> /\ first.start > 0 /\ FitsBudget(0, first.end) ->
                            /\ state' = "sweeping" /\ chunks' = Tail(cs)
                            /\ cur' = ByteRange(0, first.end) /\ UNCHANGED pieces
                       [] cs # <<>> /\ first.start > 0 /\ alone = -1 ->
                            state' = "Tokenize" /\ UNCHANGED <<chunks, cur, pieces>>
                       [] cs # <<>> /\ first.start > 0 /\ alone > TokenCeiling ->
                            state' = "ContentlessInputOverBudget" /\ UNCHANGED <<chunks, cur, pieces>>
                       [] OTHER ->
                            /\ state' = "sweeping" /\ chunks' = Tail(cs) /\ cur' = first
                            /\ pieces' = <<[chunk |-> ByteRange(0, first.start), why |-> "own"]>>
            /\ UNCHANGED <<text, windows>>
      BY <1>3, <2>3 DEF ChunkLong
    <3> DEFINE first == cs[1]
               alone == MeasureRange(0, first.start)
               sent == state' = "sweeping" /\ chunks' = Tail(cs)
    <3>2. text' = text /\ windows' = windows /\ Ordered(text, cs)
      BY <1>1, <3>1, ListsAreOrdered
    <3>3. CASE cs = <<>>
      <4>1. state' = "swept" /\ pieces' = pieces
        BY <3>1, <3>3
      <4>2. QED
        BY <1>1, <2>1, <3>2, <4>1 DEF TextInd
    <3>4. ASSUME cs # <<>> PROVE TextInd'
      <4>1. /\ first \in Stretches(text) /\ InBudget(text, Cut(first)) /\ Ordered(text, Tail(cs))
            /\ Tail(cs) # <<>> => Precedes(text, first, Tail(cs)[1])
        BY <3>2, <3>4, RestIsOrdered
      <4>2. first.start \in Nat /\ first.end \in Nat /\ first.start < first.end /\ first.end <= text.units
        BY <1>1, <4>1, CurFacts
      <4> HIDE DEF first
      <4>3. CASE state' \in {"Tokenize", "ContentlessInputOverBudget"}
        BY <1>1, <3>2, <4>3 DEF TextInd
      <4>4. ASSUME state' \notin {"Tokenize", "ContentlessInputOverBudget"}
            PROVE  /\ sent
                   /\ \/ first.start = 0 /\ cur' = first /\ pieces' = pieces
                      \/ FitsBudget(0, first.end) /\ cur' = ByteRange(0, first.end) /\ pieces' = pieces
                      \/ /\ alone # -1 /\ ~(alone > TokenCeiling) /\ cur' = first
                         /\ pieces' = <<[chunk |-> ByteRange(0, first.start), why |-> "own"]>>
        BY <3>1, <3>4, <4>2, <4>4 DEF first
      <4>5. ASSUME sent, first.start = 0, cur' = first, pieces' = pieces PROVE TextInd'
        <5>1. Tiles(text, pieces', cur'.start)
          BY <1>1, <4>5, NothingIsCovered
        <5>2. QED
          BY <1>1, <2>1, <3>2, <4>1, <4>5, <5>1, SweepOn
      <4>6. ASSUME sent, FitsBudget(0, first.end), cur' = ByteRange(0, first.end), pieces' = pieces PROVE TextInd'
        <5>1. /\ cur' \in Stretches(text) /\ InBudget(text, Cut(cur'))
              /\ cur'.start = 0 /\ cur'.end = first.end
          BY <4>2, <4>6, RangeFacts
        <5>2. Tiles(text, pieces', cur'.start)
          BY <1>1, <4>6, <5>1, NothingIsCovered
        <5>3. ASSUME Tail(cs) # <<>> PROVE Precedes(text, cur', Tail(cs)[1])
          <6>1. Precedes(text, first, Tail(cs)[1])
            BY <4>1, <5>3
          <6>2. Tail(cs)[1] \in Stretches(text)
            BY <4>1, <5>3, RestIsOrdered
          <6>3. Tail(cs)[1].start \in Nat
            BY <6>2 DEF Stretches
          <6> DEFINE d == Tail(cs)[1]
          <6> HIDE DEF d
          <6>4. /\ first.start < d.start /\ first.end < d.end /\ d.start \in Nat
                /\ text.overlap = 0 => first.end <= d.start
            BY <6>1, <6>3 DEF Precedes, d
          <6>5. cur'.start < d.start /\ cur'.end < d.end /\ (text.overlap = 0 => cur'.end <= d.start)
            BY <4>2, <5>1, <6>4
          <6>6. QED
            BY <6>5 DEF Precedes, d
        <5>4. QED
          BY <1>1, <2>1, <3>2, <4>1, <4>6, <5>1, <5>2, <5>3, SweepOn
      <4>7. ASSUME sent, first.start > 0, alone # -1, ~(alone > TokenCeiling), cur' = first,
                   pieces' = <<[chunk |-> ByteRange(0, first.start), why |-> "own"]>>
            PROVE  TextInd'
        <5> DEFINE c == ByteRange(0, first.start)
        <5>1. c \in Stretches(text) /\ c.start = 0 /\ c.end = first.start
          BY <1>1, <4>2, <4>7, Counted, RangeFacts
        <5>2. Count(text, c) <= TokenCeiling
          <6>1. Count(text, c) = alone
            BY <4>7, <5>1 DEF Count, MeasureRange
          <6>2. Count(text, c) \in Nat /\ TokenCeiling \in Nat
            BY <1>1, <5>1, Counted
          <6>3. QED
            BY <4>7, <6>1, <6>2
        <5>3. InBudget(text, Own(c)) /\ Own(c) \in Pieces(text) /\ Own(c).chunk = c
          BY <1>1, <5>1, <5>2, CurFacts DEF InBudget, Own
        <5>4. pieces' = Append(<<>>, Own(c))
          BY <4>7 DEF Own
        <5> HIDE DEF c
        <5>5. Tiles(text, <<>>, 0)
          BY NothingIsCovered
        <5>6. Tiles(text, pieces', first.start)
          <6>1. Own(c).chunk.start = 0 /\ first.start <= Own(c).chunk.end /\ first.start = Own(c).chunk.end
            BY <4>2, <5>1, <5>3
          <6> DEFINE p == Own(c)
                     n == first.start
          <6> HIDE DEF p, n
          <6>a. /\ p \in Pieces(text) /\ InBudget(text, p) /\ n \in Nat /\ 0 \in Nat
                /\ p.chunk.start = 0 /\ n <= p.chunk.end /\ n = p.chunk.end
            BY <4>2, <5>3, <6>1 DEF p, n
          <6>b. Tiles(text, Append(<<>>, p), n)
            BY <1>1, <5>5, <6>a, TilesGrow
          <6>2. Tiles(text, Append(<<>>, Own(c)), first.start)
            BY <6>b DEF p, n
          <6>3. QED
            BY <5>4, <6>2
        <5>7. QED
          BY <1>1, <2>1, <3>2, <4>1, <4>7, <5>6, SweepOn
      <4>8. CASE first.start = 0
        <5>1. state' \notin {"Tokenize", "ContentlessInputOverBudget"} => cur' = first /\ pieces' = pieces
          BY <3>1, <3>4, <4>8 DEF first
        <5>2. QED
          BY <4>3, <4>4, <4>5, <4>8, <5>1
      <4>9. QED
        BY <4>2, <4>3, <4>4, <4>5, <4>6, <4>7, <4>8
    <3>5. QED
      BY <3>3, <3>4
  <2>4. QED
    BY <2>2, <2>3
<1>4. QED
  BY <1>2, <1>3

\* A range after another, which is put between two pieces or beside one.
LEMMA PiecesGrow ==
  ASSUME text \in LongTexts, NEW ps, NEW c \in Stretches(text), Tiles(text, ps, c.start),
         NEW p \in {Cut(c), Own(c)}, InBudget(text, p),
         NEW m \in Nat, m <= c.end, text.overlap = 0 => m = c.end
  PROVE  Tiles(text, Append(ps, p), m) /\ Append(ps, p) # <<>> /\ Append(ps, p)[Len(Append(ps, p))] = p
<1>1. p \in Pieces(text) /\ p.chunk = c /\ c.start \in Nat
  BY CurFacts
<1>2. p.chunk.start = c.start /\ m <= p.chunk.end /\ (text.overlap = 0 => m = p.chunk.end)
  BY <1>1
<1>3. QED
  BY <1>1, <1>2, TilesGrow

LEMMA TwoMore ==
  ASSUME NEW S, NEW ps \in Seq(S), NEW a \in S, NEW b \in S
  PROVE  ps \o <<a, b>> = Append(Append(ps, a), b)
  OBVIOUS

LEMMA SweepStep == ASSUME TextInd, Sweep PROVE TextInd'
<1>1. /\ text \in LongTexts /\ text.window <= TokenCeiling /\ Sweeping
      /\ state = "sweeping" /\ chunks # <<>>
  BY DEF TextInd, Sweep
<1> DEFINE next == Head(chunks)
           rest == Tail(chunks)
           gap == ByteRange(cur.end, next.start)
<1>2. /\ next \in Stretches(text) /\ InBudget(text, Cut(next)) /\ next = chunks[1]
      /\ Ordered(text, rest) /\ (rest # <<>> => Precedes(text, next, rest[1]))
  BY <1>1, RestIsOrdered DEF Sweeping
<1>3. Precedes(text, cur, next) /\ windows = <<>> /\ Tiles(text, pieces, cur.start)
      /\ cur \in Stretches(text) /\ InBudget(text, Cut(cur))
  BY <1>1, <1>2 DEF Sweeping
<1>4. /\ cur.start \in Nat /\ cur.end \in Nat /\ cur.start < cur.end /\ cur.end <= text.units
      /\ next.start \in Nat /\ next.end \in Nat /\ next.start < next.end /\ next.end <= text.units
      /\ cur.start < next.start /\ cur.end < next.end /\ (text.overlap = 0 => cur.end <= next.start)
      /\ text.units \in Nat
  BY <1>1, <1>2, <1>3, CurFacts DEF Precedes
<1>5. /\ gap.start = cur.end /\ gap.end = next.start
      /\ (cur.end < next.start => gap \in Stretches(text))
  BY <1>4, RangeFacts
<1>6. \/ ~Nonempty(gap) /\ Step(next, rest, Append(pieces, Cut(cur)))
      \/ \E what \in {"Tokenize", "ContentlessInputOverBudget"} : Ended(what)
      \/ FitsBudget(cur.start, gap.end) /\ Step(next, rest, Append(pieces, Cut(ByteRange(cur.start, gap.end))))
      \/ Nonempty(gap) /\ FitsBudget(gap.start, next.end)
         /\ Step(ByteRange(gap.start, next.end), rest, Append(pieces, Cut(cur)))
      \/ Nonempty(gap) /\ OwnFails(gap) = "ok" /\ Step(next, rest, pieces \o <<Cut(cur), Own(gap)>>)
  <2>1. OwnFails(gap) \in {"Tokenize", "ContentlessInputOverBudget", "ok"}
    BY DEF OwnFails
  <2>2. QED
    BY <2>1 DEF Sweep
<1> HIDE DEF next, rest, gap
<1>7. ASSUME ~Nonempty(gap), Step(next, rest, Append(pieces, Cut(cur))) PROVE TextInd'
  <2>1. next.start <= cur.end /\ (text.overlap = 0 => next.start = cur.end)
    BY <1>4, <1>5, <1>7 DEF Nonempty
  <2>2. Tiles(text, Append(pieces, Cut(cur)), next.start)
    BY <1>1, <1>3, <1>4, <2>1, PiecesGrow
  <2>3. QED
    BY <1>1, <1>2, <1>3, <1>7, <2>2, SweepOn DEF Step
<1>8. ASSUME NEW what \in {"Tokenize", "ContentlessInputOverBudget"}, Ended(what) PROVE TextInd'
  BY <1>8, ComplaintStep
<1>9. ASSUME FitsBudget(cur.start, gap.end), Step(next, rest, Append(pieces, Cut(ByteRange(cur.start, gap.end))))
      PROVE  TextInd'
  <2> DEFINE c == ByteRange(cur.start, gap.end)
  <2>1. c \in Stretches(text) /\ c.start = cur.start /\ c.end = next.start /\ InBudget(text, Cut(c))
    BY <1>4, <1>5, <1>9, RangeFacts
  <2> HIDE DEF c
  <2>2. Tiles(text, pieces, c.start) /\ next.start <= c.end
    BY <1>3, <1>4, <2>1
  <2>3. Tiles(text, Append(pieces, Cut(c)), next.start)
    BY <1>1, <1>4, <2>1, <2>2, PiecesGrow
  <2>4. QED
    BY <1>1, <1>2, <1>3, <1>9, <2>3, SweepOn DEF Step, c
<1>10. ASSUME Nonempty(gap), FitsBudget(gap.start, next.end),
              Step(ByteRange(gap.start, next.end), rest, Append(pieces, Cut(cur)))
       PROVE  TextInd'
  <2> DEFINE c == ByteRange(gap.start, next.end)
  <2>1. c \in Stretches(text) /\ c.start = cur.end /\ c.end = next.end /\ InBudget(text, Cut(c))
    BY <1>4, <1>5, <1>10, RangeFacts
  <2>2. cur.end < next.start
    BY <1>5, <1>10 DEF Nonempty
  <2> HIDE DEF c
  <2>3. Tiles(text, Append(pieces, Cut(cur)), c.start)
    BY <1>1, <1>3, <1>4, <2>1, PiecesGrow
  <2>4. ASSUME rest # <<>> PROVE Precedes(text, c, rest[1])
    <3> DEFINE d == rest[1]
    <3>1. d \in Stretches(text)
      BY <1>2, <2>4, RestIsOrdered
    <3>2. d.start \in Nat /\ d.end \in Nat
      BY <3>1 DEF Stretches
    <3>3. next.start < d.start /\ next.end < d.end /\ (text.overlap = 0 => next.end <= d.start)
      BY <1>2, <2>4 DEF Precedes
    <3> HIDE DEF d
    <3>4. c.start < d.start /\ c.end < d.end /\ (text.overlap = 0 => c.end <= d.start)
      BY <1>4, <2>1, <2>2, <3>2, <3>3
    <3>5. QED
      BY <3>4 DEF Precedes, d
  <2>5. cur' = c /\ chunks' = rest /\ pieces' = Append(pieces, Cut(cur)) /\ text' = text
        /\ windows' = windows /\ state' = "sweeping"
    BY <1>1, <1>10 DEF Step, c
  <2>6. QED
    BY <1>1, <1>2, <1>3, <2>1, <2>3, <2>4, <2>5, SweepOn
<1>11. ASSUME Nonempty(gap), OwnFails(gap) = "ok", Step(next, rest, pieces \o <<Cut(cur), Own(gap)>>)
       PROVE  TextInd'
  <2>1. gap \in Stretches(text) /\ gap.start = cur.end /\ gap.end = next.start
    BY <1>5, <1>11 DEF Nonempty
  <2>2. InBudget(text, Own(gap))
    BY <1>1, <1>11, <2>1, OwnIsInBudget
  <2>3. Tiles(text, Append(pieces, Cut(cur)), gap.start)
    BY <1>1, <1>3, <1>4, <2>1, PiecesGrow
  <2>4. Tiles(text, Append(Append(pieces, Cut(cur)), Own(gap)), next.start)
    BY <1>1, <1>4, <2>1, <2>2, <2>3, PiecesGrow
  <2>5. pieces \o <<Cut(cur), Own(gap)>> = Append(Append(pieces, Cut(cur)), Own(gap))
    <3>1. pieces \in Seq(Pieces(text)) /\ Cut(cur) \in Pieces(text) /\ Own(gap) \in Pieces(text)
      BY <1>1, <1>3, <2>1, CurFacts DEF Tiles
    <3>2. QED
      BY <3>1, TwoMore
  <2>6. QED
    BY <1>1, <1>2, <1>3, <1>11, <2>4, <2>5, SweepOn DEF Step
<1>12. QED
  BY <1>6, <1>7, <1>8, <1>9, <1>10, <1>11

\* What the sweep leaves at the end of the text.
LEMMA SweptAt ==
  ASSUME text \in LongTexts, text' = text, windows' = windows, state' = "swept", windows = <<>>,
         text.window <= TokenCeiling, NEW ps, NEW c \in Stretches(text), Tiles(text, ps, c.start),
         NEW p \in {Cut(c), Own(c)}, InBudget(text, p), c.end = text.units, pieces' = Append(ps, p)
  PROVE  TextInd'
<1>1. c.end \in Nat /\ p.chunk = c
  BY CurFacts
<1>2. Tiles(text, pieces', text.units) /\ pieces' # <<>> /\ pieces'[Len(pieces')] = p
  BY <1>1, PiecesGrow
<1>3. Whole(text, pieces')
  BY <1>1, <1>2 DEF Whole
<1>4. QED
  BY <1>3 DEF TextInd

LEMMA TrailStep == ASSUME TextInd, Trail PROVE TextInd'
<1>1. /\ text \in LongTexts /\ text.window <= TokenCeiling /\ Sweeping /\ state = "sweeping"
  BY DEF TextInd, Trail
<1>2. /\ windows = <<>> /\ Tiles(text, pieces, cur.start)
      /\ cur \in Stretches(text) /\ InBudget(text, Cut(cur))
  BY <1>1 DEF Sweeping
<1>3. /\ cur.start \in Nat /\ cur.end \in Nat /\ cur.start < cur.end /\ cur.end <= text.units /\ text.units \in Nat
  BY <1>1, <1>2, CurFacts
<1> DEFINE rest == ByteRange(cur.end, text.units)
           swept == state' = "swept" /\ UNCHANGED <<text, chunks, cur, windows>>
<1>4. /\ rest.start = cur.end /\ rest.end = text.units
      /\ (cur.end < text.units => rest \in Stretches(text))
  BY <1>3, RangeFacts
<1>5. \/ ~Nonempty(rest) /\ pieces' = Append(pieces, Cut(cur)) /\ swept
      \/ \E what \in {"Tokenize", "ContentlessInputOverBudget"} : Ended(what)
      \/ /\ FitsBudget(cur.start, rest.end)
         /\ pieces' = Append(pieces, Cut(ByteRange(cur.start, rest.end))) /\ swept
      \/ Nonempty(rest) /\ OwnFails(rest) = "ok" /\ pieces' = pieces \o <<Cut(cur), Own(rest)>> /\ swept
  <2>1. OwnFails(rest) \in {"Tokenize", "ContentlessInputOverBudget", "ok"}
    BY DEF OwnFails
  <2>2. QED
    BY <2>1 DEF Trail
<1> HIDE DEF rest
<1>6. ASSUME ~Nonempty(rest), pieces' = Append(pieces, Cut(cur)), swept PROVE TextInd'
  <2>1. cur.end = text.units
    BY <1>3, <1>4, <1>6 DEF Nonempty
  <2>2. QED
    BY <1>1, <1>2, <1>6, <2>1, SweptAt
<1>7. ASSUME NEW what \in {"Tokenize", "ContentlessInputOverBudget"}, Ended(what) PROVE TextInd'
  BY <1>7, ComplaintStep
<1>8. ASSUME FitsBudget(cur.start, rest.end), pieces' = Append(pieces, Cut(ByteRange(cur.start, rest.end))), swept
      PROVE  TextInd'
  <2> DEFINE c == ByteRange(cur.start, rest.end)
  <2>1. c \in Stretches(text) /\ c.start = cur.start /\ c.end = text.units /\ InBudget(text, Cut(c))
    BY <1>3, <1>4, <1>8, RangeFacts
  <2>2. pieces' = Append(pieces, Cut(c))
    BY <1>8
  <2> HIDE DEF c
  <2>3. Tiles(text, pieces, c.start)
    BY <1>2, <2>1
  <2>4. QED
    BY <1>1, <1>2, <1>8, <2>1, <2>2, <2>3, SweptAt
<1>9. ASSUME Nonempty(rest), OwnFails(rest) = "ok", pieces' = pieces \o <<Cut(cur), Own(rest)>>, swept
      PROVE  TextInd'
  <2>1. rest \in Stretches(text)
    BY <1>4, <1>9 DEF Nonempty
  <2>2. InBudget(text, Own(rest))
    BY <1>1, <1>9, <2>1, OwnIsInBudget
  <2>3. Tiles(text, Append(pieces, Cut(cur)), rest.start)
    BY <1>1, <1>2, <1>3, <1>4, PiecesGrow
  <2>4. pieces' = Append(Append(pieces, Cut(cur)), Own(rest))
    <3>1. pieces \in Seq(Pieces(text)) /\ Cut(cur) \in Pieces(text) /\ Own(rest) \in Pieces(text)
      BY <1>1, <1>2, <2>1, CurFacts DEF Tiles
    <3>2. QED
      BY <1>9, <3>1, TwoMore
  <2>5. QED
    BY <1>1, <1>2, <1>4, <1>9, <2>1, <2>2, <2>3, <2>4, SweptAt
<1>10. QED
  BY <1>5, <1>6, <1>7, <1>8, <1>9

LEMMA BindCapStep == ASSUME TextInd, BindCap PROVE TextInd'
<1>1. /\ text \in LongTexts /\ text.window <= TokenCeiling /\ state = "swept"
      /\ windows = <<>> /\ (pieces = <<>> \/ Whole(text, pieces))
  BY DEF TextInd, BindCap
<1>2. text.units \in Nat /\ text.cap \in Nat
  BY <1>1, Counted
<1> DEFINE whole == ByteRange(0, text.units)
           all == IF pieces = <<>> /\ text.units > 0 THEN <<Own(whole)>> ELSE pieces
<1>3. OwnFails(whole) \in {"Tokenize", "ContentlessInputOverBudget", "ok"}
  BY DEF OwnFails
<1>4. \/ \E what \in {"Tokenize", "ContentlessInputOverBudget", "Windowing"} : Ended(what)
      \/ /\ pieces = <<>> /\ text.units > 0 => OwnFails(whole) = "ok"
         /\ ~(text.cap # 0 /\ Len(all) > text.cap)
         /\ pieces' = all /\ state' = "chunked" /\ UNCHANGED <<text, chunks, cur, windows>>
  BY <1>3 DEF BindCap
<1>5. ASSUME NEW what \in {"Tokenize", "ContentlessInputOverBudget", "Windowing"}, Ended(what) PROVE TextInd'
  BY <1>5, ComplaintStep
<1>6. ASSUME pieces = <<>> /\ text.units > 0 => OwnFails(whole) = "ok",
             ~(text.cap # 0 /\ Len(all) > text.cap), pieces' = all, state' = "chunked",
             UNCHANGED <<text, chunks, cur, windows>>
      PROVE  TextInd'
  <2>1. pieces' = <<>> \/ Whole(text, pieces')
    <3>1. CASE pieces = <<>> /\ text.units > 0
      <4>1. whole \in Stretches(text) /\ whole.start = 0 /\ whole.end = text.units
        BY <1>2, <3>1, RangeFacts
      <4>2. InBudget(text, Own(whole))
        BY <1>1, <1>6, <3>1, <4>1, OwnIsInBudget
      <4>3. pieces' = Append(<<>>, Own(whole)) /\ Own(whole).chunk = whole
        BY <1>1, <1>6, <3>1, <4>1, CurFacts
      <4>4. Tiles(text, <<>>, whole.start)
        BY <4>1, NothingIsCovered
      <4> HIDE DEF whole
      <4> DEFINE ps == Append(<<>>, Own(whole))
      <4>5. text.units <= whole.end /\ text.units = whole.end
        BY <1>2, <4>1
      <4>6. Tiles(text, ps, text.units) /\ ps # <<>> /\ ps[Len(ps)] = Own(whole)
        BY <1>1, <1>2, <4>1, <4>2, <4>4, <4>5, PiecesGrow
      <4> HIDE DEF ps
      <4>7. pieces' = ps
        BY <4>3 DEF ps
      <4>8. QED
        BY <4>1, <4>3, <4>6, <4>7 DEF Whole
    <3>2. CASE ~(pieces = <<>> /\ text.units > 0)
      BY <1>1, <1>6, <3>2
    <3>3. QED
      BY <3>1, <3>2
  <2>2. text.units > 0 => pieces' # <<>>
    BY <1>6
  <2>3. Len(pieces') \in Nat
    BY <2>1 DEF Whole, Tiles
  <2>4. text.cap # 0 => Len(pieces') <= text.cap
    BY <1>2, <1>6, <2>3
  <2>5. Len(windows') = 0 /\ windows' \in Seq([chunk : Stretches(text), offset : Int, ids : Int])
        /\ DOMAIN windows' = {}
    BY <1>1, <1>6
  <2>6. Embedding'
    BY <1>6, <2>1, <2>2, <2>3, <2>4, <2>5 DEF Embedding
  <2>7. QED
    BY <1>1, <1>6, <2>6 DEF TextInd
<1>7. QED
  BY <1>4, <1>5, <1>6

LEMMA EmbedStep == ASSUME TextInd, Embed PROVE TextInd'
<1>1. /\ text \in LongTexts /\ text.window <= TokenCeiling /\ Embedding /\ state = "chunked"
  BY DEF TextInd, Embed
<1>2. CASE \E what \in {"EmptyText", "Tokenize", "NonFiniteOutput"} : Ended(what)
  BY <1>2, ComplaintStep
<1>3. CASE Ended("ok") /\ Len(windows) = Len(pieces)
  <2>1. Embedding'
    BY <1>1, <1>3 DEF Embedding, Ended
  <2>2. QED
    BY <1>1, <1>3, <2>1 DEF TextInd, Ended
<1> DEFINE n == Len(windows) + 1
           c == pieces[n].chunk
           ids == IF Enc(c) > TokenCeiling THEN TokenCeiling ELSE Enc(c)
           offset == IF windows = <<>> THEN 0 ELSE windows[Len(windows)].offset + windows[Len(windows)].ids
<1>4. CASE /\ pieces # <<>> /\ Len(windows) # Len(pieces)
           /\ windows' = Append(windows, [chunk |-> c, offset |-> offset, ids |-> ids])
           /\ UNCHANGED <<text, chunks, cur, pieces, state>>
  <2> DEFINE Row == [chunk : Stretches(text), offset : Int, ids : Int]
             w == [chunk |-> c, offset |-> offset, ids |-> ids]
  <2>1. Whole(text, pieces) /\ windows \in Seq(Row) /\ Len(windows) <= Len(pieces)
    BY <1>1, <1>4 DEF Embedding
  <2>2. pieces \in Seq(Pieces(text)) /\ \A i \in DOMAIN pieces : InBudget(text, pieces[i])
    BY <2>1 DEF Whole, Tiles
  <2>3. Len(windows) \in Nat /\ Len(pieces) \in Nat /\ DOMAIN pieces = 1 .. Len(pieces)
        /\ DOMAIN windows = 1 .. Len(windows)
    BY <2>1, <2>2
  <2> DEFINE before == Len(windows)
             many == Len(pieces)
  <2>a. before \in Nat /\ many \in Nat /\ before <= many /\ before # many /\ n = before + 1
    BY <1>4, <2>1, <2>3
  <2> HIDE DEF n, before, Row
  <2>b. n \in 1 .. many /\ n <= many /\ n \in Nat
    BY <2>a
  <2>4. n \in DOMAIN pieces /\ n <= Len(pieces) /\ n \in Nat
    BY <2>3, <2>b
  <2>5. c \in Stretches(text)
    <3>1. pieces[n] \in Pieces(text)
      BY <2>2, <2>4
    <3>2. QED
      BY <3>1 DEF Pieces
  <2>6. InBudget(text, pieces[n])
    BY <2>2, <2>4
  <2>7. ids = Count(text, c) /\ ids \in Int
    <3>1. Count(text, c) \in Nat /\ (c.end = c.start + 1 => Count(text, c) <= TokenCeiling)
          /\ text.window \in Nat /\ TokenCeiling \in Nat
      BY <1>1, <2>5, Counted
    <3>2. \/ Count(text, c) <= text.window
          \/ Count(text, c) <= TokenCeiling
          \/ c.end = c.start + 1
      BY <2>6 DEF InBudget
    <3>3. Count(text, c) <= TokenCeiling
      BY <1>1, <3>1, <3>2
    <3>4. Enc(c) = Count(text, c)
      BY DEF Enc, Count
    <3>5. QED
      BY <3>1, <3>3, <3>4
  <2>8. offset \in Int
    <3>1. CASE windows = <<>>
      BY <3>1
    <3>2. CASE windows # <<>>
      <4>0. windows \in Seq(Row)
        BY <2>1
      <4>1. windows[Len(windows)] \in Row
        BY <3>2, <4>0
      <4>2. windows[Len(windows)].offset \in Int /\ windows[Len(windows)].ids \in Int
        BY <4>1 DEF Row
      <4>3. QED
        BY <3>2, <4>2
    <3>3. QED
      BY <3>1, <3>2
  <2>9. w \in Row /\ w.chunk = c /\ w.ids = Count(text, c)
    BY <2>5, <2>7, <2>8 DEF Row
  <2>10. windows' = Append(windows, w)
    BY <1>4
  <2> HIDE DEF w, ids, offset, Row
  <2>11. /\ windows' \in Seq(Row) /\ Len(windows') = n /\ DOMAIN windows' = 1 .. n
         /\ (\A i \in 1 .. Len(windows) : windows'[i] = windows[i]) /\ windows'[n] = w
    BY <2>1, <2>3, <2>9, <2>10 DEF n
  <2>12. ASSUME NEW i \in 1 .. n
         PROVE  windows'[i].chunk = pieces[i].chunk /\ windows'[i].ids = Count(text, pieces[i].chunk)
    <3>1. CASE i = n
      BY <2>9, <2>11, <3>1
    <3>2. CASE i # n
      <4>1. i \in 1 .. Len(windows)
        BY <2>3, <3>2 DEF n
      <4>2. QED
        BY <1>1, <2>3, <2>11, <4>1 DEF Embedding
    <3>3. QED
      BY <3>1, <3>2
  <2>13. Embedding'
    <3>1. text' = text /\ pieces' = pieces
      BY <1>4
    <3>2. windows' \in Seq([chunk : Stretches(text), offset : Int, ids : Int])
      BY <2>11 DEF Row
    <3>3. text.units > 0 => pieces # <<>>
      BY <1>4
    <3>4. text.cap # 0 => Len(pieces) <= text.cap
      BY <1>1 DEF Embedding
    <3>5. QED
      BY <2>1, <2>4, <2>11, <2>12, <3>1, <3>2, <3>3, <3>4 DEF Embedding
  <2>14. text' = text /\ state' = "chunked"
    BY <1>1, <1>4
  <2>15. QED
    BY <1>1, <2>13, <2>14 DEF TextInd
<1>5. QED
  BY <1>2, <1>3, <1>4 DEF Embed

LEMMA TextStep == ASSUME TextInd, [TextNext]_textVars PROVE TextInd'
<1>1. CASE UNCHANGED textVars
  BY <1>1 DEF textVars, TextInd, Sweeping, Embedding
<1>2. QED
  BY <1>1, ChunkLongStep, SweepStep, TrailStep, BindCapStep, EmbedStep DEF TextNext

LEMMA TextTold == ASSUME TextInd PROVE TextIsWhole
<1> SUFFICES ASSUME state \in {"chunked", "ok"}, text.units > 0
             PROVE  /\ \A u \in 0 .. text.units - 1 :
                         \E i \in DOMAIN pieces : pieces[i].chunk.start <= u /\ u < pieces[i].chunk.end
                    /\ pieces[1].chunk.start = 0 /\ pieces[Len(pieces)].chunk.end = text.units
                    /\ text.overlap = 0 =>
                         \A i \in 1 .. Len(pieces) - 1 : pieces[i].chunk.end = pieces[i + 1].chunk.start
                    /\ text.cap # 0 => Len(pieces) <= text.cap
                    /\ \A i \in DOMAIN pieces :
                         \/ Enc(pieces[i].chunk) <= text.window
                         \/ pieces[i].why = "own" /\ Enc(pieces[i].chunk) <= TokenCeiling
                         \/ pieces[i].chunk.end = pieces[i].chunk.start + 1
                    /\ \A i \in DOMAIN windows : /\ windows[i].chunk = pieces[i].chunk
                                                 /\ windows[i].ids = Enc(pieces[i].chunk)
                    /\ state = "ok" => Len(windows) = Len(pieces)
  BY DEF TextIsWhole
<1>1. Embedding /\ Whole(text, pieces) /\ Tiles(text, pieces, text.units)
  BY DEF TextInd, Embedding, Whole
<1>2. \A c : Enc(c) = Count(text, c)
  BY DEF Enc, Count
<1>3. \A u \in 0 .. text.units - 1 :
        \E i \in DOMAIN pieces : pieces[i].chunk.start <= u /\ u < pieces[i].chunk.end
  BY <1>1 DEF Tiles, Reaches
<1>4. /\ pieces[1].chunk.start = 0 /\ pieces[Len(pieces)].chunk.end = text.units
      /\ text.overlap = 0 => \A i \in 1 .. Len(pieces) - 1 : pieces[i].chunk.end = pieces[i + 1].chunk.start
  BY <1>1 DEF Whole, Tiles
<1>5. text.cap # 0 => Len(pieces) <= text.cap
  BY <1>1 DEF Embedding
<1>6. ASSUME NEW i \in DOMAIN pieces
      PROVE  \/ Enc(pieces[i].chunk) <= text.window
             \/ pieces[i].why = "own" /\ Enc(pieces[i].chunk) <= TokenCeiling
             \/ pieces[i].chunk.end = pieces[i].chunk.start + 1
  BY <1>1, <1>2 DEF Tiles, InBudget
<1>7. \A i \in DOMAIN windows : windows[i].chunk = pieces[i].chunk /\ windows[i].ids = Enc(pieces[i].chunk)
  BY <1>1, <1>2 DEF Embedding
<1>8. state = "ok" => Len(windows) = Len(pieces)
  BY DEF TextInd
<1>9. QED
  BY <1>3, <1>4, <1>5, <1>6, <1>7, <1>8

\* The pieces of a long text reach every unit of it from end to end, abut where
\* no overlap was asked for, are within budget, and their windows are encoded
\* whole (TextIsWhole), for any text, tokenizer and chunker's lists.
THEOREM TextsStayWhole == TextInit /\ [][TextNext]_textVars => []TextIsWhole
<1>1. TextInd /\ [TextNext]_textVars => TextInd'
  BY TextStep
<1>2. QED
  BY TextInitially, <1>1, TextTold, PTL
=============================================================================
