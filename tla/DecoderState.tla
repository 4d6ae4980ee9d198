---------------------------- MODULE DecoderState ----------------------------
(***************************************************************************)
(* CoreMlDecoderState: the tensors one transcription decodes all its       *)
(* windows with, and the passes that share them: language probes and the   *)
(* attempts of each window's fallback ladder.  A reset puts the masks back *)
(* and leaves keys, values and alignment rows where they are.  The model   *)
(* is external: it attends to the slots the padding mask exposes, reading  *)
(* the caches there, but its own update at the slot of the update mask.    *)
(***************************************************************************)
EXTENDS Integers, Sequences

CONSTANTS
  MaxContext,        \* max_token_context: slots of the caches
  LoopBound,         \* MAX_TOKEN_CONTEXT, the floor of the load contract
  SampleLength,      \* options.sample_length()
  HasAlignment,      \* supports_alignment: the model has the word head
  Tokens,
  Audio,             \* encoder outputs
  Nothing            \* what a slot holds that was never written

ASSUME ContextAssumption ==
  /\ LoopBound \in Nat \ {0}
  /\ MaxContext \in Nat /\ MaxContext >= LoopBound
  /\ SampleLength \in Nat
ASSUME HeadAssumption == HasAlignment \in BOOLEAN

\* What a token leaves behind depends on the audio it was fed with.
Memory == [audio : Audio, token : Tokens]
ASSUME NothingAssumption == Nothing \notin Memory

Slots == 0..(MaxContext - 1)
Rows == 0..MaxContext
None == -1

VARIABLES
  keys, values,      \* key_cache, value_cache
  exposed,           \* decoder_key_padding_mask: the slots at zero
  target,            \* kv_cache_update_mask: the slots at one
  alignment,         \* the accumulator: one row of headroom, never cleared
  staged,            \* align_scratch
  pending,           \* pending_alignment, None when there is none
  hasRows,           \* window_has_alignment
  phase,             \* what the task does with the state
  audio,             \* the window's encoder output
  context,           \* what was fed in this pass: a pass's own record
  read,              \* what the last prediction attended to
  rows,              \* AlignmentRows: the rows this decode committed
  snapshot           \* the attempt's alignment, if it had any

tensors == <<keys, values, exposed, target, alignment, staged, pending, hasRows>>
pass == <<phase, audio, context, read, rows, snapshot>>
vars == <<tensors, pass>>

Init ==
  /\ keys = [s \in Slots |-> Nothing]
  /\ values = [s \in Slots |-> Nothing]
  /\ exposed = {0}
  /\ target = {0}
  /\ alignment = [r \in Rows |-> Nothing]
  /\ staged = Nothing
  /\ pending = None
  /\ hasRows = FALSE
  /\ phase = "idle"
  /\ audio \in Audio
  /\ context = <<>>
  /\ read = {}
  /\ rows = {}
  /\ snapshot = {}

\* Slip: the reset forgets the padding mask.
ResetLeavesPadding ==
  /\ target' = {0}
  /\ pending' = None
  /\ hasRows' = FALSE
  /\ UNCHANGED <<keys, values, exposed, alignment, staged>>

\* reset_decoder_state: masks and bookkeeping go back, the data stays.
ResetState ==
  /\ exposed' = {0}
  /\ target' = {0}
  /\ pending' = None
  /\ hasRows' = FALSE
  /\ UNCHANGED <<keys, values, alignment, staged>>

\* What the model attends to when it is given this memory.
Attended(memory) ==
  {<<s, keys[s]>> : s \in exposed \ target}
    \cup {<<s, values[s]>> : s \in exposed \ target}
    \cup {<<s, memory>> : s \in exposed \cap target}

\* How far a step comes before one of its fallible calls fails, if one does:
\* the prediction with its missing outputs, the copy of the keys, that of the
\* values, that of the alignment row.
Failures == {"predict", "keys", "values", "alignment"}

\* Slip: the next two slots are exposed.
MasksMoveTwo(position) ==
  /\ exposed' = exposed \cup {s \in Slots : s \in {position + 1, position + 2}}
  /\ target' = IF position + 1 \in Slots
                 THEN (target \ {position}) \cup {position + 1} ELSE target

\* The next slot is exposed and becomes the one to update; past the last slot
\* there is none, and both masks stay.
MoveMasks(position) ==
  IF position + 1 \in Slots
    THEN /\ exposed' = exposed \cup {position + 1}
         /\ target' = (target \ {position}) \cup {position + 1}
    ELSE UNCHANGED <<exposed, target>>

\* The bookkeeping of rows at the end of a step: a pass starts at position
\* zero, and a row is staged when the outputs carry one.
StageRow(position, memory, carried) ==
  /\ hasRows' = (hasRows /\ position # 0)
  /\ pending' = IF HasAlignment /\ carried THEN position ELSE None
  /\ staged' = IF HasAlignment /\ carried THEN memory ELSE staged

\* decode_step that succeeds: the prediction reads, both caches take the
\* update at the position, the masks move on and the row is staged.
StepOk(position, memory, carried) ==
  /\ read' = Attended(memory)
  /\ keys' = [keys EXCEPT ![position] = memory]
  /\ values' = [values EXCEPT ![position] = memory]
  /\ MoveMasks(position)
  /\ StageRow(position, memory, carried)
  /\ UNCHANGED alignment

\* decode_step that fails: what it did before stays done.  (The check of the
\* position against the slots never fails: the loop stays below the floor.)
StepErr(position, memory, at) ==
  /\ read' = read
  /\ keys' = IF at = "predict" \/ at = "keys" THEN keys
             ELSE [keys EXCEPT ![position] = memory]
  /\ values' = IF at = "alignment" THEN [values EXCEPT ![position] = memory]
               ELSE values
  /\ IF at = "alignment" THEN MoveMasks(position) ELSE UNCHANGED <<exposed, target>>
  /\ hasRows' = (hasRows /\ ~(at = "alignment" /\ position = 0))
  /\ pending' = IF at = "alignment" /\ position = 0 THEN None ELSE pending
  /\ UNCHANGED <<alignment, staged>>

\* Slip: a row counts as committed whether or not the backend wrote one.
CommitMarksAlways ==
  /\ rows' = rows \cup {Len(context)}
  /\ IF pending = None
       THEN UNCHANGED <<alignment, hasRows>>
       ELSE /\ alignment' = [alignment EXCEPT ![pending + 1] = staged]
            /\ hasRows' = TRUE
  /\ pending' = None

\* commit_alignment_row, and the decode loop's record of a row it was told was
\* written: the row of the step's prediction, one past the position it fed.
CommitRow ==
  /\ IF pending = None
       THEN UNCHANGED <<alignment, hasRows, rows>>
       ELSE /\ alignment' = [alignment EXCEPT ![pending + 1] = staged]
            /\ hasRows' = TRUE
            /\ rows' = rows \cup {Len(context)}
  /\ pending' = None

LoopCount == IF SampleLength < LoopBound - 1 THEN SampleLength ELSE LoopBound - 1

Fed(token) == [audio |-> audio, token |-> token]

\* detect_language: one step at position zero, ...
ProbeStep(token, carried) ==
  /\ phase = "idle"
  /\ phase' = "probed"
  /\ StepOk(0, Fed(token), carried)
  /\ context' = <<Fed(token)>>
  /\ UNCHANGED <<audio, rows, snapshot>>

ProbeFails(token, at) ==
  /\ phase = "idle"
  /\ phase' = "probed"
  /\ StepErr(0, Fed(token), at)
  /\ context' = <<>>
  /\ UNCHANGED <<audio, rows, snapshot>>

\* ... and a reset on every path, errors included, which are not the end of
\* the attempt.
ProbeEnds ==
  /\ phase = "probed"
  /\ phase' = "idle"
  /\ ResetState
  /\ context' = <<>>
  /\ read' = {}
  /\ UNCHANGED <<audio, rows, snapshot>>

\* An attempt's decode starts, with rows of its own, on a state that was reset.
BeginDecode ==
  /\ phase = "idle"
  /\ phase' = "decoding"
  /\ UNCHANGED <<tensors, audio, context, read, rows, snapshot>>

Decode(token, carried) ==
  /\ phase = "decoding" /\ Len(context) < LoopCount
  /\ phase' = "stepped"
  /\ StepOk(Len(context), Fed(token), carried)
  /\ context' = Append(context, Fed(token))
  /\ UNCHANGED <<audio, rows, snapshot>>

\* An error ends the call, and with it the life of the state.
DecodeFails(token, at) ==
  /\ phase = "decoding" /\ Len(context) < LoopCount
  /\ phase' = "failed"
  /\ StepErr(Len(context), Fed(token), at)
  /\ UNCHANGED <<audio, context, rows, snapshot>>

\* A completing step breaks out of the loop before its row is committed.
Completes ==
  /\ phase = "stepped"
  /\ phase' = "ended"
  /\ UNCHANGED <<tensors, audio, context, read, rows, snapshot>>

\* Any other step commits its row; an early stop breaks after that.
Commits ==
  /\ phase = "stepped"
  /\ phase' \in {"decoding", "ended"}
  /\ CommitRow
  /\ UNCHANGED <<keys, values, exposed, target, staged,
                 audio, context, read, snapshot>>

LoopEnds ==
  /\ phase = "decoding" /\ Len(context) = LoopCount
  /\ phase' = "ended"
  /\ UNCHANGED <<tensors, audio, context, read, rows, snapshot>>

\* The attempt's rows are copied out before anything decodes over them.
Capture ==
  /\ phase = "ended"
  /\ phase' = "captured"
  /\ snapshot' = IF HasAlignment /\ hasRows
                   THEN {[matrix |-> alignment, rows |-> rows]} ELSE {}
  /\ UNCHANGED <<tensors, audio, context, read, rows>>

\* The attempt is rejected, or its window is over and the next one's audio is
\* encoded: its records leave with its result, and the state is reset.  (A silent window is not, but no window is
\* silent: no_speech_prob is always zero.)
NextPass(next) ==
  /\ phase = "captured"
  /\ phase' = "idle"
  /\ ResetState
  /\ audio' = next
  /\ context' = <<>>
  /\ read' = {}
  /\ rows' = {}
  /\ snapshot' = {}

Next ==
  \/ \E token \in Tokens, carried \in BOOLEAN :
       ProbeStep(token, carried) \/ Decode(token, carried)
  \/ \E token \in Tokens, at \in Failures :
       ProbeFails(token, at) \/ DecodeFails(token, at)
  \/ ProbeEnds
  \/ BeginDecode
  \/ Completes
  \/ Commits
  \/ LoopEnds
  \/ Capture
  \/ \E next \in Audio : NextPass(next)

Spec == Init /\ [][Next]_vars

-----------------------------------------------------------------------------
TypeOK ==
  /\ keys \in [Slots -> Memory \cup {Nothing}]
  /\ values \in [Slots -> Memory \cup {Nothing}]
  /\ exposed \subseteq Slots
  /\ target \subseteq Slots
  /\ alignment \in [Rows -> Memory \cup {Nothing}]
  /\ staged \in Memory \cup {Nothing}
  /\ pending \in Slots \cup {None}
  /\ hasRows \in BOOLEAN
  /\ phase \in {"idle", "probed", "decoding", "stepped", "ended", "captured", "failed"}
  /\ audio \in Audio
  /\ context \in Seq(Memory)
  /\ Len(context) <= MaxContext
  /\ rows \subseteq Rows
  /\ snapshot \subseteq [matrix : [Rows -> Memory \cup {Nothing}], rows : SUBSET Rows]

Fresh == exposed = {0} /\ target = {0} /\ pending = None /\ ~hasRows

\* The masks of a pass that fed n tokens: they expose its slots and the one to
\* be updated next, if there is one.
MasksAt(n) ==
  /\ exposed = 0..(IF n < MaxContext THEN n ELSE MaxContext - 1)
  /\ target = {IF n < MaxContext THEN n ELSE MaxContext - 1}

\* Between passes the state is as good as new, and in a pass the masks expose
\* what the pass wrote into both caches, whatever earlier passes, failed
\* probes and rejected attempts left there.
StateFollowsPass ==
  /\ phase = "idle" => Fresh
  /\ phase \in {"decoding", "stepped", "ended", "captured"} =>
       /\ MasksAt(Len(context))
       /\ \A i \in DOMAIN context :
            keys[i - 1] = context[i] /\ values[i - 1] = context[i]

DecoderInv == TypeOK /\ StateFollowsPass

\* The weights read for a token are its own.  The backend and the decode loop
\* each keep their own account of what was committed: they agree on whether
\* anything was, and every row the loop counts as its own, and every one it
\* captures, holds the weights of the step that predicted its token.
RowsAreOwn ==
  /\ phase \in {"decoding", "stepped", "ended", "captured"} =>
       /\ hasRows <=> rows # {}
       /\ rows \subseteq DOMAIN context
       /\ \A r \in rows : alignment[r] = context[r]
  /\ phase = "captured" =>
       \A s \in snapshot : /\ s.rows = rows /\ rows # {}
                            /\ \A r \in rows : s.matrix[r] = context[r]

\* Every prediction reads what its own pass fed, each token at its position,
\* and nothing that an earlier pass left in the caches.
Decoder == INSTANCE AutoregressiveDecoder WITH
  Memories <- Memory, fed <- context, seen <- read
PassIsAutoregressive == Decoder!Spec

-----------------------------------------------------------------------------
(***************************************************************************)
(* The alignment gather that answers as Swift's does: rows of a padded     *)
(* surface copied flat into another, and read there by its own pitch.  The *)
(* loop goes run by run: weights as far as a source row or the copy goes,  *)
(* then the padding between two rows.                                      *)
(***************************************************************************)

VARIABLES
  gather,   \* rows and columns, heights and pitches; "idle" when there is none
  spot,     \* the row being written, its column, the offset read; end of its copy
  out       \* cells written so far: <<row, column>> -> a cell of the source, or Zero

gatherVars == <<gather, spot, out>>

Lesser(a, b) == IF a <= b THEN a ELSE b
Zero == <<-1, -1>>
Idle == [needed |-> 0, cols |-> 1, rows |-> 0, sourceRows |-> 0, src |-> 1, dst |-> 1]

\* The source read is the smaller of what Swift allocates and what there is; a
\* pitch is at least the columns, or the call fails before.
SourceRows == Lesser(gather.rows, gather.sourceRows)
SourcePitch == IF SourceRows = 0 THEN gather.cols ELSE gather.src
PitchHolds == gather.dst >= gather.cols /\ (SourceRows > 0 => gather.src >= gather.cols)
Copied == gather.needed * gather.cols

RowFrom(row) ==
  [row |-> row, column |-> 0, offset |-> row * gather.dst,
   end |-> Lesser(row * gather.dst + gather.cols, Copied)]

GatherOf(job) ==
  /\ gather = job
  /\ spot = [row |-> 0, column |-> 0, offset |-> 0, end |-> Lesser(job.cols, job.needed * job.cols)]
  /\ out = [cell \in (0 .. job.needed - 1) \X (0 .. job.cols - 1) |-> Zero]

Reading == gather.needed > 0 /\ PitchHolds /\ spot.row < gather.needed
RunLeft == Reading /\ spot.offset < spot.end /\ spot.offset \div SourcePitch < SourceRows
Skipping(run) == spot' = [spot EXCEPT !.offset = @ + run, !.column = @ + run]

\* Slip: the run is cut where the source's row ends, not where this one does.
CopyRowRun ==
  LET row == spot.offset \div SourcePitch
      column == spot.offset % SourcePitch
      run == gather.cols - column
  IN /\ RunLeft /\ column < gather.cols
     /\ out' = [cell \in DOMAIN out |->
                  IF cell[1] = spot.row /\ cell[2] \in spot.column .. spot.column + run - 1
                  THEN <<row, column + cell[2] - spot.column>> ELSE out[cell]]
     /\ Skipping(run) /\ UNCHANGED gather

\* Copy the weights left of this source row.
CopyRun ==
  LET row == spot.offset \div SourcePitch
      column == spot.offset % SourcePitch
      run == Lesser(gather.cols - column, spot.end - spot.offset)
  IN /\ RunLeft /\ column < gather.cols
     /\ out' = [cell \in DOMAIN out |->
                  IF cell[1] = spot.row /\ cell[2] \in spot.column .. spot.column + run - 1
                  THEN <<row, column + cell[2] - spot.column>> ELSE out[cell]]
     /\ Skipping(run) /\ UNCHANGED gather

\* Step over the padding between two source rows.
SkipPadding ==
  LET column == spot.offset % SourcePitch
  IN /\ RunLeft /\ column >= gather.cols
     /\ Skipping(Lesser(SourcePitch - column, spot.end - spot.offset))
     /\ UNCHANGED <<gather, out>>

NextRow ==
  /\ Reading /\ ~RunLeft
  /\ spot' = RowFrom(spot.row + 1)
  /\ UNCHANGED <<gather, out>>

GatherNext == CopyRun \/ SkipPadding \/ NextRow

-----------------------------------------------------------------------------
\* Cell by cell: a cell is the storage its row's pitch puts it at, which the
\* copy brought from the same storage of the source, where the copy and the
\* source's rows go that far; padding and the rest read zero.
SwiftReads(row, column) ==
  LET o == row * gather.dst + column
  IN IF o < Copied /\ o \div SourcePitch < SourceRows /\ o % SourcePitch < gather.cols
     THEN <<o \div SourcePitch, o % SourcePitch>> ELSE Zero

\* A row, once left, is what Swift reads in it; none is written before its turn
\* (gather_swift_rows).
GatherIsSwifts ==
  \A cell \in DOMAIN out :
    /\ PitchHolds /\ cell[1] < spot.row => out[cell] = SwiftReads(cell[1], cell[2])
    /\ cell[1] > spot.row => out[cell] = Zero
=============================================================================
