------------------------------ MODULE LongText ------------------------------
(***************************************************************************)
(* A text longer than an embedder's window: windit's chunker cuts it at    *)
(* its content and leaves out what lies between, the sweep of attach_gaps  *)
(* gives every such gap to a neighbour or a chunk of its own, and each     *)
(* chunk is encoded and embedded.                                          *)
(*                                                                         *)
(* A text is a row of units (characters); its tokenizer is a count of the  *)
(* tokens of every range, which need not add up, and a set of ranges it    *)
(* fails on.  Positions lie between units: a range is [start, end).        *)
(***************************************************************************)
EXTENDS Integers, Sequences

CONSTANTS
  TokenCeiling,   \* the model's window, in tokens
  ChunkLists,     \* lists of ranges the chunker may come to
  LongTexts       \* texts that may be asked for, with their options

\* A tokenizer counts every range, and no unit alone exceeds the model's window
\* (chunk_long: a char encodes to at most a handful of ids, far below it).
Tokenized(t) ==
  /\ {t.units, t.window, t.overlap, t.cap, t.bytes} \subseteq Nat
  /\ \A a, b \in 0 .. t.units : a < b => t.tokens[<<a, b>>] \in Nat
  /\ \A a \in 0 .. t.units - 1 : t.tokens[<<a, a + 1>>] <= TokenCeiling

ASSUME LongTextAssumption ==
  /\ TokenCeiling \in Nat
  /\ \A cs \in ChunkLists : cs \in Seq([start : Nat, end : Nat])
  /\ \A t \in LongTexts : Tokenized(t)

VARIABLES
  text,     \* units, count of each range, ranges that fail, options
  chunks,   \* chunks the sweep has not reached
  cur,      \* the chunk it holds
  pieces,   \* chunks done, with why each is there: "cut" or "own"
  windows,  \* windows embedded: chunk and token span
  state     \* "asked", "sweeping", "swept", "chunked", "ok", or an error

textVars == <<text, chunks, cur, pieces, windows, state>>

ByteRange(start, end) == [start |-> start, end |-> end]
NoRange == ByteRange(0, 0)
Nonempty(c) == c.start < c.end

\* The tokens of a range, or a failure to tell.
MeasureRange(a, b) == IF <<a, b>> \in text.fails THEN -1 ELSE text.tokens[<<a, b>>]
FailsOn(a, b) == MeasureRange(a, b) = -1
\* A range fits when it is measured, never by adding up its parts.
FitsBudget(a, b) == ~FailsOn(a, b) /\ MeasureRange(a, b) <= text.window

Enc(c) == text.tokens[<<c.start, c.end>>]

-----------------------------------------------------------------------------
(* The chunker of the windit crate: ranges in order, none within another,  *)
(* each within the window or a single unit that exceeds it.                *)
Before(c, d) ==
  /\ c.start < d.start /\ c.end < d.end
  /\ text.overlap = 0 => c.end <= d.start
ContentAware(cs) ==
  /\ \A i \in DOMAIN cs : /\ Nonempty(cs[i]) /\ cs[i].end <= text.units
                          /\ FitsBudget(cs[i].start, cs[i].end) \/ cs[i].end = cs[i].start + 1
  /\ \A i \in 1 .. Len(cs) - 1 : Before(cs[i], cs[i + 1])
  /\ text.cap # 0 => Len(cs) <= text.cap

Ended(what) == state' = what /\ UNCHANGED <<text, chunks, cur, pieces, windows>>

\* The gate before any tokenizer work, and the chunker's own refusals.
ValidateLongInput ==
  IF text.bytes # 0 /\ text.units > text.bytes THEN "InputTooLarge"
  ELSE IF text.window > TokenCeiling THEN "WindowOverBudget"
  ELSE IF text.window = 0 \/ text.overlap >= text.window THEN "Windowing"
  ELSE "ok"

\* Chunk the text and extend the first chunk over what precedes it.
ChunkLong ==
  /\ state = "asked"
  /\ IF ValidateLongInput # "ok" THEN Ended(ValidateLongInput)
     ELSE \/ Ended("Windowing")   \* more chunks than the cap
          \/ \E cs \in ChunkLists :
               /\ ContentAware(cs)
               /\ LET first == cs[1]
                      alone == MeasureRange(0, first.start)
                  IN CASE cs = <<>> ->
                            state' = "swept" /\ UNCHANGED <<chunks, cur, pieces>>
                       [] cs # <<>> /\ first.start = 0 ->
                            /\ state' = "sweeping" /\ chunks' = Tail(cs)
                            /\ cur' = first /\ UNCHANGED pieces
                       [] cs # <<>> /\ first.start > 0 /\ FailsOn(0, first.end) ->
                            state' = "Tokenize" /\ UNCHANGED <<chunks, cur, pieces>>
                       [] cs # <<>> /\ first.start > 0 /\ FitsBudget(0, first.end) ->
                            /\ state' = "sweeping" /\ chunks' = Tail(cs)
                            /\ cur' = ByteRange(0, first.end) /\ UNCHANGED pieces
                       [] cs # <<>> /\ first.start > 0 /\ alone = -1 ->
                            state' = "Tokenize" /\ UNCHANGED <<chunks, cur, pieces>>
                       [] cs # <<>> /\ first.start > 0 /\ alone > TokenCeiling ->
                            state' = "ContentlessInputOverBudget" /\ UNCHANGED <<chunks, cur, pieces>>
                       [] OTHER ->
                            /\ state' = "sweeping" /\ chunks' = Tail(cs) /\ cur' = first
                            /\ pieces' = <<[chunk |-> ByteRange(0, first.start), why |-> "own"]>>
               /\ UNCHANGED <<text, windows>>

Cut(c) == [chunk |-> c, why |-> "cut"]
Own(c) == [chunk |-> c, why |-> "own"]
\* Slip: a gap is taken to be within the model's window.
OwnUnmeasured(c) == IF FailsOn(c.start, c.end) THEN "Tokenize" ELSE "ok"
\* A chunk of no budget but the model's.
OwnFails(c) ==
  IF FailsOn(c.start, c.end) THEN "Tokenize"
  ELSE IF Enc(c) > TokenCeiling THEN "ContentlessInputOverBudget" ELSE "ok"
Step(c, rest, done) == cur' = c /\ chunks' = rest /\ pieces' = done /\ UNCHANGED <<text, windows, state>>

\* The gap between two chunks: to the left if that fits, else to the right,
\* else on its own.
Sweep ==
  /\ state = "sweeping" /\ chunks # <<>>
  /\ LET next == Head(chunks)
         gap == ByteRange(cur.end, next.start)
     IN IF ~Nonempty(gap) THEN Step(next, Tail(chunks), Append(pieces, Cut(cur)))
        ELSE IF FailsOn(cur.start, gap.end) THEN Ended("Tokenize")
        ELSE IF FitsBudget(cur.start, gap.end)
        THEN Step(next, Tail(chunks), Append(pieces, Cut(ByteRange(cur.start, gap.end))))
        ELSE IF FailsOn(gap.start, next.end) THEN Ended("Tokenize")
        ELSE IF FitsBudget(gap.start, next.end)
        THEN Step(ByteRange(gap.start, next.end), Tail(chunks), Append(pieces, Cut(cur)))
        ELSE IF OwnFails(gap) # "ok" THEN Ended(OwnFails(gap))
        ELSE Step(next, Tail(chunks), pieces \o <<Cut(cur), Own(gap)>>)

\* What follows the last chunk, a tail the policy dropped included.
Trail ==
  /\ state = "sweeping" /\ chunks = <<>>
  /\ LET rest == ByteRange(cur.end, text.units)
     IN IF ~Nonempty(rest)
        THEN pieces' = Append(pieces, Cut(cur)) /\ state' = "swept" /\ UNCHANGED <<text, chunks, cur, windows>>
        ELSE IF FailsOn(cur.start, rest.end) THEN Ended("Tokenize")
        ELSE IF FitsBudget(cur.start, rest.end)
        THEN /\ pieces' = Append(pieces, Cut(ByteRange(cur.start, rest.end))) /\ state' = "swept"
             /\ UNCHANGED <<text, chunks, cur, windows>>
        ELSE IF OwnFails(rest) # "ok" THEN Ended(OwnFails(rest))
        ELSE /\ pieces' = pieces \o <<Cut(cur), Own(rest)>> /\ state' = "swept"
             /\ UNCHANGED <<text, chunks, cur, windows>>

\* A text that chunked to nothing is one chunk, and the cap binds what is left.
BindCap ==
  /\ state = "swept"
  /\ LET whole == ByteRange(0, text.units)
         all == IF pieces = <<>> /\ text.units > 0 THEN <<Own(whole)>> ELSE pieces
     IN IF pieces = <<>> /\ text.units > 0 /\ OwnFails(whole) # "ok" THEN Ended(OwnFails(whole))
        ELSE IF text.cap # 0 /\ Len(all) > text.cap THEN Ended("Windowing")
        ELSE pieces' = all /\ state' = "chunked" /\ UNCHANGED <<text, chunks, cur, windows>>

\* One window: the chunk is encoded, truncated at the ceiling, and embedded.
Embed ==
  /\ state = "chunked"
  /\ IF pieces = <<>> THEN Ended("EmptyText")
     ELSE IF Len(windows) = Len(pieces) THEN Ended("ok")
     ELSE LET c == pieces[Len(windows) + 1].chunk
              ids == IF Enc(c) > TokenCeiling THEN TokenCeiling ELSE Enc(c)
              offset == IF windows = <<>> THEN 0 ELSE windows[Len(windows)].offset + windows[Len(windows)].ids
          IN IF FailsOn(c.start, c.end) THEN Ended("Tokenize")
             ELSE \/ Ended("NonFiniteOutput")
                  \/ /\ windows' = Append(windows, [chunk |-> c, offset |-> offset, ids |-> ids])
                     /\ UNCHANGED <<text, chunks, cur, pieces, state>>

Texted(t) ==
  /\ text = t /\ chunks = <<>> /\ cur = NoRange /\ pieces = <<>> /\ windows = <<>> /\ state = "asked"

TextInit == \E t \in LongTexts : Texted(t)
TextNext == ChunkLong \/ Sweep \/ Trail \/ BindCap \/ Embed

-----------------------------------------------------------------------------
(* Properties.                                                             *)

\* Every unit of the text is in a window, and in one only where no overlap was
\* asked for; a window is within its budget, or a gap or a single unit within
\* the model's, so encoding cuts nothing off; and there are no more windows
\* than the cap allows (chunk_long's doc).
TextIsWhole ==
  state \in {"chunked", "ok"} /\ text.units > 0 =>
    /\ \A u \in 0 .. text.units - 1 : \E i \in DOMAIN pieces : pieces[i].chunk.start <= u /\ u < pieces[i].chunk.end
    /\ pieces[1].chunk.start = 0 /\ pieces[Len(pieces)].chunk.end = text.units
    /\ text.overlap = 0 => \A i \in 1 .. Len(pieces) - 1 : pieces[i].chunk.end = pieces[i + 1].chunk.start
    /\ text.cap # 0 => Len(pieces) <= text.cap
    /\ \A i \in DOMAIN pieces :
         \/ Enc(pieces[i].chunk) <= text.window
         \/ pieces[i].why = "own" /\ Enc(pieces[i].chunk) <= TokenCeiling
         \/ pieces[i].chunk.end = pieces[i].chunk.start + 1
    /\ \A i \in DOMAIN windows : /\ windows[i].chunk = pieces[i].chunk
                                 /\ windows[i].ids = Enc(pieces[i].chunk)
    /\ state = "ok" => Len(windows) = Len(pieces)
=============================================================================
