----------------------------- MODULE TokenIndex -----------------------------
(***************************************************************************)
(* The tokens of every range of a text, from one encoding of the whole.    *)
(*                                                                         *)
(* A text is a sequence of character classes, those the Split regex tells  *)
(* apart: "A" upper-case and "a" lower-case letters, "s" a lower-case one  *)
(* that follows an apostrophe in a contraction, "o" letters without case,  *)
(* "m" combining marks, "9" digits, " " the space, "t" other white space,  *)
(* "n" CR and LF, "/", "'", "." other punctuation, "0" a character whose   *)
(* byte has no token, "<" an added token that stands alone between words.  *)
(* Positions count characters, one byte each; a range [a, b) is what lies  *)
(* between two of them. The two template tokens every count has are left   *)
(* out, and so is an encoder that fails (LongText).                        *)
(***************************************************************************)
EXTENDS Integers, Sequences, FiniteSets, FiniteSetsExt, SequencesExt

-----------------------------------------------------------------------------
(***************************************************************************)
(* Byte-pair merging inside one pre-token, recorded so that the tokens of  *)
(* every prefix of a word can be counted without merging it again.         *)
(*                                                                         *)
(* A word is a sequence of characters, one byte each; a token is the word  *)
(* it spells.  A table lists the merges in the order of their ranks; an    *)
(* entry is the pair of tokens it joins.  Rank 0 is "none", so ranks here  *)
(* are one more than the code's, as its own comparisons are.               *)
(***************************************************************************)
-----------------------------------------------------------------------------
(* The mirrored process.                                                   *)

RankOf(table, l, r) == SelectInSeq(table, LAMBDA e : e = <<l, r>>)

Symbol(c, at) == [tok |-> <<c>>, end |-> at, lspine |-> <<>>, rspine |-> <<>>]
Symbols(word) == [toks |-> [i \in DOMAIN word |-> Symbol(word[i], i)], pops |-> <<>>]

PairRank(table, run, i) == RankOf(table, run.toks[i].tok, run.toks[i + 1].tok)
Pending(table, run) == {i \in 1 .. Len(run.toks) - 1 : PairRank(table, run, i) > 0}

\* Merge the pending pair of the least rank, if any, the leftmost of equals,
\* and note the merge on the spines of the token it makes.
LeastRank(table, run) == Min({PairRank(table, run, i) : i \in Pending(table, run)})
Leftmost(table, run, rank) == Min({i \in Pending(table, run) : PairRank(table, run, i) = rank})
MergeAt(run, at, rank) ==
  LET l == run.toks[at]
      r == run.toks[at + 1]
      pop == Len(run.pops) + 1
      made == [tok |-> l.tok \o r.tok, end |-> r.end,
               lspine |-> Append(l.lspine, pop), rspine |-> Append(r.rspine, pop)]
  IN [toks |-> ReplaceAt(RemoveAt(run.toks, at + 1), at, made),
      pops |-> Append(run.pops, [rank |-> rank, end |-> r.end, tok |-> made.tok])]
MergeRanked(table, run, rank) == MergeAt(run, Leftmost(table, run, rank), rank)
MergeLeast(table, run) ==
  IF Pending(table, run) = {} THEN run ELSE MergeRanked(table, run, LeastRank(table, run))

Process(table, word) ==
  LET after[n \in 0 .. Len(word)] ==
        IF n = 0 THEN Symbols(word) ELSE MergeLeast(table, after[n - 1])
  IN after[Len(word)]

\* A word that is an entry of the vocabulary is one token, whatever the merges
\* would make of it.
BpeCount(table, vocab, word) ==
  IF word \in vocab THEN 1 ELSE Len(Process(table, word).toks)

-----------------------------------------------------------------------------
(* Whether a cut between two tokens of the recorded word is one of a prefix *)
(* too: X is what lies left of it, Y what the prefix has right of it.       *)

MaxRank(pops, which) == Max({0} \cup {pops[i].rank : i \in which})

\* Merges of the left side: those whose token ends at or before the cut.
Active(z, q) == {i \in DOMAIN z.pops : z.pops[i].end <= q}
XMax(z, q, lo, hi) == MaxRank(z.pops, {i \in Active(z, q) : lo <= i /\ i <= hi})
YMax(y, lo, hi) == MaxRank(y.pops, lo .. hi)

\* The last merge of a side before its ranks exceed t; 0 if none is.
LastPrefixAtMost(z, q, t) ==
  Max({0} \cup {k \in DOMAIN z.pops : XMax(z, q, 1, k) <= t})
YLastAtMost(y, t) == Max({0} \cup {k \in DOMAIN y.pops : YMax(y, 1, k) <= t})

\* The token at the seam on either side after j merges of its spine.
FringeState(first, pops, spine, j) == IF j = 0 THEN <<first>> ELSE pops[spine[j]].tok

\* The fringe events of both sides in the order of the highest rank popped so
\* far, X first on ties: how far each side's spine is, and where each stands.
Seams(z, q, xs, y, ys) ==
  LET xTime(j) == XMax(z, q, 1, xs[j])
      yTime(j) == YMax(y, 1, ys[j])
  IN {[jx |-> 0, jy |-> 0, x |-> 0, y |-> 0]}
     \cup {[jx |-> j, jy |-> Cardinality({k \in DOMAIN ys : yTime(k) < xTime(j)}),
            x |-> xs[j], y |-> YLastAtMost(y, xTime(j) - 1)] : j \in DOMAIN xs}
     \cup {[jx |-> Cardinality({k \in DOMAIN xs : xTime(k) <= yTime(j)}), jy |-> j,
            x |-> LastPrefixAtMost(z, q, yTime(j)), y |-> ys[j]] : j \in DOMAIN ys}

\* Y pops something the seam precedes before it absorbs its fringe.
YSideWaits(y, from, to, rho) == YMax(y, from, to) >= rho

CutIsBoundary(table, word, z, q, x, y) ==
  LET xs == z.toks[x].rspine
      ys == y.toks[1].lspine
  IN \A s \in Seams(z, q, xs, y, ys) :
       LET rho == RankOf(table, FringeState(word[q], z.pops, xs, s.jx),
                                FringeState(word[q + 1], y.pops, ys, s.jy))
           xAlive == s.jx = Len(xs) \/ XMax(z, q, s.x + 1, xs[s.jx + 1]) > rho
           yAlive == s.jy = Len(ys) \/ YSideWaits(y, s.y + 1, ys[s.jy + 1], rho)
       IN rho > 0 => ~(xAlive /\ yAlive)

-----------------------------------------------------------------------------
(* A session: a recorded word, asked for its prefixes.                     *)

Direct == -1

\* A word of the vocabulary has no session: the merges are not what is run.
Recordable(vocab, word) == word # <<>> /\ word \notin vocab

\* The cuts are walked leftward from the token the prefix ends in, until one
\* is a boundary of the prefix; at the start of the word it is encoded whole.
MeasureLeftward(table, vocab, word, rel, z, within) ==
  LET right(t) == Process(table, SubSeq(word, z.toks[t].end + 1, rel))
      last == Max({0} \cup {t \in 1 .. within : CutIsBoundary(table, word, z, z.toks[t].end, t, right(t))})
  IN IF SubSeq(word, 1, rel) \in vocab THEN 1
     ELSE IF z.toks[within + 1].end = rel THEN within + 1
     ELSE IF last = 0 THEN Direct ELSE last + Len(right(last).toks)

MeasureAgainst(table, vocab, word, rel, z) ==
  MeasureLeftward(table, vocab, word, rel, z, Cardinality({t \in DOMAIN z.toks : z.toks[t].end < rel}))
MeasurePrefix(table, vocab, word, rel) ==
  IF rel = 0 THEN 0 ELSE MeasureAgainst(table, vocab, word, rel, Process(table, word))

-----------------------------------------------------------------------------
(* The index.                                                              *)

CONSTANTS
  EngageBytes,    \* probes no longer than this do not engage the lane
  MaxTokenBytes,  \* the longest token
  LiveSessions,   \* sessions kept
  MinCap, MaxCap, \* bounds of a session's first length
  Window          \* the chunk window the caps are sized for

ASSUME TokenIndexAssumption ==
  /\ EngageBytes \in Nat /\ MaxTokenBytes \in Nat \ {0} /\ LiveSessions \in Nat \ {0}
  /\ MinCap \in Nat \ {0} /\ MaxCap \in Nat /\ MinCap <= MaxCap /\ Window \in Nat \ {0}

VARIABLES
  body,      \* the text
  bpe,       \* the tokenizer: merges, and vocabulary
  index,     \* the index built of the text
  lane,      \* engaged, sessions (last used last), the start none can be made for
  measured   \* the last range asked for, and its answer

tokenVars == <<body, bpe, index, lane, measured>>

Slice(a, b) == SubSeq(body, a + 1, b)

-----------------------------------------------------------------------------
(* The Split regex, each branch giving the end of its match from i, or 0.  *)

Letter(c) == c \in {"A", "a", "s", "o"}
Digit(c) == c = "9"
Space(c) == c \in {" ", "t", "n"}
Lead(c) == ~Letter(c) /\ ~Digit(c) /\ c # "n"
HeadClass(c) == c \in {"A", "o", "m"}
TailClass(c) == c \in {"a", "s", "o", "m"}
Punct(c) == ~Space(c) /\ ~Letter(c) /\ ~Digit(c)
Break(c) == c \in {"n", "/"}

\* The end of the longest run of a class after position i.
RunEnd(s, i, Class(_)) ==
  Max({e \in i .. Len(s) : \A k \in i + 1 .. e : Class(s[k])})
ClassAt(s, i, Class(_)) == i < Len(s) /\ Class(s[i + 1])

Contracted(s, e) == IF e + 2 <= Len(s) /\ s[e + 1] = "'" /\ s[e + 2] = "s" THEN e + 2 ELSE e
\* HEAD* TAIL+, HEAD* giving back what TAIL+ needs.
LowerWord(s, i) ==
  LET heads == {e \in i .. RunEnd(s, i, HeadClass) : ClassAt(s, e, TailClass)}
  IN IF heads = {} THEN 0 ELSE Contracted(s, RunEnd(s, Max(heads), TailClass))
\* HEAD+ TAIL*
UpperWord(s, i) ==
  IF ClassAt(s, i, HeadClass) THEN Contracted(s, RunEnd(s, RunEnd(s, i, HeadClass), TailClass)) ELSE 0
Led(s, i, Word(_, _)) ==
  IF ClassAt(s, i, Lead) /\ Word(s, i + 1) > 0 THEN Word(s, i + 1) ELSE Word(s, i)
Digits(s, i) == IF ClassAt(s, i, Digit) THEN Min({i + 3, RunEnd(s, i, Digit)}) ELSE 0
Marks(s, i) ==
  LET from == IF ClassAt(s, i, LAMBDA c : c = " ") THEN i + 1 ELSE i
  IN IF ClassAt(s, from, Punct) THEN RunEnd(s, RunEnd(s, from, Punct), Break) ELSE 0
Lines(s, i) == Max({0} \cup {e \in i + 1 .. RunEnd(s, i, Space) : s[e] = "n"})
\* White space but for its last, unless nothing follows it.
Blank(s, i) ==
  LET e == RunEnd(s, i, Space) IN IF e = Len(s) \/ e = i + 1 THEN e ELSE e - 1

\* The pattern takes the first of its alternatives that takes anything.
FirstPast(branches, i) == branches[SelectInSeq(branches, LAMBDA e : e > i)]
NextEnd(s, i) ==
  FirstPast(<<Led(s, i, LowerWord), Led(s, i, UpperWord), Digits(s, i), Marks(s, i), Lines(s, i), Blank(s, i)>>, i)

\* The ends of a text's pre-tokens.
Pretokens(s) ==
  LET from[i \in 0 .. Len(s)] ==
        IF i = Len(s) THEN <<>> ELSE LET e == NextEnd(s, i) IN <<e>> \o from[e]
  IN from[0]

-----------------------------------------------------------------------------
(* The tokenizer.                                                          *)

Retained(word) == SelectSeq(word, LAMBDA c : c # "0")
WordTokens(word) == IF Retained(word) = <<>> THEN 0 ELSE BpeCount(bpe.merges, bpe.vocab, Retained(word))
\* The tokens of the pre-tokens that end at or before a position.
CountWords(s, ends, at) ==
  MapThenSumSet(LAMBDA i : WordTokens(SubSeq(s, (IF i = 1 THEN 0 ELSE ends[i - 1]) + 1, ends[i])),
                {i \in DOMAIN ends : ends[i] <= at})
TokensTo(s, at) == CountWords(s, Pretokens(s), at)
PartTokens(s) == TokensTo(s, Len(s))

\* An added token is found only where no character of a word touches it.
Wordy(c) == Letter(c) \/ Digit(c) \/ c = "m"
AddedAt(s) ==
  {i \in DOMAIN s : /\ s[i] = "<"
                    /\ i > 1 => ~Wordy(s[i - 1])
                    /\ i < Len(s) => ~Wordy(s[i + 1])}
Encoded(s) ==
  LET added == AddedAt(s)
      starts == {0} \cup added
      end(b) == Min({e \in added : e > b} \cup {Len(s) + 1}) - 1
  IN Cardinality(added) + MapThenSumSet(LAMBDA b : PartTokens(SubSeq(s, b + 1, end(b))), starts)

-----------------------------------------------------------------------------
(* The index.                                                              *)

DirectOnly == [direct |-> TRUE, ends |-> <<>>, counts |-> <<0>>, digit |-> <<>>]

Unbuilt == [DirectOnly EXCEPT !.counts = <<>>]
Built == index # Unbuilt

\* One encoding of the whole; a dropped byte or the spelling of an added token
\* leaves every range to be encoded for itself.
IndexOf(ends) ==
  LET start(i) == IF i = 1 THEN 0 ELSE ends[i - 1]
      word(i) == Slice(start(i), ends[i])
  IN IF Len(Retained(body)) # Len(body) \/ "<" \in Range(body) THEN DirectOnly
     ELSE [direct |-> FALSE, ends |-> ends,
           counts |-> FoldLeft(LAMBDA cs, i : Append(cs, Last(cs) + WordTokens(word(i))), <<0>>,
                               [i \in DOMAIN ends |-> i]),
           digit |-> [i \in DOMAIN ends |-> \A k \in DOMAIN word(i) : Digit(word(i)[k])]]

Ends == index.ends
EndsBefore(Past(_)) == Cardinality({i \in DOMAIN Ends : Past(Ends[i])})
FullBoundary(at) == at = 0 \/ at \in Range(Ends)
SnapDown(at) == Max({0} \cup {e \in Range(Ends) : e <= at})
ScanBack(at) == Min({k \in 0 .. at : \A i \in k + 1 .. at : Space(body[i])})

\* The cut at a is inside pre-token p: encode a window from it and take the
\* first end the window has in common with the text.
MeetAt(a, b, hi, common) ==
  LET first == Min(common)
  IN IF hi <= a THEN [kind |-> "Direct"]
     ELSE IF common = {} THEN
       IF hi = b THEN [kind |-> "WholeQuery", count |-> Encoded(Slice(a, b))] ELSE [kind |-> "Direct"]
     ELSE IF a + first = hi /\ hi < b THEN [kind |-> "Direct"]
     ELSE [kind |-> "Boundary", z |-> a + first, count |-> TokensTo(Slice(a, hi), first)]
ResyncWithin(a, b, hi) == MeetAt(a, b, hi, {e \in Range(Pretokens(Slice(a, hi))) : FullBoundary(a + e)})
LeftResync(a, b, p) == ResyncWithin(a, b, Min({Ends[Min({p + 2, Len(Ends)})], b}))

\* The first boundary at or after a that the range's own parse shares.
LeftZone(a, b) ==
  LET p == EndsBefore(LAMBDA e : e <= a) + 1
      reach == Max({q \in p .. Len(Ends) : \A k \in p + 1 .. q : index.digit[k]})
  IN IF FullBoundary(a) THEN [kind |-> "Boundary", z |-> a, count |-> 0]
     ELSE LeftResync(a, b, reach)

\* Slip: a boundary at b is trusted whatever stands before it.
TrustedEnd(b) == FullBoundary(b)
\* An end is clean where no run of white space touches it.
CleanEnd(b) == FullBoundary(b) /\ ~Space(body[b])
\* The last boundary at or before b that the range's own parse shares.
RightZone(b) ==
  IF b = Len(body) \/ CleanEnd(b) THEN b
  ELSE SnapDown(ScanBack(IF FullBoundary(b) THEN b ELSE SnapDown(b)))

CountTo(at) == index.counts[EndsBefore(LAMBDA e : e <= at) + 1]

MeasureBetween(a, b, left, y) ==
  CASE left.kind = "WholeQuery" -> left.count
    [] left.kind = "Boundary" /\ left.z < y ->
         left.count + CountTo(y) - CountTo(left.z) + Encoded(Slice(y, b))
    [] OTHER -> Encoded(Slice(a, b))
MeasureRangeOf(a, b) ==
  IF a >= b THEN 0
  ELSE IF index.direct THEN Encoded(Slice(a, b))
  ELSE MeasureBetween(a, b, LeftZone(a, b), RightZone(b))

-----------------------------------------------------------------------------
(* The fast lane: ranges within one pre-token, off a session per start.    *)

Host(a) == EndsBefore(LAMBDA e : e <= a) + 1
HostStart(p) == IF p = 1 THEN 0 ELSE Ends[p - 1]

\* Every character after the first is of the class whose every stretch is one
\* pre-token.
Qualifies(p) == \A k \in HostStart(p) + 2 .. Ends[p] : TailClass(body[k])

InLane(a, b) ==
  /\ ~index.direct /\ a < b /\ Host(a) <= Len(Ends)
  /\ b <= Ends[Host(a)] /\ <<a, b>> # <<HostStart(Host(a)), Ends[Host(a)]>>
  /\ lane.engaged \/ b - a > EngageBytes
  /\ Qualifies(Host(a))

FirstCap(p) ==
  LET tokens == Max({1, index.counts[p + 1] - index.counts[p]})
      size == Ends[p] - HostStart(p)
      perToken == Max({1, (size + tokens - 1) \div tokens})
  IN Max({MinCap, Min({MaxCap, (Window * perToken * 5) \div 4})})

Session(a) == SelectSeq(lane.sessions, LAMBDA s : s.start = a)
NotFrom(a) == SelectSeq(lane.sessions, LAMBDA s : s.start # a)
\* Room for one more, the least recently used leaving.
Room(ss) == IF Len(ss) < LiveSessions THEN ss ELSE Tail(ss)

\* A session from a that covers b: as long as the first cap, doubled until it
\* does; 0 if one of them cannot be recorded.
Recorded(a, end) == Recordable(bpe.vocab, Slice(a, end))
Grown(a, b, have, last) ==
  LET grow[h \in a .. last] ==
        IF b <= h THEN h
        ELSE LET next == Min({a + 2 * (h - a), last})
             IN IF next > h /\ Recorded(a, next) THEN grow[next] ELSE 0
  IN grow[have]

\* A prefix no cut of the session answers for is encoded.
OrEncoded(a, b, prefix) == IF prefix = Direct THEN Encoded(Slice(a, b)) ELSE prefix

\* A probe that stays off the sessions.
OffSession(a, b, count) ==
  /\ measured' = [a |-> a, b |-> b, count |-> count]
  /\ lane' = [lane EXCEPT !.engaged = @ \/ InLane(a, b)]

OnSession(a, b, kept, end) ==
  IF end = 0
  THEN /\ lane' = [engaged |-> TRUE, sessions |-> kept, dead |-> a]
       /\ measured' = [a |-> a, b |-> b, count |-> MeasureRangeOf(a, b)]
  ELSE /\ lane' = [engaged |-> TRUE, dead |-> lane.dead,
                   sessions |-> Append(kept, [start |-> a, end |-> end])]
       /\ measured' = [a |-> a, b |-> b,
                       count |-> OrEncoded(a, b, MeasurePrefix(bpe.merges, bpe.vocab, Slice(a, end), b - a))]

MeasureRangeFast(a, b) ==
  /\ IF ~InLane(a, b) \/ (b - a > MaxTokenBytes /\ lane.dead = a)
     THEN OffSession(a, b, MeasureRangeOf(a, b))
     ELSE IF b - a <= MaxTokenBytes
     THEN OffSession(a, b, BpeCount(bpe.merges, bpe.vocab, Slice(a, b)))
     ELSE LET last == Ends[Host(a)]
              kept == IF Session(a) = <<>> THEN Room(lane.sessions) ELSE NotFrom(a)
              cap == Min({a + FirstCap(Host(a)), last})
              have == IF Session(a) # <<>> THEN Head(Session(a)).end
                      ELSE IF Recorded(a, cap) THEN cap ELSE 0
          IN OnSession(a, b, kept, IF have = 0 THEN 0 ELSE Grown(a, b, have, last))
  /\ UNCHANGED <<body, bpe, index>>

\* A floor for a range's count that needs no encoding: no token is longer than
\* the longest, and where nothing is dropped a range has at least one.
Floor(a, b) ==
  IF a = b \/ index.direct THEN 0
  ELSE IF lane.engaged THEN (b - a + MaxTokenBytes - 1) \div MaxTokenBytes ELSE 1

-----------------------------------------------------------------------------
Indexed(t, m, vocab) ==
  /\ body = t /\ bpe = [merges |-> m, vocab |-> vocab]
  /\ index = Unbuilt
  /\ lane = [engaged |-> FALSE, sessions |-> <<>>, dead |-> -1]
  /\ measured = [a |-> 0, b |-> 0, count |-> 0]

BuildIndex == ~Built /\ index' = IndexOf(Pretokens(body)) /\ UNCHANGED <<body, bpe, lane, measured>>

TokenNext ==
  \/ BuildIndex
  \/ Built /\ \E a \in 0 .. Len(body), b \in 0 .. Len(body) : a < b /\ MeasureRangeFast(a, b)

\* Whatever the range and whatever was asked before, a count is the one an
\* encoding of just that range would give, and the floor never exceeds it
\* (the index's exactness contract, token_index/mod.rs:17-25).
MeasuresAreExact ==
  LET exact(a, b) == Encoded(Slice(a, b))
      fresh == Built /\ measured.a = measured.b
  IN /\ measured.count = exact(measured.a, measured.b)
     /\ Floor(measured.a, measured.b) <= measured.count
     /\ \A a, b \in 0 .. Len(body) : fresh /\ a < b => MeasureRangeOf(a, b) = exact(a, b)
     /\ \A b \in DOMAIN body : fresh /\ Recordable(bpe.vocab, body) =>
          MeasurePrefix(bpe.merges, bpe.vocab, body, b) \in {Direct, BpeCount(bpe.merges, bpe.vocab, SubSeq(body, 1, b))}
=============================================================================
