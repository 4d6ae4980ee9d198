-------------------------- MODULE ResultMerge_proofs --------------------------
(***************************************************************************)
(* That results may be merged in any stages, for every id space and every  *)
(* child: the law that merges facts is associative, the span a merge       *)
(* stores is the one its ids moved by, and so a merge of merges is the     *)
(* merge of all.                                                           *)
(***************************************************************************)
EXTENDS ResultMerge, Selections_proofs, SequenceTheorems

-----------------------------------------------------------------------------
(* The merge law. *)

\* An optional boolean is one of three values.
LEMMA OptionalBoolean ==
  \A a : a \in Optional(BOOLEAN) <=> a = {} \/ a = {TRUE} \/ a = {FALSE}
BY Zenon DEF Optional

\* The three values differ.
LEMMA ThreeValues == {TRUE} # {} /\ {FALSE} # {} /\ {TRUE} # {FALSE}
OBVIOUS

\* kleene_or: true when one is, false when both are, unknown otherwise.
LEMMA KleeneOrFacts ==
  ASSUME NEW a \in Optional(BOOLEAN), NEW b \in Optional(BOOLEAN)
  PROVE  /\ KleeneOr(a, b) \in Optional(BOOLEAN)
         /\ KleeneOr(a, b) = {TRUE} <=> a = {TRUE} \/ b = {TRUE}
         /\ KleeneOr(a, b) = {FALSE} <=> a = {FALSE} /\ b = {FALSE}
<1>1. /\ a = {} \/ a = {TRUE} \/ a = {FALSE}
      /\ b = {} \/ b = {TRUE} \/ b = {FALSE}
  BY OptionalBoolean, Zenon
<1>2. TRUE \in a \cup b <=> a = {TRUE} \/ b = {TRUE}
  BY <1>1, Zenon
<1>3. KleeneOr(a, b) = {TRUE} \/ KleeneOr(a, b) = {FALSE} \/ KleeneOr(a, b) = {}
  BY Zenon DEF KleeneOr
<1>4. KleeneOr(a, b) \in Optional(BOOLEAN)
  BY <1>3, OptionalBoolean, Zenon
<1>5. QED
  BY <1>1, <1>2, <1>4, ThreeValues, Zenon DEF KleeneOr

LEMMA KleeneOrAssociative ==
  ASSUME NEW a \in Optional(BOOLEAN), NEW b \in Optional(BOOLEAN),
         NEW c \in Optional(BOOLEAN)
  PROVE  KleeneOr(KleeneOr(a, b), c) = KleeneOr(a, KleeneOr(b, c))
<1> DEFINE ab == KleeneOr(a, b)
           bc == KleeneOr(b, c)
           l == KleeneOr(ab, c)
           r == KleeneOr(a, bc)
<1>1. /\ ab \in Optional(BOOLEAN)
      /\ ab = {TRUE} <=> a = {TRUE} \/ b = {TRUE}
      /\ ab = {FALSE} <=> a = {FALSE} /\ b = {FALSE}
  BY KleeneOrFacts, Zenon
<1>2. /\ bc \in Optional(BOOLEAN)
      /\ bc = {TRUE} <=> b = {TRUE} \/ c = {TRUE}
      /\ bc = {FALSE} <=> b = {FALSE} /\ c = {FALSE}
  BY KleeneOrFacts, Zenon
<1> HIDE DEF ab, bc
<1>3. /\ l \in Optional(BOOLEAN)
      /\ l = {TRUE} <=> ab = {TRUE} \/ c = {TRUE}
      /\ l = {FALSE} <=> ab = {FALSE} /\ c = {FALSE}
  BY <1>1, KleeneOrFacts, Zenon
<1>4. /\ r \in Optional(BOOLEAN)
      /\ r = {TRUE} <=> a = {TRUE} \/ bc = {TRUE}
      /\ r = {FALSE} <=> a = {FALSE} /\ bc = {FALSE}
  BY <1>2, KleeneOrFacts, Zenon
<1> HIDE DEF l, r
<1>5. (l = {TRUE} <=> r = {TRUE}) /\ (l = {FALSE} <=> r = {FALSE})
  BY <1>1, <1>2, <1>3, <1>4, Zenon
<1>6. l = {} \/ l = {TRUE} \/ l = {FALSE}
  BY <1>3, OptionalBoolean, Zenon
<1>7. r = {} \/ r = {TRUE} \/ r = {FALSE}
  BY <1>4, OptionalBoolean, Zenon
<1>8. l = r
  BY <1>5, <1>6, <1>7, ThreeValues, Zenon
<1>9. QED
  BY <1>8, Zenon DEF l, r, ab, bc

\* Saturating addition is associative, and so is whether the sum fits.
LEMMA SaturatingSums ==
  \A x, y, z \in Usize :
         /\ Saturate(x + y) \in Usize
         /\ x + y <= MaxUsize => Saturate(x + y) = x + y
         /\ Saturate(Saturate(x + y) + z) = Saturate(x + Saturate(y + z))
         /\ x + y <= MaxUsize /\ Saturate(x + y) + z <= MaxUsize
              <=> y + z <= MaxUsize /\ x + Saturate(y + z) <= MaxUsize
BY MaxUsizeAssumption DEF Saturate, Usize

LEMMA SpanFields ==
  ASSUME NEW a \in Spans
  PROVE  a.exact \in BOOLEAN /\ a.bound \in Usize
BY DEF Spans

\* SpanKnowledge::merge: a span again, and associative, saturation included.
LEMMA MergeSpansFacts ==
  ASSUME NEW a \in Spans, NEW b \in Spans
  PROVE  /\ MergeSpans(a, b) \in Spans
         /\ a.bound + b.bound <= MaxUsize
              => MergeSpans(a, b).bound = a.bound + b.bound
<1>1. Saturate(a.bound + b.bound) \in Usize
  BY SpanFields, SaturatingSums
<1>2. (a.exact /\ b.exact /\ a.bound + b.bound <= MaxUsize) \in BOOLEAN
  BY Zenon
<1>3. MergeSpans(a, b) \in Spans
  BY <1>1, <1>2, Zenon DEF MergeSpans, Spans
<1>4. MergeSpans(a, b).bound = Saturate(a.bound + b.bound)
  BY Zenon DEF MergeSpans
<1>5. QED
  BY <1>3, <1>4, SpanFields, SaturatingSums

LEMMA MergeSpansAssociative ==
  ASSUME NEW a \in Spans, NEW b \in Spans, NEW c \in Spans
  PROVE  MergeSpans(MergeSpans(a, b), c) = MergeSpans(a, MergeSpans(b, c))
<1> DEFINE ab == MergeSpans(a, b)
           bc == MergeSpans(b, c)
<1>1. /\ ab.bound = Saturate(a.bound + b.bound)
      /\ bc.bound = Saturate(b.bound + c.bound)
      /\ ab.exact <=> a.exact /\ b.exact /\ a.bound + b.bound <= MaxUsize
      /\ bc.exact <=> b.exact /\ c.exact /\ b.bound + c.bound <= MaxUsize
      /\ ab.exact \in BOOLEAN /\ bc.exact \in BOOLEAN
  BY Zenon DEF MergeSpans
<1> HIDE DEF ab, bc
<1>2. /\ a.bound \in Usize /\ b.bound \in Usize /\ c.bound \in Usize
      /\ a.exact \in BOOLEAN /\ b.exact \in BOOLEAN /\ c.exact \in BOOLEAN
  BY SpanFields
<1>3a. PICK x \in Usize, y \in Usize, z \in Usize :
         x = a.bound /\ y = b.bound /\ z = c.bound
  BY <1>2, Zenon
<1>3b. /\ Saturate(Saturate(x + y) + z) = Saturate(x + Saturate(y + z))
       /\ x + y <= MaxUsize /\ Saturate(x + y) + z <= MaxUsize
            <=> y + z <= MaxUsize /\ x + Saturate(y + z) <= MaxUsize
  BY SaturatingSums
<1>3. Saturate(ab.bound + c.bound) = Saturate(a.bound + bc.bound)
  BY <1>1, <1>3a, <1>3b, Zenon
<1>4. a.bound + b.bound <= MaxUsize /\ ab.bound + c.bound <= MaxUsize
        <=> b.bound + c.bound <= MaxUsize /\ a.bound + bc.bound <= MaxUsize
  BY <1>1, <1>3a, <1>3b, Zenon
<1>5. (ab.exact /\ c.exact /\ ab.bound + c.bound <= MaxUsize)
        = (a.exact /\ bc.exact /\ a.bound + bc.bound <= MaxUsize)
  BY <1>1, <1>4, Zenon
<1>6. MergeSpans(ab, c) = MergeSpans(a, bc)
  BY <1>3, <1>5, Zenon DEF MergeSpans
<1>7. QED
  BY <1>6 DEF ab, bc

LEMMA ScheduleFields ==
  \A known, workers :
    LET schedule == [known |-> known, workers |-> workers]
    IN  schedule.known = known /\ schedule.workers = workers
OBVIOUS

LEMMA MergeSchedulesFacts ==
  ASSUME NEW a \in Schedules, NEW b \in Schedules, NEW c \in Schedules
  PROVE  /\ MergeSchedules(a, b) \in Schedules
         /\ MergeSchedules(MergeSchedules(a, b), c)
              = MergeSchedules(a, MergeSchedules(b, c))
<1>1. \A x \in {a, b, c} : x.known \in BOOLEAN /\ x.workers \in Seq(Nat)
  BY DEF Schedules
<1>2. /\ a.workers \o b.workers \in Seq(Nat)
      /\ (a.workers \o b.workers) \o c.workers = a.workers \o (b.workers \o c.workers)
  <2>1. PICK x \in Seq(Nat), y \in Seq(Nat), z \in Seq(Nat) :
          x = a.workers /\ y = b.workers /\ z = c.workers
    BY <1>1, Zenon
  <2>2. x \o y \in Seq(Nat) /\ (x \o y) \o z = x \o (y \o z)
    BY ConcatAssociative, ConcatProperties
  <2>3. QED
    BY <2>1, <2>2, Zenon
<1>3. MergeSchedules(a, b) \in Schedules
  <2>1. <<>> \in Seq(Nat)
    OBVIOUS
  <2>2. [known |-> TRUE, workers |-> a.workers \o b.workers] \in Schedules
    BY <1>2, Zenon DEF Schedules
  <2>3. UnknownSchedule \in Schedules
    BY <2>1, Zenon DEF UnknownSchedule, Schedules
  <2>4. QED
    BY <2>2, <2>3, Zenon DEF MergeSchedules
<1>4. CASE a.known /\ b.known /\ c.known
  <2>1. /\ MergeSchedules(a, b) = [known |-> TRUE, workers |-> a.workers \o b.workers]
        /\ MergeSchedules(b, c) = [known |-> TRUE, workers |-> b.workers \o c.workers]
    BY <1>4, Zenon DEF MergeSchedules
  <2>2. MergeSchedules(a, b).known = TRUE /\ MergeSchedules(b, c).known = TRUE
    BY <2>1, ScheduleFields, Zenon
  <2>2w. /\ MergeSchedules(a, b).workers = a.workers \o b.workers
         /\ MergeSchedules(b, c).workers = b.workers \o c.workers
    BY <2>1, ScheduleFields, Zenon
  <2>3. QED
    BY <1>2, <1>3, <1>4, <2>2, <2>2w, Zenon DEF MergeSchedules
<1>5. CASE ~(a.known /\ b.known /\ c.known)
  <2>1. ~UnknownSchedule.known
    BY Zenon DEF UnknownSchedule
  <2>2. /\ ~(a.known /\ b.known) => ~MergeSchedules(a, b).known
        /\ ~(b.known /\ c.known) => ~MergeSchedules(b, c).known
    BY <2>1, Zenon DEF MergeSchedules
  <2>3. /\ MergeSchedules(MergeSchedules(a, b), c) = UnknownSchedule
        /\ MergeSchedules(a, MergeSchedules(b, c)) = UnknownSchedule
    BY <1>5, <2>2, Zenon DEF MergeSchedules
  <2>4. QED
    BY <1>3, <2>3, Zenon
<1>6. QED
  BY <1>4, <1>5, Zenon

\* TaskFacts::merge is associative.
LEMMA MergeFactsAssociative ==
  ASSUME NEW a \in FactsOf(Languages), NEW b \in FactsOf(Languages),
         NEW c \in FactsOf(Languages)
  PROVE  /\ MergeFacts(a, b) \in FactsOf(Languages)
         /\ MergeFacts(MergeFacts(a, b), c) = MergeFacts(a, MergeFacts(b, c))
<1>1. \A x \in {a, b, c} :
        /\ x.drewFromRng \in Optional(BOOLEAN)
        /\ x.earlyStopped \in Optional(BOOLEAN)
        /\ x.hadSwallowedError \in Optional(BOOLEAN)
        /\ x.observedLanguage \in Optional(Languages)
        /\ x.workerSchedule \in Schedules
        /\ x.decodedSpan \in Spans
  BY DEF FactsOf
<1>2. /\ KleeneOr(a.drewFromRng, b.drewFromRng) \in Optional(BOOLEAN)
      /\ KleeneOr(a.earlyStopped, b.earlyStopped) \in Optional(BOOLEAN)
      /\ KleeneOr(a.hadSwallowedError, b.hadSwallowedError) \in Optional(BOOLEAN)
  BY <1>1, KleeneOrFacts, Zenon
<1>3. FirstObserved(a.observedLanguage, b.observedLanguage) \in Optional(Languages)
  BY <1>1, Zenon DEF FirstObserved
<1>4. MergeSchedules(a.workerSchedule, b.workerSchedule) \in Schedules
  BY <1>1, MergeSchedulesFacts, Zenon
<1>5. MergeSpans(a.decodedSpan, b.decodedSpan) \in Spans
  BY <1>1, MergeSpansFacts, Zenon
<1>6. MergeFacts(a, b) \in FactsOf(Languages)
  BY <1>2, <1>3, <1>4, <1>5 DEF MergeFacts, FactsOf
<1>7a. KleeneOr(KleeneOr(a.drewFromRng, b.drewFromRng), c.drewFromRng)
         = KleeneOr(a.drewFromRng, KleeneOr(b.drewFromRng, c.drewFromRng))
  BY <1>1, KleeneOrAssociative
<1>7b. KleeneOr(KleeneOr(a.earlyStopped, b.earlyStopped), c.earlyStopped)
         = KleeneOr(a.earlyStopped, KleeneOr(b.earlyStopped, c.earlyStopped))
  BY <1>1, KleeneOrAssociative
<1>7c. KleeneOr(KleeneOr(a.hadSwallowedError, b.hadSwallowedError), c.hadSwallowedError)
         = KleeneOr(a.hadSwallowedError, KleeneOr(b.hadSwallowedError, c.hadSwallowedError))
  BY <1>1, KleeneOrAssociative
<1>8. FirstObserved(FirstObserved(a.observedLanguage, b.observedLanguage), c.observedLanguage)
        = FirstObserved(a.observedLanguage, FirstObserved(b.observedLanguage, c.observedLanguage))
  BY Zenon DEF FirstObserved
<1>9. MergeSchedules(MergeSchedules(a.workerSchedule, b.workerSchedule), c.workerSchedule)
        = MergeSchedules(a.workerSchedule, MergeSchedules(b.workerSchedule, c.workerSchedule))
  BY <1>1, MergeSchedulesFacts, Zenon
<1>10. MergeSpans(MergeSpans(a.decodedSpan, b.decodedSpan), c.decodedSpan)
        = MergeSpans(a.decodedSpan, MergeSpans(b.decodedSpan, c.decodedSpan))
  BY <1>1, MergeSpansAssociative, Zenon
<1>11. MergeFacts(MergeFacts(a, b), c) = MergeFacts(a, MergeFacts(b, c))
  BY <1>7a, <1>7b, <1>7c, <1>8, <1>9, <1>10 DEF MergeFacts
<1>12. QED
  BY <1>6, <1>11

-----------------------------------------------------------------------------
(* Ids and texts. *)

Shift(base, ids) == [i \in DOMAIN ids |-> base + ids[i]]

\* Shifting keeps a sequence's length and shifts what is in it.
LEMMA ShiftFacts ==
  ASSUME NEW base \in Nat, NEW ids \in Seq(Nat)
  PROVE  /\ Shift(base, ids) \in Seq(Nat)
         /\ Len(Shift(base, ids)) = Len(ids)
         /\ DOMAIN Shift(base, ids) = 1..Len(ids)
         /\ \A i \in 1..Len(ids) : Shift(base, ids)[i] = base + ids[i]
BY DEF Shift

LEMMA ShiftTwice ==
  ASSUME NEW a \in Nat, NEW b \in Nat, NEW ids \in Seq(Nat)
  PROVE  Shift(a, Shift(b, ids)) = Shift(a + b, ids)
<1>1. Shift(b, ids) \in Seq(Nat)
  BY ShiftFacts
<1>2. /\ Shift(a, Shift(b, ids)) \in Seq(Nat)
      /\ Len(Shift(a, Shift(b, ids))) = Len(ids)
      /\ \A i \in 1..Len(ids) : Shift(a, Shift(b, ids))[i] = a + (b + ids[i])
  BY <1>1, ShiftFacts
<1>3. /\ Shift(a + b, ids) \in Seq(Nat)
      /\ Len(Shift(a + b, ids)) = Len(ids)
      /\ \A i \in 1..Len(ids) : Shift(a + b, ids)[i] = a + b + ids[i]
  BY ShiftFacts
<1>4. \A i \in 1..Len(ids) : ids[i] \in Nat
  OBVIOUS
<1>5. \A i \in 1..Len(ids) : Shift(a, Shift(b, ids))[i] = Shift(a + b, ids)[i]
  BY <1>2, <1>3, <1>4
<1> HIDE DEF Shift
<1>6. QED
  <2> DEFINE l == Shift(a, Shift(b, ids))
             r == Shift(a + b, ids)
  <2>1. l \in Seq(Nat) /\ r \in Seq(Nat) /\ Len(l) = Len(r)
    BY <1>2, <1>3, Zenon
  <2>2. \A i \in 1..Len(l) : l[i] = r[i]
    BY <1>2, <1>5, Zenon
  <2> HIDE DEF l, r
  <2>3. l = r
    BY <2>1, <2>2, SeqEqual
  <2>4. QED
    BY <2>3 DEF l, r

LEMMA Concatenation ==
  ASSUME NEW x \in Seq(Nat), NEW y \in Seq(Nat)
  PROVE  /\ x \o y \in Seq(Nat)
         /\ Len(x \o y) = Len(x) + Len(y)
         /\ \A i \in 1..Len(x) : (x \o y)[i] = x[i]
         /\ \A i \in 1..Len(y) : (x \o y)[Len(x) + i] = y[i]
OBVIOUS

LEMMA Reassociation ==
  \A x, y, z \in Seq(Nat) : (x \o y) \o z = x \o (y \o z)
<1> TAKE x \in Seq(Nat), y \in Seq(Nat), z \in Seq(Nat)
<1>1. QED
  BY ConcatAssociative

LEMMA ShiftConcatenation ==
  ASSUME NEW a \in Nat, NEW x \in Seq(Nat), NEW y \in Seq(Nat)
  PROVE  Shift(a, x \o y) = Shift(a, x) \o Shift(a, y)
<1> DEFINE sx == Shift(a, x)
           sy == Shift(a, y)
           xy == x \o y
           l == Shift(a, xy)
           r == sx \o sy
<1>1. /\ xy \in Seq(Nat) /\ Len(xy) = Len(x) + Len(y)
      /\ \A i \in 1..Len(x) : xy[i] = x[i]
      /\ \A i \in 1..Len(y) : xy[Len(x) + i] = y[i]
  BY Concatenation
<1>2. /\ sx \in Seq(Nat) /\ Len(sx) = Len(x)
      /\ \A i \in 1..Len(x) : sx[i] = a + x[i]
  BY ShiftFacts
<1>3. /\ sy \in Seq(Nat) /\ Len(sy) = Len(y)
      /\ \A i \in 1..Len(y) : sy[i] = a + y[i]
  BY ShiftFacts
<1> HIDE DEF sx, sy, xy
<1>4. /\ l \in Seq(Nat) /\ Len(l) = Len(x) + Len(y)
      /\ \A i \in 1..Len(xy) : l[i] = a + xy[i]
  BY <1>1, ShiftFacts
<1>5. /\ r \in Seq(Nat) /\ Len(r) = Len(x) + Len(y)
      /\ \A i \in 1..Len(x) : r[i] = sx[i]
      /\ \A i \in 1..Len(y) : r[Len(x) + i] = sy[i]
  <2>1. /\ r \in Seq(Nat) /\ Len(r) = Len(sx) + Len(sy)
        /\ \A i \in 1..Len(sx) : r[i] = sx[i]
        /\ \A i \in 1..Len(sy) : r[Len(sx) + i] = sy[i]
    BY <1>2, <1>3, Concatenation
  <2>2. QED
    BY <2>1, <1>2, <1>3, Zenon
<1> HIDE DEF l, r
<1>6. Len(x) \in Nat /\ Len(y) \in Nat
  OBVIOUS
<1>7. ASSUME NEW i \in 1..(Len(x) + Len(y))
      PROVE  l[i] = r[i]
  <2>1. CASE i <= Len(x)
    <3>1. i \in 1..Len(x) /\ i \in 1..Len(xy)
      BY <2>1, <1>1, <1>6
    <3>2. QED
      BY <3>1, <1>1, <1>2, <1>4, <1>5, Zenon
  <2>2. CASE ~(i <= Len(x))
    <3>1. PICK k \in 1..Len(y) : i = Len(x) + k
      <4>1. i - Len(x) \in 1..Len(y) /\ i = Len(x) + (i - Len(x))
        BY <2>2, <1>6
      <4>2. QED
        BY <4>1
    <3>2. i \in 1..Len(xy)
      BY <1>1
    <3>3. QED
      BY <3>1, <3>2, <1>1, <1>3, <1>4, <1>5, Zenon
  <2>3. QED
    BY <2>1, <2>2
<1>8. l = r
  BY <1>4, <1>5, <1>7, SeqEqual
<1>9. QED
  BY <1>8 DEF l, r, sx, sy, xy

\* The text join: with the drop on, an empty text is a unit.
Joint(x, y) == x \o <<Separator>> \o y
Glue(x, y) == IF y = <<>> THEN x ELSE IF x = <<>> THEN y ELSE Joint(x, y)

LEMMA JointFacts ==
  ASSUME NEW x \in Seq(Nat), NEW y \in Seq(Nat), NEW z \in Seq(Nat)
  PROVE  /\ Joint(x, y) \in Seq(Nat)
         /\ Joint(x, y) # <<>>
         /\ Joint(Joint(x, y), z) = Joint(x, Joint(y, z))
<1> DEFINE s == <<Separator>>
<1>1. s \in Seq(Nat) /\ s # <<>>
  BY DEF Separator
<1> HIDE DEF s
<1>2. /\ x \o s \in Seq(Nat) /\ y \o s \in Seq(Nat)
      /\ (x \o s) \o y \in Seq(Nat) /\ (y \o s) \o z \in Seq(Nat)
  BY <1>1, ConcatProperties
<1>3. x \o s # <<>>
  BY <1>1, ConcatEqualIffEmpty
<1>4. (x \o s) \o y # <<>>
  BY <1>2, <1>3, ConcatEqualIffEmpty
<1>5. (((x \o s) \o y) \o s) \o z = (x \o s) \o ((y \o s) \o z)
  <2> DEFINE xs == x \o s
             ys == y \o s
  <2>1. xs \in Seq(Nat) /\ ys \in Seq(Nat)
    BY <1>2
  <2> HIDE DEF xs, ys
  <2>2. (xs \o y) \o s = xs \o (y \o s)
    <3>1. \A u \in Seq(Nat) : (u \o y) \o s = u \o (y \o s)
      BY <1>1, Reassociation, Zenon
    <3>2. QED
      BY <2>1, <3>1, Zenon
  <2>3. (xs \o ys) \o z = xs \o (ys \o z)
    <3>1. \A u, v \in Seq(Nat) : (u \o v) \o z = u \o (v \o z)
      BY Reassociation, Zenon
    <3>2. QED
      BY <2>1, <3>1, Zenon
  <2>4. y \o s = ys /\ x \o s = xs
    BY Zenon DEF xs, ys
  <2>5. ((xs \o y) \o s) \o z = xs \o (ys \o z)
    BY <2>2, <2>3, <2>4, Zenon
  <2>6. QED
    BY <2>4, <2>5, Zenon
<1>6. QED
  BY <1>2, <1>4, <1>5, Zenon DEF Joint, s

LEMMA GlueFacts ==
  ASSUME NEW x \in Seq(Nat), NEW y \in Seq(Nat), NEW z \in Seq(Nat)
  PROVE  /\ Glue(x, y) \in Seq(Nat)
         /\ Glue(<<>>, y) = y /\ Glue(x, <<>>) = x
         /\ Glue(Glue(x, y), z) = Glue(x, Glue(y, z))
<1>1. /\ Joint(x, y) \in Seq(Nat) /\ Joint(x, y) # <<>> /\ Joint(y, z) # <<>>
      /\ Joint(Joint(x, y), z) = Joint(x, Joint(y, z))
  BY JointFacts
<1>2. QED
  BY <1>1, Zenon DEF Glue

-----------------------------------------------------------------------------
(* One step of a merge. *)

\* A result as a merge reads it; the ids are bounded where they matter.
ResultLike == [text : Seq(Nat), ids : Seq(Nat), facts : FactsOf(Languages)]
Bounded(result) == \E b \in Nat : \A i \in DOMAIN result.ids : result.ids[i] < b

\* The extent is the least bound of the ids.
LEMMA ExtentFacts ==
  ASSUME NEW r \in ResultLike, Bounded(r)
  PROVE  /\ Extent(r) \in Nat
         /\ \A i \in DOMAIN r.ids : r.ids[i] < Extent(r)
         /\ \A b \in Nat : (\A i \in DOMAIN r.ids : r.ids[i] < b) => Extent(r) <= b
<1> DEFINE R == Range(r.ids)
<1>1. r.ids \in Seq(Nat)
  BY DEF ResultLike
<1>2. CASE r.ids = <<>>
  BY <1>2 DEF Extent
<1>3. CASE r.ids # <<>>
  <2>1. /\ \A i \in DOMAIN r.ids : r.ids[i] \in R
        /\ \A v \in R : \E i \in DOMAIN r.ids : v = r.ids[i]
    BY Zenon DEF Range
  <2>2. R \in SUBSET Nat
    BY <1>1, <2>1
  <2>3. R # {}
    <3>1. 1 \in DOMAIN r.ids
      BY <1>1, <1>3
    <3>2. QED
      BY <3>1, <2>1, Zenon
  <2>4. PICK b \in Nat : \A i \in DOMAIN r.ids : r.ids[i] < b
    BY Zenon DEF Bounded
  <2>5. \A v \in R : v <= b
    BY <2>1, <2>2, <2>4
  <2> HIDE DEF R
  <2>6. Max(R) \in R /\ \A v \in R : Max(R) >= v
    BY <2>2, <2>3, <2>5, MaxOfBounded
  <2>7. Extent(r) = Max(R) + 1
    BY <1>3 DEF Extent, R
  <2>8. Max(R) \in Nat
    BY <2>2, <2>6
  <2>9. Extent(r) \in Nat
    BY <2>7, <2>8
  <2>10. ASSUME NEW i \in DOMAIN r.ids PROVE r.ids[i] < Extent(r)
    <3>1. r.ids[i] \in R
      BY <2>1
    <3>2. r.ids[i] \in Nat /\ Max(R) >= r.ids[i]
      BY <3>1, <2>2, <2>6
    <3>3. QED
      BY <3>2, <2>7, <2>8
  <2>11. ASSUME NEW c \in Nat, \A i \in DOMAIN r.ids : r.ids[i] < c
         PROVE  Extent(r) <= c
    <3>1. PICK i \in DOMAIN r.ids : Max(R) = r.ids[i]
      BY <2>1, <2>6, Zenon
    <3>2. Max(R) < c
      BY <3>1, <2>11
    <3>3. QED
      BY <3>2, <2>7, <2>8
  <2>12. QED
    BY <2>9, <2>10, <2>11, Zenon
<1>4. QED
  BY <1>2, <1>3

LEMMA ResultFields ==
  ASSUME NEW r \in ResultLike
  PROVE  /\ r.text \in Seq(Nat) /\ r.ids \in Seq(Nat)
         /\ r.facts \in FactsOf(Languages) /\ r.facts.decodedSpan \in Spans
         /\ r.facts.decodedSpan.bound \in Usize
BY DEF ResultLike, FactsOf, Spans

\* effective_span_knowledge: no lower than the ids, and the carried span
\* whenever that is no lower either.
LEMMA EffectiveFacts ==
  ASSUME NEW r \in ResultLike, Bounded(r), Extent(r) <= MaxUsize
  PROVE  /\ EffectiveSpan(r) \in Spans
         /\ EffectiveSpan(r).bound \in Usize
         /\ Extent(r) <= EffectiveSpan(r).bound
         /\ Extent(r) <= r.facts.decodedSpan.bound
              => EffectiveSpan(r) = r.facts.decodedSpan
<1>1. Extent(r) \in Nat
  BY ExtentFacts
<1>2. Extent(r) \in Usize
  BY <1>1, MaxUsizeAssumption DEF Usize
<1>3. r.facts.decodedSpan \in Spans /\ r.facts.decodedSpan.bound \in Usize
  BY ResultFields
<1>4. AtLeast(Extent(r)) \in Spans /\ AtLeast(Extent(r)).bound = Extent(r)
  BY <1>2 DEF AtLeast, Spans
<1>5. CASE Extent(r) <= r.facts.decodedSpan.bound
  <2>1. EffectiveSpan(r) = r.facts.decodedSpan
    BY <1>5, Zenon DEF EffectiveSpan
  <2>2. QED
    BY <2>1, <1>3, <1>5
<1>6. CASE ~(Extent(r) <= r.facts.decodedSpan.bound)
  <2>1. EffectiveSpan(r) = AtLeast(Extent(r))
    BY <1>6, Zenon DEF EffectiveSpan
  <2>2. Extent(r) <= AtLeast(Extent(r)).bound
    BY <1>1, <1>4
  <2>3. QED
    BY <2>1, <2>2, <1>2, <1>4, <1>6, Zenon
<1>7. QED
  BY <1>5, <1>6

\* What every merge keeps: with the drop on, all its ids lie below its base,
\* and the span it stores is that base.
Sound(merge) ==
  /\ merge \in MergeStates
  /\ merge.index = 0 => merge = Start
  /\ merge.facts.merged = (merge.index > 0)
  /\ skip => /\ merge.base \in Usize
             /\ \A i \in DOMAIN merge.ids : merge.ids[i] < merge.base
             /\ merge.index > 0 => merge.facts.facts.decodedSpan.bound = merge.base

LEMMA MergeFields ==
  ASSUME NEW m \in MergeStates
  PROVE  /\ m.text \in Seq(Nat) /\ m.ids \in Seq(Nat)
         /\ m.index \in Nat /\ m.base \in Nat
         /\ m.facts \in [merged : BOOLEAN, facts : FactsOf(Languages)]
         /\ m.facts.facts \in FactsOf(Languages)
         /\ m.facts.facts.decodedSpan \in Spans
BY DEF MergeStates, FactsOf

LEMMA UnknownFacts == Unknown \in FactsOf(Languages)
<1>1. {} \in Optional(BOOLEAN) /\ {} \in Optional(Languages)
  BY Zenon DEF Optional
<1>2. UnknownSchedule \in Schedules
  BY DEF UnknownSchedule, Schedules
<1>3. AtLeast(0) \in Spans
  BY MaxUsizeAssumption DEF AtLeast, Spans, Usize
<1>4. QED
  BY <1>1, <1>2, <1>3, Zenon DEF Unknown, FactsOf

LEMMA StartSound == Sound(Start)
<1>1. NoFacts \in [merged : BOOLEAN, facts : FactsOf(Languages)]
  BY UnknownFacts, Zenon DEF NoFacts
<1>2. Start \in MergeStates
  BY <1>1 DEF Start, MergeStates
<1>3. /\ Start.index = 0 /\ Start.base = 0 /\ Start.ids = <<>>
      /\ Start.facts.merged = FALSE
  BY DEF Start, NoFacts
<1>4. (0 > 0) = FALSE
  OBVIOUS
<1>5. Start.facts.merged = (Start.index > 0)
  BY <1>3, <1>4, Zenon
<1>6. 0 \in Usize
  BY MaxUsizeAssumption DEF Usize
<1>7. QED
  BY <1>2, <1>3, <1>5, <1>6 DEF Sound

\* The result of a sound merge: its extent is no higher than its base, so
\* merging it again moves the ids by what it stores.
LEMMA MergedFacts ==
  ASSUME NEW m, Sound(m), m.index > 0
  PROVE  /\ Merged(m) \in ResultLike
         /\ skip => /\ Bounded(Merged(m))
                    /\ Extent(Merged(m)) <= m.base /\ Extent(Merged(m)) <= MaxUsize
                    /\ EffectiveSpan(Merged(m)) = m.facts.facts.decodedSpan
                    /\ EffectiveSpan(Merged(m)).bound = m.base
                    /\ StoredFacts(Merged(m)) = m.facts.facts
         /\ ~skip => StoredFacts(Merged(m)) = m.facts.facts
<1>1. /\ m \in MergeStates
      /\ Merged(m).text = m.text /\ Merged(m).ids = m.ids
      /\ Merged(m).facts = m.facts.facts
  BY DEF Sound, Merged
<1>2. Merged(m) \in ResultLike
  BY <1>1, MergeFields DEF ResultLike, Merged
<1>3. ~skip => StoredFacts(Merged(m)) = m.facts.facts
  BY <1>1, Zenon DEF StoredFacts
<1>4. ASSUME skip
      PROVE  /\ Bounded(Merged(m))
             /\ Extent(Merged(m)) <= m.base /\ Extent(Merged(m)) <= MaxUsize
             /\ EffectiveSpan(Merged(m)) = m.facts.facts.decodedSpan
             /\ EffectiveSpan(Merged(m)).bound = m.base
             /\ StoredFacts(Merged(m)) = m.facts.facts
  <2>1. /\ m.base \in Usize /\ m.facts.facts.decodedSpan.bound = m.base
        /\ \A i \in DOMAIN m.ids : m.ids[i] < m.base
    BY <1>4 DEF Sound
  <2>2. m.base \in Nat /\ m.base <= MaxUsize /\ MaxUsize \in Nat
    BY <2>1, MaxUsizeAssumption DEF Usize
  <2>3. Bounded(Merged(m))
    BY <2>1, <2>2, <1>1, Zenon DEF Bounded
  <2>4. Extent(Merged(m)) <= m.base /\ Extent(Merged(m)) \in Nat
    BY <1>1, <1>2, <2>1, <2>2, <2>3, ExtentFacts, Zenon
  <2>5. Extent(Merged(m)) <= MaxUsize
    BY <2>2, <2>4
  <2>6. EffectiveSpan(Merged(m)) = m.facts.facts.decodedSpan
    BY <1>1, <1>2, <2>1, <2>3, <2>4, <2>5, EffectiveFacts, Zenon
  <2>7. StoredFacts(Merged(m)) = [m.facts.facts EXCEPT !.decodedSpan = m.facts.facts.decodedSpan]
    BY <1>1, <1>4, <2>6, Zenon DEF StoredFacts
  <2>8. m.facts.facts \in FactsOf(Languages)
    BY <1>1, MergeFields
  <2>9. [m.facts.facts EXCEPT !.decodedSpan = m.facts.facts.decodedSpan] = m.facts.facts
    BY <2>8 DEF FactsOf
  <2>10. QED
    BY <2>1, <2>3, <2>4, <2>5, <2>6, <2>7, <2>9, Zenon
<1>5. QED
  BY <1>2, <1>3, <1>4, Zenon

\* A result the merge takes.
Takes(m, r) == r \in ResultLike /\ (skip => Bounded(r)) /\ Fits(m, r)

LEMMA AccumulateFields ==
  \A accumulated, facts :
    /\ Accumulate(accumulated, facts).merged = TRUE
    /\ accumulated.merged
         => Accumulate(accumulated, facts).facts = MergeFacts(accumulated.facts, facts)
    /\ ~accumulated.merged => Accumulate(accumulated, facts).facts = facts
<1> TAKE accumulated, facts
<1>1. Accumulate(accumulated, facts).merged = TRUE
  BY Zenon DEF Accumulate
<1>2. Accumulate(accumulated, facts).facts
        = IF accumulated.merged THEN MergeFacts(accumulated.facts, facts) ELSE facts
  BY DEF Accumulate
<1>3. QED
  BY <1>1, <1>2, Zenon

\* What the loop's body leaves, field by field.
Steps(m, r, n) ==
  /\ n.index = m.index + 1 /\ n.index \in Nat /\ n.index > 0
  /\ n.text \in Seq(Nat)
  /\ skip => n.text = Glue(m.text, r.text)
  /\ ~skip => n.text = IF m.index = 0 THEN r.text ELSE Joint(m.text, r.text)
  /\ skip => n.ids = m.ids \o Shift(m.base, r.ids)
  /\ skip => n.base = m.base + EffectiveSpan(r).bound
  /\ ~skip => n.base = 0
  /\ n.facts.merged = TRUE
  /\ m.index > 0 => n.facts.facts = MergeFacts(m.facts.facts, StoredFacts(r))
  /\ m.index = 0 => n.facts.facts = StoredFacts(r)

LEMMA MergeOneFields ==
  ASSUME NEW m, Sound(m), NEW r, r \in ResultLike
  PROVE  Steps(m, r, MergeOne(m, r))
<1>0. PICK n : n = MergeOne(m, r)
  OBVIOUS
<1>1. /\ n.text = JoinedText(m, r) /\ n.ids = m.ids \o Renumbered(m, r)
      /\ n.index = m.index + 1
      /\ n.base = IF skip THEN m.base + EffectiveSpan(r).bound ELSE 0
      /\ n.facts = Accumulate(m.facts, StoredFacts(r))
  BY <1>0, Zenon DEF MergeOne
<1>2. m \in MergeStates /\ m.facts.merged = (m.index > 0)
  BY DEF Sound
<1>3. /\ m.index \in Nat /\ m.text \in Seq(Nat) /\ r.text \in Seq(Nat)
      /\ m.ids \in Seq(Nat) /\ r.ids \in Seq(Nat)
  BY <1>2, MergeFields, ResultFields
<1>4. n.index \in Nat /\ n.index > 0
  BY <1>1, <1>3
<1>5. skip => n.text = Glue(m.text, r.text)
  BY <1>1, Zenon DEF JoinedText, Glue, Joint
<1>6. ~skip => n.text = IF m.index = 0 THEN r.text ELSE Joint(m.text, r.text)
  BY <1>1, Zenon DEF JoinedText, Joint
<1>7. n.text \in Seq(Nat)
  <2>1. Glue(m.text, r.text) \in Seq(Nat)
    BY <1>3, GlueFacts
  <2>2. Joint(m.text, r.text) \in Seq(Nat)
    BY <1>3, JointFacts
  <2>3. QED
    BY <1>3, <1>5, <1>6, <2>1, <2>2, Zenon
<1>8. skip => n.ids = m.ids \o Shift(m.base, r.ids)
  BY <1>1, Zenon DEF Renumbered, Shift
<1>9. /\ n.facts.merged = TRUE
      /\ m.facts.merged => n.facts.facts = MergeFacts(m.facts.facts, StoredFacts(r))
      /\ ~m.facts.merged => n.facts.facts = StoredFacts(r)
  <2> DEFINE s == StoredFacts(r)
             f == m.facts
  <2>1. n.facts = Accumulate(f, s)
    BY <1>1, Zenon
  <2>2. /\ Accumulate(f, s).merged = TRUE
        /\ f.merged => Accumulate(f, s).facts = MergeFacts(f.facts, s)
        /\ ~f.merged => Accumulate(f, s).facts = s
    <3> HIDE DEF s, f
    <3>1. QED
      BY AccumulateFields
  <2> HIDE DEF s, f
  <2>3. /\ n.facts.merged = TRUE
        /\ f.merged => n.facts.facts = MergeFacts(f.facts, s)
        /\ ~f.merged => n.facts.facts = s
    BY <2>1, <2>2, Zenon
  <2>4. QED
    BY <2>3, Zenon DEF s, f
<1>10. (m.index = 0 => ~m.facts.merged) /\ (m.index > 0 => m.facts.merged)
  <2>1. m.index = 0 => ~(m.index > 0)
    BY <1>3
  <2>2. QED
    BY <1>2, <2>1, Zenon
<1>11. Steps(m, r, n)
  BY <1>1, <1>4, <1>5, <1>6, <1>7, <1>8, <1>9, <1>10, Zenon DEF Steps
<1>12. QED
  BY <1>0, <1>11, Zenon

LEMMA StoredFactsType ==
  ASSUME NEW r, r \in ResultLike, skip => Bounded(r) /\ Extent(r) <= MaxUsize
  PROVE  /\ StoredFacts(r) \in FactsOf(Languages)
         /\ skip => StoredFacts(r).decodedSpan = EffectiveSpan(r)
<1>1. r.facts \in FactsOf(Languages)
  BY ResultFields
<1>2. CASE ~skip
  BY <1>1, <1>2, Zenon DEF StoredFacts
<1>3. CASE skip
  <2>1. EffectiveSpan(r) \in Spans
    BY <1>3, EffectiveFacts, Zenon
  <2>2. StoredFacts(r) = [r.facts EXCEPT !.decodedSpan = EffectiveSpan(r)]
    BY <1>3, Zenon DEF StoredFacts
  <2> DEFINE span == EffectiveSpan(r)
             facts == r.facts
  <2> HIDE DEF span, facts
  <2>3. [facts EXCEPT !.decodedSpan = span] \in FactsOf(Languages)
    BY <1>1, <2>1 DEF FactsOf, facts, span
  <2>4. [facts EXCEPT !.decodedSpan = span].decodedSpan = span
    BY <1>1 DEF FactsOf, facts
  <2>5. QED
    BY <2>2, <2>3, <2>4, Zenon DEF facts, span
<1>4. QED
  BY <1>2, <1>3

LEMMA MergeOneSound ==
  ASSUME NEW m, Sound(m), NEW r, Takes(m, r)
  PROVE  Sound(MergeOne(m, r))
<1>0. PICK n : n = MergeOne(m, r)
  OBVIOUS
<1>1. r \in ResultLike /\ (skip => Bounded(r))
  BY DEF Takes
<1>2. skip => Extent(r) <= MaxUsize /\ m.base + EffectiveSpan(r).bound <= MaxUsize
  BY DEF Takes, Fits
<1>3. /\ n.index = m.index + 1 /\ n.index \in Nat /\ n.index > 0
      /\ n.text \in Seq(Nat)
      /\ skip => n.ids = m.ids \o Shift(m.base, r.ids)
      /\ skip => n.base = m.base + EffectiveSpan(r).bound
      /\ ~skip => n.base = 0
      /\ n.facts.merged = TRUE
      /\ m.index > 0 => n.facts.facts = MergeFacts(m.facts.facts, StoredFacts(r))
      /\ m.index = 0 => n.facts.facts = StoredFacts(r)
  <2>1. Steps(m, r, n)
    <3>1. Steps(m, r, MergeOne(m, r))
      BY <1>1, MergeOneFields
    <3>2. QED
      BY <3>1, <1>0, Zenon
  <2>2. QED
    BY <2>1, Zenon DEF Steps
<1>4. /\ n = [text |-> n.text, ids |-> n.ids, index |-> n.index, base |-> n.base,
             facts |-> n.facts]
      /\ n.facts = [merged |-> n.facts.merged, facts |-> n.facts.facts]
      /\ n.ids = m.ids \o Renumbered(m, r)
  BY <1>0 DEF MergeOne, Accumulate
<1>5. m \in MergeStates
  BY DEF Sound
<1>6. /\ m.ids \in Seq(Nat) /\ r.ids \in Seq(Nat) /\ m.base \in Nat /\ m.index \in Nat
      /\ m.facts.facts \in FactsOf(Languages)
      /\ m.facts.facts.decodedSpan \in Spans
  BY <1>1, <1>5, MergeFields, ResultFields, Zenon
<1>7. StoredFacts(r) \in FactsOf(Languages)
  BY <1>1, <1>2, StoredFactsType, Zenon
<1>8. n.facts.facts \in FactsOf(Languages)
  <2>1. m.index > 0 \/ m.index = 0
    BY <1>6
  <2>2. MergeFacts(m.facts.facts, StoredFacts(r)) \in FactsOf(Languages)
    BY <1>6, <1>7, MergeFactsAssociative, Zenon
  <2>3. QED
    BY <1>3, <1>7, <2>1, <2>2, Zenon
<1>9. n.facts \in [merged : BOOLEAN, facts : FactsOf(Languages)]
  BY <1>3, <1>4, <1>8, Zenon
<1>10. n.ids \in Seq(Nat)
  <2>1. Renumbered(m, r) \in Seq(Nat)
    <3>1. \A i \in DOMAIN r.ids : m.base + r.ids[i] \in Nat /\ m.index + i - 1 \in Nat
      BY <1>6
    <3>2. QED
      BY <1>6, <3>1 DEF Renumbered
  <2>2. QED
    BY <2>1, <1>4, <1>6, Concatenation
<1>11. ASSUME skip
       PROVE  /\ n.base \in Usize
              /\ \A i \in DOMAIN n.ids : n.ids[i] < n.base
              /\ n.facts.facts.decodedSpan.bound = n.base
  <2>1. /\ EffectiveSpan(r) \in Spans /\ EffectiveSpan(r).bound \in Usize
        /\ Extent(r) <= EffectiveSpan(r).bound
        /\ Extent(r) \in Nat /\ \A i \in DOMAIN r.ids : r.ids[i] < Extent(r)
    BY <1>1, <1>2, <1>11, EffectiveFacts, ExtentFacts, Zenon
  <2>2. n.base = m.base + EffectiveSpan(r).bound /\ n.base <= MaxUsize
    BY <1>2, <1>3, <1>11
  <2>3. n.base \in Usize /\ n.base \in Nat
    BY <2>1, <2>2, <1>6, MaxUsizeAssumption DEF Usize
  <2>4. /\ m.base \in Usize
        /\ \A i \in DOMAIN m.ids : m.ids[i] < m.base
        /\ m.index > 0 => m.facts.facts.decodedSpan.bound = m.base
    BY <1>11 DEF Sound
  <2>5. ASSUME NEW i \in DOMAIN n.ids PROVE n.ids[i] < n.base
    <3> DEFINE moved == Shift(m.base, r.ids)
    <3>1. /\ moved \in Seq(Nat) /\ Len(moved) = Len(r.ids)
          /\ \A k \in 1..Len(r.ids) : moved[k] = m.base + r.ids[k]
      BY <1>6, ShiftFacts
    <3> HIDE DEF moved
    <3>2. n.ids = m.ids \o moved
      BY <1>3, <1>11 DEF moved
    <3>3. /\ Len(n.ids) = Len(m.ids) + Len(moved)
          /\ \A k \in 1..Len(m.ids) : n.ids[k] = m.ids[k]
          /\ \A k \in 1..Len(moved) : n.ids[Len(m.ids) + k] = moved[k]
      <4>1. PICK x \in Seq(Nat) : x = m.ids
        BY <1>6
      <4>2. /\ Len(x \o moved) = Len(x) + Len(moved)
            /\ \A k \in 1..Len(x) : (x \o moved)[k] = x[k]
            /\ \A k \in 1..Len(moved) : (x \o moved)[Len(x) + k] = moved[k]
        BY <3>1, Concatenation
      <4>3. QED
        BY <4>1, <4>2, <3>2, Zenon
    <3>4. Len(m.ids) \in Nat /\ Len(moved) \in Nat /\ i \in 1..Len(n.ids)
      BY <1>6, <1>10, <3>1
    <3>5. CASE i <= Len(m.ids)
      <4>1. i \in 1..Len(m.ids) /\ i \in DOMAIN m.ids
        BY <3>4, <3>5, <1>6
      <4>2. n.ids[i] = m.ids[i] /\ m.ids[i] < m.base /\ m.ids[i] \in Nat
        BY <4>1, <3>3, <2>4, <1>6
      <4>3. QED
        BY <4>2, <2>1, <2>2, <1>6, MaxUsizeAssumption DEF Usize
    <3>6. CASE ~(i <= Len(m.ids))
      <4>1. PICK k \in 1..Len(moved) : i = Len(m.ids) + k
        <5>1. i - Len(m.ids) \in 1..Len(moved) /\ i = Len(m.ids) + (i - Len(m.ids))
          BY <3>3, <3>4, <3>6
        <5>2. QED
          BY <5>1
      <4>2. k \in DOMAIN r.ids /\ k \in 1..Len(r.ids) /\ r.ids[k] \in Nat
        BY <3>1, <1>6
      <4>3. n.ids[i] = m.base + r.ids[k] /\ r.ids[k] < Extent(r)
        BY <4>1, <4>2, <3>1, <3>3, <2>1, Zenon
      <4>4. QED
        BY <4>2, <4>3, <2>1, <2>2, <1>6, MaxUsizeAssumption DEF Usize
    <3>7. QED
      BY <3>5, <3>6
  <2>6. n.facts.facts.decodedSpan.bound = n.base
    <3>1. StoredFacts(r).decodedSpan = EffectiveSpan(r)
      BY <1>1, <1>2, <1>11, StoredFactsType, Zenon
    <3>2. CASE m.index = 0
      <4>1. m.base = 0
        BY <3>2 DEF Sound, Start
      <4>2. n.facts.facts = StoredFacts(r)
        BY <3>2, <1>3
      <4>3. EffectiveSpan(r).bound \in Nat
        BY <2>1, MaxUsizeAssumption DEF Usize
      <4>4. QED
        BY <4>1, <4>2, <4>3, <3>1, <2>2
    <3>3. CASE m.index > 0
      <4> DEFINE a == m.facts.facts.decodedSpan
                 b == EffectiveSpan(r)
      <4>1. n.facts.facts.decodedSpan = MergeSpans(a, b)
        <5>1. MergeFacts(m.facts.facts, StoredFacts(r)).decodedSpan
                = MergeSpans(m.facts.facts.decodedSpan, StoredFacts(r).decodedSpan)
          BY DEF MergeFacts
        <5>2. n.facts.facts = MergeFacts(m.facts.facts, StoredFacts(r))
          BY <3>3, <1>3, Zenon
        <5>3. QED
          BY <5>1, <5>2, <3>1, Zenon
      <4>2. a \in Spans /\ b \in Spans /\ a.bound = m.base
        BY <1>6, <2>1, <2>4, <3>3
      <4>3. a.bound + b.bound = n.base /\ a.bound + b.bound <= MaxUsize
        BY <4>2, <2>2
      <4> HIDE DEF a, b
      <4>4. MergeSpans(a, b).bound = a.bound + b.bound
        BY <4>2, <4>3, MergeSpansFacts
      <4>5. QED
        BY <4>1, <4>3, <4>4
    <3>4. QED
      BY <3>2, <3>3, <1>6
  <2>7. QED
    BY <2>3, <2>5, <2>6
<1>12. n.base \in Nat
  BY <1>3, <1>11, MaxUsizeAssumption DEF Usize
<1>13. n \in MergeStates
  BY <1>3, <1>4, <1>9, <1>10, <1>12, Zenon DEF MergeStates
<1>14. n.facts.merged = (n.index > 0) /\ ~(n.index = 0)
  <2>1. (n.index > 0) = TRUE /\ ~(n.index = 0)
    BY <1>3
  <2>2. QED
    BY <2>1, <1>3, Zenon
<1>15. Sound(n)
  BY <1>11, <1>13, <1>14, Zenon DEF Sound
<1>16. QED
  BY <1>0, <1>15, Zenon

-----------------------------------------------------------------------------
(* Merging in stages: the stage and the group under way, taken together,   *)
(* are the merge of all children, field by field.                          *)

JoinTexts(s, x, g, y) == IF s.index = 0 THEN y ELSE IF g.index = 0 THEN x ELSE Joint(x, y)
JoinFacts(s, x, g, y) == IF s.index = 0 THEN y ELSE IF g.index = 0 THEN x ELSE MergeFacts(x, y)

Agree(w, s, g) ==
  /\ w.index = 0 <=> s.index = 0 /\ g.index = 0
  /\ skip => w.text = Glue(s.text, g.text)
  /\ ~skip => w.text = JoinTexts(s, s.text, g, g.text)
  /\ skip => w.ids = s.ids \o Shift(s.base, g.ids) /\ w.base = s.base + g.base
  /\ w.facts.facts = JoinFacts(s, s.facts.facts, g, g.facts.facts)

LEMMA AgreeTake ==
  ASSUME NEW w, Sound(w), NEW s, Sound(s), NEW g, Sound(g), Agree(w, s, g),
         NEW c, Takes(w, c)
  PROVE  Takes(g, c) /\ Agree(MergeOne(w, c), s, MergeOne(g, c))
<1>1. c \in ResultLike /\ (skip => Bounded(c))
  BY Zenon DEF Takes
<1>2. /\ w.text \in Seq(Nat) /\ s.text \in Seq(Nat) /\ g.text \in Seq(Nat)
      /\ w.ids \in Seq(Nat) /\ s.ids \in Seq(Nat) /\ g.ids \in Seq(Nat)
      /\ w.base \in Nat /\ s.base \in Nat /\ g.base \in Nat
      /\ w.index \in Nat /\ s.index \in Nat /\ g.index \in Nat
      /\ w.facts.facts \in FactsOf(Languages) /\ s.facts.facts \in FactsOf(Languages)
      /\ g.facts.facts \in FactsOf(Languages)
  <2>1. w \in MergeStates /\ s \in MergeStates /\ g \in MergeStates
    BY Zenon DEF Sound
  <2>2. QED
    BY <2>1, MergeFields
<1>3. c.text \in Seq(Nat) /\ c.ids \in Seq(Nat) /\ c.facts \in FactsOf(Languages)
  BY <1>1, ResultFields
<1>4. skip => /\ Extent(c) <= MaxUsize /\ w.base + EffectiveSpan(c).bound <= MaxUsize
              /\ EffectiveSpan(c).bound \in Nat /\ w.base = s.base + g.base
  <2> SUFFICES ASSUME skip
               PROVE  /\ Extent(c) <= MaxUsize /\ w.base + EffectiveSpan(c).bound <= MaxUsize
                      /\ EffectiveSpan(c).bound \in Nat /\ w.base = s.base + g.base
    OBVIOUS
  <2>1. Extent(c) <= MaxUsize /\ w.base + EffectiveSpan(c).bound <= MaxUsize
    BY Zenon DEF Takes, Fits
  <2>2. EffectiveSpan(c).bound \in Usize
    BY <1>1, <2>1, EffectiveFacts, Zenon
  <2>3. EffectiveSpan(c).bound \in Nat
    BY <2>2 DEF Usize
  <2>4. QED
    BY <2>1, <2>3, Zenon DEF Agree
<1>5. Takes(g, c)
  <2>1. skip => g.base + EffectiveSpan(c).bound <= MaxUsize
    BY <1>2, <1>4, MaxUsizeAssumption
  <2>2. QED
    BY <1>1, <1>4, <2>1, Zenon DEF Takes, Fits
<1>6. PICK v : v = MergeOne(w, c)
  OBVIOUS
<1>7. PICK n : n = MergeOne(g, c)
  OBVIOUS
<1>8. Steps(w, c, v) /\ Steps(g, c, n)
  <2>1. Steps(w, c, MergeOne(w, c)) /\ Steps(g, c, MergeOne(g, c))
    BY <1>1, MergeOneFields
  <2>2. QED
    BY <2>1, <1>6, <1>7, Zenon
<1>9. v.index # 0 /\ n.index # 0
  BY <1>8 DEF Steps
<1>10. skip => v.text = Glue(s.text, n.text)
  <2>1. Glue(Glue(s.text, g.text), c.text) = Glue(s.text, Glue(g.text, c.text))
    <3>1. PICK x \in Seq(Nat), y \in Seq(Nat), z \in Seq(Nat) :
            x = s.text /\ y = g.text /\ z = c.text
      BY <1>2, <1>3, Zenon
    <3>2. Glue(Glue(x, y), z) = Glue(x, Glue(y, z))
      BY GlueFacts
    <3>3. QED
      BY <3>1, <3>2, Zenon
  <2>2. QED
    BY <1>8, <2>1, Zenon DEF Steps, Agree
<1>11. ~skip => v.text = JoinTexts(s, s.text, n, n.text)
  <2>1. Joint(Joint(s.text, g.text), c.text) = Joint(s.text, Joint(g.text, c.text))
    <3>1. PICK x \in Seq(Nat), y \in Seq(Nat), z \in Seq(Nat) :
            x = s.text /\ y = g.text /\ z = c.text
      BY <1>2, <1>3, Zenon
    <3>2. Joint(Joint(x, y), z) = Joint(x, Joint(y, z))
      BY JointFacts
    <3>3. QED
      BY <3>1, <3>2, Zenon
  <2>2. ~skip => /\ w.text = JoinTexts(s, s.text, g, g.text)
                 /\ w.index = 0 <=> s.index = 0 /\ g.index = 0
                 /\ v.text = IF w.index = 0 THEN c.text ELSE Joint(w.text, c.text)
                 /\ n.text = IF g.index = 0 THEN c.text ELSE Joint(g.text, c.text)
    BY <1>8, Zenon DEF Steps, Agree
  <2>3. QED
    BY <1>9, <2>1, <2>2, Zenon DEF JoinTexts
<1>12. skip => v.ids = s.ids \o Shift(s.base, n.ids)
  <2> SUFFICES ASSUME skip PROVE v.ids = s.ids \o Shift(s.base, n.ids)
    OBVIOUS
  <2>1. PICK a \in Nat, b \in Nat, x \in Seq(Nat), y \in Seq(Nat), z \in Seq(Nat) :
          a = s.base /\ b = g.base /\ x = s.ids /\ y = g.ids /\ z = c.ids
    BY <1>2, <1>3, Zenon
  <2>2. PICK d : d = w.base /\ d = a + b
    BY <1>4, <2>1
  <2>3. (x \o Shift(a, y)) \o Shift(d, z) = x \o Shift(a, y \o Shift(b, z))
    <3> DEFINE ay == Shift(a, y)
               bz == Shift(b, z)
               abz == Shift(a, bz)
    <3>1. ay \in Seq(Nat) /\ bz \in Seq(Nat) /\ abz \in Seq(Nat)
      BY ShiftFacts
    <3>2. abz = Shift(d, z)
      <4>1. abz = Shift(a + b, z)
        BY ShiftTwice
      <4>2. QED
        BY <2>2, <4>1, Zenon
    <3>3. Shift(a, y \o bz) = ay \o abz
      BY <3>1, ShiftConcatenation
    <3> HIDE DEF ay, bz, abz
    <3>4. (x \o ay) \o abz = x \o (ay \o abz)
      BY <3>1, Reassociation
    <3>5. QED
      BY <3>2, <3>3, <3>4, Zenon DEF ay, bz
  <2>4. /\ w.ids = x \o Shift(a, y) /\ v.ids = w.ids \o Shift(d, z)
        /\ n.ids = y \o Shift(b, z)
    BY <1>8, <2>1, <2>2, Zenon DEF Steps, Agree
  <2>5. QED
    BY <2>1, <2>3, <2>4, Zenon
<1>13. skip => v.base = s.base + n.base
  <2>1. skip => /\ v.base = w.base + EffectiveSpan(c).bound
                /\ n.base = g.base + EffectiveSpan(c).bound
    BY <1>8, Zenon DEF Steps
  <2>2. QED
    BY <1>2, <1>4, <2>1
<1>14. v.facts.facts = JoinFacts(s, s.facts.facts, n, n.facts.facts)
  <2> DEFINE f == StoredFacts(c)
             h == g.facts.facts
             k == s.facts.facts
  <2>1. f \in FactsOf(Languages)
    BY <1>1, <1>4, StoredFactsType, Zenon
  <2>2. /\ w.index # 0 => v.facts.facts = MergeFacts(w.facts.facts, f)
        /\ w.index = 0 => v.facts.facts = f
        /\ g.index # 0 => n.facts.facts = MergeFacts(h, f)
        /\ g.index = 0 => n.facts.facts = f
    <3>1. (w.index # 0 => w.index > 0) /\ (g.index # 0 => g.index > 0)
      BY <1>2
    <3>2. QED
      BY <1>8, <3>1, Zenon DEF Steps
  <2>3. /\ w.facts.facts = JoinFacts(s, k, g, h)
        /\ w.index = 0 <=> s.index = 0 /\ g.index = 0
    BY Zenon DEF Agree
  <2>4. k \in FactsOf(Languages) /\ h \in FactsOf(Languages)
    BY <1>2
  <2> HIDE DEF f, h, k
  <2>5. MergeFacts(MergeFacts(k, h), f) = MergeFacts(k, MergeFacts(h, f))
    BY <2>1, <2>4, MergeFactsAssociative, Zenon
  <2>6. v.facts.facts = JoinFacts(s, k, n, n.facts.facts)
    BY <1>9, <2>2, <2>3, <2>5, Zenon DEF JoinFacts
  <2>7. QED
    BY <2>6 DEF k
<1>15. Agree(v, s, n)
  BY <1>9, <1>10, <1>11, <1>12, <1>13, <1>14, Zenon DEF Agree
<1>16. QED
  BY <1>5, <1>6, <1>7, <1>15, Zenon

LEMMA StartFields ==
  /\ Start.index = 0 /\ Start.base = 0 /\ Start.ids = <<>> /\ Start.text = <<>>
  /\ Start.facts.merged = FALSE
BY DEF Start, NoFacts

LEMMA EmptyShift == \A a \in Nat : Shift(a, <<>>) = <<>>
BY DEF Shift

LEMMA EmptyConcatenation == \A x \in Seq(Nat) : x \o <<>> = x /\ <<>> \o x = x
OBVIOUS

LEMMA ZeroShift == \A x \in Seq(Nat) : Shift(0, x) = x
<1> TAKE x \in Seq(Nat)
<1>1. /\ Shift(0, x) \in Seq(Nat) /\ Len(Shift(0, x)) = Len(x)
      /\ \A i \in 1..Len(x) : Shift(0, x)[i] = 0 + x[i]
  BY ShiftFacts
<1>2. \A i \in 1..Len(x) : 0 + x[i] = x[i]
  OBVIOUS
<1>3. \A i \in 1..Len(x) : Shift(0, x)[i] = x[i]
  BY <1>1, <1>2, Zenon
<1>4. QED
  BY <1>1, <1>3, SeqEqual

\* A group's result is merged into the stage, and another group is begun.
LEMMA AgreeClose ==
  ASSUME NEW w, Sound(w), NEW s, Sound(s), NEW g, Sound(g), Agree(w, s, g),
         g.index > 0
  PROVE  Takes(s, Merged(g)) /\ Agree(w, MergeOne(s, Merged(g)), Start)
<1> DEFINE c == Merged(g)
<1>1. /\ w.text \in Seq(Nat) /\ s.text \in Seq(Nat) /\ g.text \in Seq(Nat)
      /\ w.ids \in Seq(Nat) /\ s.ids \in Seq(Nat) /\ g.ids \in Seq(Nat)
      /\ w.base \in Nat /\ s.base \in Nat /\ g.base \in Nat
      /\ w.index \in Nat /\ s.index \in Nat /\ g.index \in Nat
  <2>1. w \in MergeStates /\ s \in MergeStates /\ g \in MergeStates
    BY Zenon DEF Sound
  <2>2. QED
    BY <2>1, MergeFields
<1>2. /\ c \in ResultLike
      /\ skip => /\ Bounded(c) /\ Extent(c) <= MaxUsize
                 /\ EffectiveSpan(c).bound = g.base
      /\ StoredFacts(c) = g.facts.facts
  BY MergedFacts, Zenon
<1>3. c.text = g.text /\ c.ids = g.ids
  BY DEF Merged
<1> HIDE DEF c
<1>4. skip => w.base = s.base + g.base /\ w.base <= MaxUsize
  BY MaxUsizeAssumption DEF Agree, Sound, Usize
<1>5. Takes(s, c)
  BY <1>2, <1>4, Zenon DEF Takes, Fits
<1>6. PICK n : n = MergeOne(s, c)
  OBVIOUS
<1>7. Steps(s, c, n)
  <2>1. Steps(s, c, MergeOne(s, c))
    BY <1>2, MergeOneFields
  <2>2. QED
    BY <2>1, <1>6, Zenon
<1>8. n.index # 0 /\ w.index # 0 /\ g.index # 0
  <2>1. n.index # 0 /\ g.index # 0
    BY <1>1, <1>7 DEF Steps
  <2>2. QED
    BY <2>1, Zenon DEF Agree
<1>9. skip => w.text = Glue(n.text, Start.text)
  <2>1. n.text \in Seq(Nat)
    BY <1>7, Zenon DEF Steps
  <2>2. PICK x \in Seq(Nat) : x = n.text
    BY <2>1
  <2>3. Glue(x, <<>>) = x
    BY GlueFacts
  <2>4. skip => w.text = n.text
    BY <1>3, <1>7, Zenon DEF Steps, Agree
  <2>5. QED
    BY <2>2, <2>3, <2>4, StartFields, Zenon
<1>10. ~skip => w.text = JoinTexts(n, n.text, Start, Start.text)
  <2>1. ~skip => w.text = JoinTexts(s, s.text, g, g.text)
    BY Zenon DEF Agree
  <2>2. ~skip => n.text = IF s.index = 0 THEN g.text ELSE Joint(s.text, g.text)
    BY <1>3, <1>7, Zenon DEF Steps
  <2>3. QED
    BY <2>1, <2>2, <1>8, StartFields, Zenon DEF JoinTexts
<1>11. skip => w.ids = n.ids \o Shift(n.base, Start.ids)
  <2> SUFFICES ASSUME skip PROVE w.ids = n.ids \o Shift(n.base, Start.ids)
    OBVIOUS
  <2>1. w.ids = n.ids /\ n.base = s.base + g.base
    BY <1>2, <1>3, <1>7, Zenon DEF Steps, Agree
  <2>2. n.base \in Nat
    BY <2>1, <1>1
  <2>3. Shift(n.base, <<>>) = <<>>
    BY <2>2, EmptyShift
  <2>4. w.ids \o <<>> = w.ids
    BY <1>1, EmptyConcatenation, Zenon
  <2>5. QED
    BY <2>1, <2>3, <2>4, StartFields, Zenon
<1>12. skip => w.base = n.base + Start.base
  <2>1. skip => n.base = s.base + g.base
    BY <1>2, <1>7, Zenon DEF Steps
  <2>2. QED
    BY <2>1, <1>1, <1>4, StartFields
<1>13. w.facts.facts = JoinFacts(n, n.facts.facts, Start, Start.facts.facts)
  <2>1. w.facts.facts = JoinFacts(s, s.facts.facts, g, g.facts.facts)
    BY Zenon DEF Agree
  <2>2. /\ s.index # 0 => n.facts.facts = MergeFacts(s.facts.facts, g.facts.facts)
        /\ s.index = 0 => n.facts.facts = g.facts.facts
    <3>1. s.index # 0 => s.index > 0
      BY <1>1
    <3>2. QED
      BY <3>1, <1>2, <1>7, Zenon DEF Steps
  <2>3. QED
    BY <2>1, <2>2, <1>8, StartFields, Zenon DEF JoinFacts
<1>14. Agree(w, n, Start)
  BY <1>8, <1>9, <1>10, <1>11, <1>12, <1>13, StartFields, Zenon DEF Agree
<1>15. QED
  BY <1>5, <1>6, <1>14, Zenon DEF c

\* A stage's result, merged alone, is what the stage was.
LEMMA AgreeRestage ==
  ASSUME NEW w, Sound(w), NEW s, Sound(s), NEW g, Sound(g), Agree(w, s, g),
         s.index > 0
  PROVE  Takes(Start, Merged(s)) /\ Agree(w, MergeOne(Start, Merged(s)), g)
<1> DEFINE c == Merged(s)
<1>1. /\ s.text \in Seq(Nat) /\ s.ids \in Seq(Nat) /\ s.base \in Nat /\ s.index \in Nat
  <2>1. s \in MergeStates
    BY Zenon DEF Sound
  <2>2. QED
    BY <2>1, MergeFields
<1>2. /\ c \in ResultLike
      /\ skip => /\ Bounded(c) /\ Extent(c) <= MaxUsize
                 /\ EffectiveSpan(c).bound = s.base
      /\ StoredFacts(c) = s.facts.facts
  BY MergedFacts, Zenon
<1>3. c.text = s.text /\ c.ids = s.ids
  BY DEF Merged
<1> HIDE DEF c
<1>4. skip => s.base <= MaxUsize
  BY MaxUsizeAssumption DEF Sound, Usize
<1>5. Takes(Start, c)
  <2>1. skip => Start.base + EffectiveSpan(c).bound <= MaxUsize
    BY <1>1, <1>2, <1>4, StartFields
  <2>2. QED
    BY <1>2, <2>1, Zenon DEF Takes, Fits
<1>6. PICK n : n = MergeOne(Start, c)
  OBVIOUS
<1>7. Steps(Start, c, n)
  <2>1. Steps(Start, c, MergeOne(Start, c))
    BY <1>2, StartSound, MergeOneFields
  <2>2. QED
    BY <2>1, <1>6, Zenon
<1>8. n.index # 0 /\ s.index # 0
  BY <1>1, <1>7 DEF Steps
<1>9. n.text = s.text
  <2>1. PICK x \in Seq(Nat) : x = s.text
    BY <1>1
  <2>2. Glue(<<>>, x) = x
    BY GlueFacts
  <2>3. QED
    BY <2>1, <2>2, <1>3, <1>7, StartFields, Zenon DEF Steps
<1>10. skip => n.ids = s.ids /\ n.base = s.base
  <2>1. Shift(0, s.ids) = s.ids
    BY <1>1, ZeroShift, Zenon
  <2>2. <<>> \o s.ids = s.ids
    BY <1>1, EmptyConcatenation, Zenon
  <2>3. skip => n.ids = <<>> \o Shift(0, s.ids) /\ n.base = 0 + s.base
    BY <1>2, <1>3, <1>7, StartFields, Zenon DEF Steps
  <2>4. 0 + s.base = s.base
    BY <1>1
  <2>5. QED
    BY <2>1, <2>2, <2>3, <2>4, Zenon
<1>11. n.facts.facts = s.facts.facts
  BY <1>2, <1>7, StartFields, Zenon DEF Steps
<1>12. Agree(w, n, g)
  BY <1>8, <1>9, <1>10, <1>11, Zenon DEF Agree, JoinTexts, JoinFacts
<1>13. QED
  BY <1>5, <1>6, <1>12, Zenon DEF c

-----------------------------------------------------------------------------
(* The inductive invariant. *)

\* The ids, child by child: each below the base, and no two children's alike.
Origins ==
  /\ origin \in Seq(Nat) /\ Len(origin) = Len(whole.ids)
  /\ \A i \in 1..Len(whole.ids) : origin[i] <= children
  /\ skip => \A i, j \in 1..Len(whole.ids) :
               origin[i] # origin[j] => whole.ids[i] # whole.ids[j]

\* What the children so far promise together.
Promises ==
  /\ clean \in BOOLEAN
  /\ whole.index = 0 => clean = TRUE
  /\ whole.index # 0 => (IsReproducibleUnder(whole.facts.facts, FALSE) <=> clean)

IInv ==
  /\ skip \in BOOLEAN
  /\ children \in Nat /\ whole.index = children
  /\ Sound(whole) /\ Sound(staged) /\ Sound(group)
  /\ Agree(whole, staged, group)
  /\ Origins
  /\ Promises

LEMMA ChildLike ==
  ASSUME NEW c \in Children
  PROVE  c \in ResultLike /\ Bounded(c)
<1>1. c \in ResultSet
  BY ChildrenAssumption
<1>2. c.ids \in Seq(Usize) /\ c.text \in Seq(Nat) /\ c.facts \in FactsOf(Languages)
  BY <1>1 DEF ResultSet
<1>3. c = [text |-> c.text, ids |-> c.ids, facts |-> c.facts]
  BY <1>1 DEF ResultSet
<1>4. /\ c.ids \in Seq(Nat)
      /\ \A i \in DOMAIN c.ids : c.ids[i] < MaxUsize + 1
  BY <1>2, MaxUsizeAssumption DEF Usize
<1>5. c \in ResultLike
  BY <1>2, <1>3, <1>4, Zenon DEF ResultLike
<1>6. MaxUsize + 1 \in Nat
  BY MaxUsizeAssumption
<1>7. QED
  BY <1>4, <1>5, <1>6, Zenon DEF Bounded

\* A merged record promises when both do; a lone one as itself.
LEMMA ReproducibleFacts ==
  ASSUME NEW a \in FactsOf(Languages), NEW b \in FactsOf(Languages)
  PROVE  IsReproducibleUnder(MergeFacts(a, b), FALSE)
           <=> IsReproducibleUnder(a, FALSE) /\ IsReproducibleUnder(b, FALSE)
<1>1. /\ a.drewFromRng \in Optional(BOOLEAN) /\ b.drewFromRng \in Optional(BOOLEAN)
      /\ a.earlyStopped \in Optional(BOOLEAN) /\ b.earlyStopped \in Optional(BOOLEAN)
      /\ a.hadSwallowedError \in Optional(BOOLEAN)
      /\ b.hadSwallowedError \in Optional(BOOLEAN)
  BY DEF FactsOf
<1>2. \A f : IsReproducibleUnder(f, FALSE)
               <=> /\ f.earlyStopped = {FALSE} /\ f.hadSwallowedError = {FALSE}
                   /\ f.drewFromRng = {FALSE}
  BY Zenon DEF IsReproducibleUnder
<1>3. PICK n : n = MergeFacts(a, b)
  OBVIOUS
<1>4. /\ n.drewFromRng = KleeneOr(a.drewFromRng, b.drewFromRng)
      /\ n.earlyStopped = KleeneOr(a.earlyStopped, b.earlyStopped)
      /\ n.hadSwallowedError = KleeneOr(a.hadSwallowedError, b.hadSwallowedError)
  BY <1>3 DEF MergeFacts
<1>5. /\ n.drewFromRng = {FALSE} <=> a.drewFromRng = {FALSE} /\ b.drewFromRng = {FALSE}
      /\ n.earlyStopped = {FALSE} <=> a.earlyStopped = {FALSE} /\ b.earlyStopped = {FALSE}
      /\ n.hadSwallowedError = {FALSE}
           <=> a.hadSwallowedError = {FALSE} /\ b.hadSwallowedError = {FALSE}
  <2>1. \A x, y \in Optional(BOOLEAN) :
          KleeneOr(x, y) = {FALSE} <=> x = {FALSE} /\ y = {FALSE}
    BY KleeneOrFacts
  <2>2. QED
    BY <1>1, <1>4, <2>1, Zenon
<1>6. QED
  BY <1>2, <1>3, <1>5, Zenon

\* What is stored of a child promises what the child does.
LEMMA StoredReproducible ==
  ASSUME NEW c \in ResultLike
  PROVE  IsReproducibleUnder(StoredFacts(c), FALSE) <=> IsReproducibleUnder(c.facts, FALSE)
<1>1. PICK n : n = StoredFacts(c)
  OBVIOUS
<1>2. /\ n.drewFromRng = c.facts.drewFromRng /\ n.earlyStopped = c.facts.earlyStopped
      /\ n.hadSwallowedError = c.facts.hadSwallowedError
  <2>1. c.facts \in FactsOf(Languages)
    BY ResultFields
  <2>2. CASE ~skip
    BY <1>1, <2>2, Zenon DEF StoredFacts
  <2>3. CASE skip
    <3>1. PICK f \in FactsOf(Languages) : f = c.facts
      BY <2>1
    <3>2. PICK e : e = EffectiveSpan(c)
      OBVIOUS
    <3>3. n = [f EXCEPT !.decodedSpan = e]
      BY <1>1, <2>3, <3>1, <3>2, Zenon DEF StoredFacts
    <3>4. /\ n.drewFromRng = f.drewFromRng /\ n.earlyStopped = f.earlyStopped
          /\ n.hadSwallowedError = f.hadSwallowedError
      BY <3>3 DEF FactsOf
    <3>5. QED
      BY <3>1, <3>4, Zenon
  <2>4. QED
    BY <2>2, <2>3
<1>3. QED
  BY <1>1, <1>2, Zenon DEF IsReproducibleUnder

LEMMA InitIInv == Init => IInv
<1> SUFFICES ASSUME Init PROVE IInv
  OBVIOUS
<1>1. /\ skip \in BOOLEAN /\ whole = Start /\ staged = Start /\ group = Start
      /\ children = 0 /\ origin = <<>> /\ clean = TRUE
  BY Zenon DEF Init
<1>2. Sound(whole) /\ Sound(staged) /\ Sound(group)
  BY <1>1, StartSound, Zenon
<1>3. Agree(Start, Start, Start)
  <2>1. <<>> \o Shift(0, <<>>) = <<>> /\ 0 = 0 + 0
    BY EmptyShift, EmptyConcatenation
  <2>2. Glue(<<>>, <<>>) = <<>>
    BY Zenon DEF Glue
  <2>3. QED
    BY <2>1, <2>2, StartFields, Zenon DEF Agree, JoinTexts, JoinFacts
<1>4. Origins
  BY <1>1, StartFields DEF Origins
<1>5. Promises
  BY <1>1, StartFields, Zenon DEF Promises
<1>6. QED
  BY <1>1, <1>2, <1>3, <1>4, <1>5, StartFields, Zenon DEF IInv

LEMMA TakeIInv ==
  ASSUME IInv, NEW c \in Children, Take(c)
  PROVE  IInv'
<1>1. /\ Fits(whole, c) /\ whole' = MergeOne(whole, c) /\ group' = MergeOne(group, c)
      /\ children' = children + 1
      /\ origin' = origin \o [i \in DOMAIN c.ids |-> children']
      /\ clean' = (clean /\ IsReproducibleUnder(c.facts, FALSE))
      /\ skip' = skip /\ staged' = staged
  BY Zenon DEF Take
<1>2. c \in ResultLike /\ Bounded(c) /\ Takes(whole, c)
  BY <1>1, ChildLike, Zenon DEF Takes
<1>3. /\ Sound(whole) /\ Sound(staged) /\ Sound(group) /\ Agree(whole, staged, group)
      /\ children \in Nat /\ whole.index = children /\ skip \in BOOLEAN
  BY Zenon DEF IInv
<1>4. Takes(group, c) /\ Agree(whole', staged, group')
  BY <1>1, <1>2, <1>3, AgreeTake, Zenon
<1>5. Sound(whole') /\ Sound(group')
  BY <1>1, <1>2, <1>3, <1>4, MergeOneSound, Zenon
<1>6. Steps(whole, c, whole')
  BY <1>1, <1>2, <1>3, MergeOneFields, Zenon
<1>7. children' \in Nat /\ whole'.index = children' /\ whole'.index # 0
  BY <1>1, <1>3, <1>6 DEF Steps
<1>8. Promises'
  <2>1. /\ whole.index # 0 => whole'.facts.facts = MergeFacts(whole.facts.facts, StoredFacts(c))
        /\ whole.index = 0 => whole'.facts.facts = StoredFacts(c)
    <3>1. whole.index # 0 => whole.index > 0
      BY <1>3
    <3>2. QED
      BY <1>6, <3>1, Zenon DEF Steps
  <2>2. /\ clean \in BOOLEAN /\ (whole.index = 0 => clean = TRUE)
        /\ whole.index # 0 => (IsReproducibleUnder(whole.facts.facts, FALSE) <=> clean)
    BY Zenon DEF IInv, Promises
  <2>3. StoredFacts(c) \in FactsOf(Languages) /\ whole.facts.facts \in FactsOf(Languages)
    <3>1. skip => Extent(c) <= MaxUsize
      BY <1>1, Zenon DEF Fits
    <3>2. StoredFacts(c) \in FactsOf(Languages)
      BY <1>2, <3>1, StoredFactsType, Zenon
    <3>3. whole \in MergeStates
      BY <1>3, Zenon DEF Sound
    <3>4. QED
      BY <3>2, <3>3, MergeFields
  <2>4. IsReproducibleUnder(StoredFacts(c), FALSE) <=> IsReproducibleUnder(c.facts, FALSE)
    BY <1>2, StoredReproducible
  <2>5. IsReproducibleUnder(MergeFacts(whole.facts.facts, StoredFacts(c)), FALSE)
          <=> /\ IsReproducibleUnder(whole.facts.facts, FALSE)
              /\ IsReproducibleUnder(StoredFacts(c), FALSE)
    <3>1. PICK a \in FactsOf(Languages), b \in FactsOf(Languages) :
            a = whole.facts.facts /\ b = StoredFacts(c)
      BY <2>3, Zenon
    <3>2. IsReproducibleUnder(MergeFacts(a, b), FALSE)
            <=> IsReproducibleUnder(a, FALSE) /\ IsReproducibleUnder(b, FALSE)
      BY ReproducibleFacts
    <3>3. QED
      BY <3>1, <3>2, Zenon
  <2>6. clean' \in BOOLEAN
    BY <1>1, <2>2, Zenon
  <2>7. IsReproducibleUnder(whole'.facts.facts, FALSE) <=> clean'
    <3>1. CASE whole.index = 0
      <4>1. clean' <=> IsReproducibleUnder(c.facts, FALSE)
        BY <1>1, <2>2, <3>1, Zenon
      <4>2. QED
        BY <2>1, <2>4, <3>1, <4>1, Zenon
    <3>2. CASE whole.index # 0
      <4>1. clean' <=> clean /\ IsReproducibleUnder(c.facts, FALSE)
        BY <1>1, Zenon
      <4>2. whole'.facts.facts = MergeFacts(whole.facts.facts, StoredFacts(c))
        BY <2>1, <3>2, Zenon
      <4>3. QED
        BY <2>2, <2>4, <2>5, <3>2, <4>1, <4>2, Zenon
    <3>3. QED
      BY <3>1, <3>2
  <2>8. QED
    BY <1>7, <2>6, <2>7, Zenon DEF Promises
<1>9. Origins'
  <2> DEFINE mine == [i \in DOMAIN c.ids |-> children']
  <2>1. whole.ids \in Seq(Nat) /\ c.ids \in Seq(Nat) /\ whole.base \in Nat
    <3>1. whole \in MergeStates
      BY <1>3, Zenon DEF Sound
    <3>2. QED
      BY <1>2, <3>1, MergeFields, ResultFields
  <2>2. /\ mine \in Seq(Nat) /\ Len(mine) = Len(c.ids)
        /\ \A k \in 1..Len(c.ids) : mine[k] = children'
    BY <1>7, <2>1
  <2>3. origin' = origin \o mine
    BY <1>1
  <2> HIDE DEF mine
  <2>4. /\ origin \in Seq(Nat) /\ Len(origin) = Len(whole.ids)
        /\ \A i \in 1..Len(whole.ids) : origin[i] <= children
        /\ skip => \A i, j \in 1..Len(whole.ids) :
                     origin[i] # origin[j] => whole.ids[i] # whole.ids[j]
    BY Zenon DEF IInv, Origins
  <2>5. /\ origin' \in Seq(Nat) /\ Len(origin') = Len(whole.ids) + Len(c.ids)
        /\ \A i \in 1..Len(whole.ids) : origin'[i] = origin[i]
        /\ \A k \in 1..Len(c.ids) : origin'[Len(whole.ids) + k] = mine[k]
    <3>1. PICK x \in Seq(Nat), y \in Seq(Nat) : x = origin /\ y = mine
      BY <2>2, <2>4, Zenon
    <3>2. /\ x \o y \in Seq(Nat) /\ Len(x \o y) = Len(x) + Len(y)
          /\ \A k \in 1..Len(x) : (x \o y)[k] = x[k]
          /\ \A k \in 1..Len(y) : (x \o y)[Len(x) + k] = y[k]
      BY Concatenation
    <3>3. QED
      BY <2>2, <2>3, <2>4, <3>1, <3>2, Zenon
  <2>6. whole'.ids \in Seq(Nat) /\ Len(whole'.ids) = Len(whole.ids) + Len(c.ids)
    <3>1. whole'.ids = whole.ids \o Renumbered(whole, c)
      BY <1>1 DEF MergeOne
    <3>2. whole' \in MergeStates
      BY <1>5, Zenon DEF Sound
    <3>3. whole'.ids \in Seq(Nat)
      BY <3>2, MergeFields
    <3>4. /\ DOMAIN Renumbered(whole, c) = 1..Len(c.ids)
          /\ Renumbered(whole, c) \in Seq(Nat)
      <4>1. whole.index \in Nat
        BY <1>3
      <4>2. \A i \in DOMAIN c.ids : whole.base + c.ids[i] \in Nat /\ whole.index + i - 1 \in Nat
        BY <2>1, <4>1
      <4>3. DOMAIN c.ids = 1..Len(c.ids)
        BY <2>1
      <4>4. Renumbered(whole, c) \in Seq(Nat)
        <5>1. PICK x \in Seq(Nat), a \in Nat, b \in Nat :
                x = c.ids /\ a = whole.base /\ b = whole.index
          BY <2>1, <4>1, Zenon
        <5>2. [i \in DOMAIN x |-> a + x[i]] \in Seq(Nat)
          OBVIOUS
        <5>3. [i \in DOMAIN x |-> b + i - 1] \in Seq(Nat)
          OBVIOUS
        <5>4. \/ Renumbered(whole, c) = [i \in DOMAIN x |-> a + x[i]]
              \/ Renumbered(whole, c) = [i \in DOMAIN x |-> b + i - 1]
          BY <5>1, Zenon DEF Renumbered
        <5>5. QED
          BY <5>2, <5>3, <5>4, Zenon
      <4>5. DOMAIN Renumbered(whole, c) = DOMAIN c.ids
        BY Zenon DEF Renumbered
      <4>6. QED
        BY <4>3, <4>4, <4>5, Zenon
    <3>5. Len(Renumbered(whole, c)) = Len(c.ids)
      BY <2>1, <3>4
    <3>6. PICK x \in Seq(Nat), y \in Seq(Nat) : x = whole.ids /\ y = Renumbered(whole, c)
      BY <2>1, <3>4, Zenon
    <3>7. Len(x \o y) = Len(x) + Len(y)
      OBVIOUS
    <3>8. QED
      BY <3>1, <3>3, <3>5, <3>6, <3>7, Zenon
  <2>12. ASSUME NEW i \in 1..Len(whole'.ids), ~(i \in 1..Len(whole.ids))
         PROVE  \E k \in 1..Len(c.ids) : i = Len(whole.ids) + k
    <3>1. PICK a \in Nat, b \in Nat : a = Len(whole.ids) /\ b = Len(c.ids)
      <4>1. Len(whole.ids) \in Nat /\ Len(c.ids) \in Nat
        BY <2>1
      <4>2. QED
        BY <4>1, Zenon
    <3>2. i \in 1..(a + b) /\ ~(i \in 1..a)
      BY <2>6, <2>12, <3>1, Zenon
    <3>3. i - a \in 1..b /\ i = a + (i - a)
      BY <3>2
    <3>4. \E k \in 1..b : i = a + k
      BY <3>3, Zenon
    <3>5. QED
      BY <3>1, <3>4, Zenon
  <2>7. ASSUME NEW i \in 1..Len(whole'.ids) PROVE origin'[i] <= children'
    <3>1. Len(whole.ids) \in Nat /\ Len(c.ids) \in Nat
      BY <2>1
    <3>2. CASE i \in 1..Len(whole.ids)
      BY <3>2, <2>4, <2>5, <1>1, <1>3
    <3>3. CASE ~(i \in 1..Len(whole.ids))
      <4>1. PICK k \in 1..Len(c.ids) : i = Len(whole.ids) + k
        BY <2>12, <3>3, Zenon
      <4>2. origin'[i] = children'
        BY <4>1, <2>2, <2>5, Zenon
      <4>3. QED
        BY <4>2, <1>7
    <3>4. QED
      BY <3>2, <3>3
  <2>8. ASSUME skip', NEW i \in 1..Len(whole'.ids), NEW j \in 1..Len(whole'.ids),
               origin'[i] # origin'[j], i < j
        PROVE  whole'.ids[i] # whole'.ids[j]
    <3> DEFINE moved == Shift(whole.base, c.ids)
    <3>1. /\ moved \in Seq(Nat) /\ Len(moved) = Len(c.ids)
          /\ \A k \in 1..Len(c.ids) : moved[k] = whole.base + c.ids[k]
      BY <2>1, ShiftFacts
    <3>2. skip /\ whole'.ids = whole.ids \o moved
      BY <1>1, <1>6, <2>8, Zenon DEF Steps
    <3> HIDE DEF moved
    <3>3. /\ \A k \in 1..Len(whole.ids) : whole'.ids[k] = whole.ids[k]
          /\ \A k \in 1..Len(c.ids) : whole'.ids[Len(whole.ids) + k] = moved[k]
      <4>1. PICK x \in Seq(Nat), y \in Seq(Nat) : x = whole.ids /\ y = moved
        BY <2>1, <3>1, Zenon
      <4>2. /\ \A k \in 1..Len(x) : (x \o y)[k] = x[k]
            /\ \A k \in 1..Len(y) : (x \o y)[Len(x) + k] = y[k]
        OBVIOUS
      <4>3. QED
        BY <3>1, <3>2, <4>1, <4>2, Zenon
    <3>4. Len(whole.ids) \in Nat /\ Len(c.ids) \in Nat
      BY <2>1
    <3>5. CASE j \in 1..Len(whole.ids)
      <4>1. i \in 1..Len(whole.ids)
        BY <3>4, <3>5, <2>8, <2>6
      <4>2. QED
        BY <4>1, <3>5, <3>2, <3>3, <2>4, <2>5, <2>8, Zenon
    <3>6. CASE ~(j \in 1..Len(whole.ids))
      <4>2. PICK k \in 1..Len(c.ids) : j = Len(whole.ids) + k
        BY <2>12, <3>6, Zenon
      <4>3. i \in 1..Len(whole.ids)
        <5> SUFFICES ASSUME ~(i \in 1..Len(whole.ids)) PROVE FALSE
          OBVIOUS
        <5>1. PICK l \in 1..Len(c.ids) : i = Len(whole.ids) + l
          BY <2>12, Zenon
        <5>2. origin'[i] = children' /\ origin'[j] = children'
          BY <4>2, <5>1, <2>2, <2>5, Zenon
        <5>3. QED
          BY <5>2, <2>8
      <4>4. whole'.ids[j] = whole.base + c.ids[k]
        BY <4>2, <3>1, <3>3, Zenon
      <4>5. i \in DOMAIN whole.ids /\ whole.ids[i] \in Nat
        BY <2>1, <4>3
      <4>6. whole.ids[i] < whole.base
        BY <1>3, <3>2, <4>5, Zenon DEF Sound
      <4>7. whole'.ids[i] = whole.ids[i]
        BY <3>3, <4>3, Zenon
      <4>8. c.ids[k] \in Nat
        BY <2>1
      <4>9. PICK a \in Nat, b \in Nat, d \in Nat :
              a = whole.ids[i] /\ b = whole.base /\ d = c.ids[k]
        BY <2>1, <4>5, <4>8, Zenon
      <4>10. a < b
        BY <4>6, <4>9, Zenon
      <4>11. a # b + d
        BY <4>10
      <4>12. QED
        BY <4>4, <4>7, <4>9, <4>11, Zenon
    <3>7. QED
      BY <3>5, <3>6
  <2>9. ASSUME skip', NEW i \in 1..Len(whole'.ids), NEW j \in 1..Len(whole'.ids),
               origin'[i] # origin'[j]
        PROVE  whole'.ids[i] # whole'.ids[j]
    <3>1. i < j \/ j < i
      <4>1. i # j /\ i \in Nat /\ j \in Nat
        BY <2>6, <2>9
      <4>2. QED
        BY <4>1
    <3>2. QED
      BY <3>1, <2>8, <2>9, Zenon
  <2>10. Len(origin') = Len(whole'.ids)
    BY <2>5, <2>6
  <2>11. QED
    BY <2>5, <2>7, <2>9, <2>10, Zenon DEF Origins
<1>10. Sound(whole)' /\ Sound(group)' /\ Sound(staged)'
  BY <1>1, <1>3, <1>5, Zenon DEF Sound
<1>11. Agree(whole, staged, group)'
  BY <1>1, <1>4, Zenon DEF Agree, JoinTexts, JoinFacts
<1>12. QED
  BY <1>1, <1>3, <1>7, <1>8, <1>9, <1>10, <1>11, Zenon DEF IInv

LEMMA CloseIInv ==
  ASSUME IInv, CloseGroup
  PROVE  IInv'
<1>1. /\ group.index > 0 /\ staged' = MergeOne(staged, Merged(group)) /\ group' = Start
      /\ whole' = whole /\ children' = children /\ origin' = origin /\ clean' = clean
      /\ skip' = skip
  BY Zenon DEF CloseGroup, IsStarted
<1>2. /\ Sound(whole) /\ Sound(staged) /\ Sound(group) /\ Agree(whole, staged, group)
      /\ children \in Nat /\ whole.index = children /\ skip \in BOOLEAN
  BY Zenon DEF IInv
<1>3. Takes(staged, Merged(group)) /\ Agree(whole, staged', group')
  BY <1>1, <1>2, AgreeClose, Zenon
<1>4. Sound(staged') /\ Sound(group')
  BY <1>1, <1>2, <1>3, MergeOneSound, StartSound, Zenon
<1>5. Sound(whole)' /\ Sound(group)' /\ Sound(staged)'
  BY <1>1, <1>2, <1>4, Zenon DEF Sound
<1>6. Agree(whole, staged, group)'
  BY <1>1, <1>3, Zenon DEF Agree, JoinTexts, JoinFacts
<1>7. Origins' /\ Promises'
  BY <1>1, Zenon DEF IInv, Origins, Promises
<1>8. QED
  BY <1>1, <1>2, <1>5, <1>6, <1>7, Zenon DEF IInv

LEMMA RestageIInv ==
  ASSUME IInv, Restage
  PROVE  IInv'
<1>1. /\ staged.index > 0 /\ staged' = MergeOne(Start, Merged(staged))
      /\ group' = group /\ whole' = whole /\ children' = children /\ origin' = origin
      /\ clean' = clean /\ skip' = skip
  BY Zenon DEF Restage, IsStarted
<1>2. /\ Sound(whole) /\ Sound(staged) /\ Sound(group) /\ Agree(whole, staged, group)
      /\ children \in Nat /\ whole.index = children /\ skip \in BOOLEAN
  BY Zenon DEF IInv
<1>3. Takes(Start, Merged(staged)) /\ Agree(whole, staged', group)
  BY <1>1, <1>2, AgreeRestage, Zenon
<1>4. Sound(staged')
  BY <1>1, <1>3, StartSound, MergeOneSound, Zenon
<1>5. Sound(whole)' /\ Sound(group)' /\ Sound(staged)'
  BY <1>1, <1>2, <1>4, Zenon DEF Sound
<1>6. Agree(whole, staged, group)'
  BY <1>1, <1>3, Zenon DEF Agree, JoinTexts, JoinFacts
<1>7. Origins' /\ Promises'
  BY <1>1, Zenon DEF IInv, Origins, Promises
<1>8. QED
  BY <1>1, <1>2, <1>5, <1>6, <1>7, Zenon DEF IInv

\* However the children of a merge are grouped, the stage, the group under
\* way and the merge of all children keep the invariant.
THEOREM Invariance == Spec => []IInv
<1>1. IInv /\ [Next]_vars => IInv'
  <2> SUFFICES ASSUME IInv, [Next]_vars PROVE IInv'
    OBVIOUS
  <2>1. CASE \E child \in Children : Take(child)
    BY <2>1, TakeIInv
  <2>2. CASE CloseGroup
    BY <2>2, CloseIInv
  <2>3. CASE Restage
    BY <2>3, RestageIInv
  <2>4. CASE UNCHANGED vars
    <3>1. /\ skip' = skip /\ whole' = whole /\ staged' = staged /\ group' = group
          /\ children' = children /\ origin' = origin /\ clean' = clean
      BY <2>4 DEF vars
    <3>2. Sound(whole)' /\ Sound(group)' /\ Sound(staged)'
      BY <3>1, Zenon DEF IInv, Sound
    <3>3. Agree(whole, staged, group)'
      BY <3>1, Zenon DEF IInv, Agree, JoinTexts, JoinFacts
    <3>4. Origins' /\ Promises'
      BY <3>1, Zenon DEF IInv, Origins, Promises
    <3>5. QED
      BY <3>1, <3>2, <3>3, <3>4, Zenon DEF IInv
  <2>5. QED
    BY <2>1, <2>2, <2>3, <2>4 DEF Next
<1>2. QED
  BY <1>1, InitIInv, PTL DEF Spec

-----------------------------------------------------------------------------
(* What the invariant says of the merge. *)

LEMMA TypesFollow == IInv => TypeOK
<1> SUFFICES ASSUME IInv PROVE TypeOK
  OBVIOUS
<1>1. whole \in MergeStates /\ staged \in MergeStates /\ group \in MergeStates
  BY Zenon DEF IInv, Sound
<1>2. QED
  BY <1>1, Zenon DEF IInv, Origins, Promises, TypeOK

LEMMA InjectivityFollows == IInv => IdsAreInjective
<1> SUFFICES ASSUME IInv PROVE IdsAreInjective
  OBVIOUS
<1>1. whole.ids \in Seq(Nat)
  <2>1. whole \in MergeStates
    BY Zenon DEF IInv, Sound
  <2>2. QED
    BY <2>1, MergeFields
<1>2. DOMAIN whole.ids = 1..Len(whole.ids)
  BY <1>1
<1>3. QED
  BY <1>2, Zenon DEF IInv, Origins, IdsAreInjective

LEMMA StagesFollow == IInv => StagedLikeOneShot
<1> SUFFICES ASSUME IInv, staged.index > 0, ~(group.index > 0)
             PROVE  /\ staged.text = whole.text
                    /\ staged.facts = whole.facts
                    /\ skip => staged.ids = whole.ids
  BY DEF StagedLikeOneShot, IsStarted
<1>1. /\ Sound(whole) /\ Sound(staged) /\ Sound(group) /\ Agree(whole, staged, group)
  BY Zenon DEF IInv
<1>2. whole \in MergeStates /\ staged \in MergeStates /\ group \in MergeStates
  BY <1>1, Zenon DEF Sound
<1>3. /\ staged.text \in Seq(Nat) /\ staged.ids \in Seq(Nat) /\ staged.base \in Nat
      /\ staged.index \in Nat /\ group.index \in Nat /\ whole.index \in Nat
      /\ whole.facts \in [merged : BOOLEAN, facts : FactsOf(Languages)]
      /\ staged.facts \in [merged : BOOLEAN, facts : FactsOf(Languages)]
  BY <1>2, MergeFields
<1>4. group.index = 0 /\ staged.index # 0
  BY <1>3
<1>5. group = Start /\ whole.index # 0
  BY <1>1, <1>4, Zenon DEF Sound, Agree
<1>6. staged.text = whole.text
  <2>1. PICK x \in Seq(Nat) : x = staged.text
    BY <1>3
  <2>2. Glue(x, <<>>) = x
    BY GlueFacts
  <2>3. QED
    BY <1>1, <1>4, <1>5, <2>1, <2>2, StartFields, Zenon DEF Agree, JoinTexts
<1>7. skip => staged.ids = whole.ids
  <2>1. Shift(staged.base, <<>>) = <<>>
    BY <1>3, EmptyShift
  <2>2. staged.ids \o <<>> = staged.ids
    BY <1>3, EmptyConcatenation, Zenon
  <2>3. QED
    BY <1>1, <1>5, <2>1, <2>2, StartFields, Zenon DEF Agree
<1>8. staged.facts = whole.facts
  <2>1. staged.facts.facts = whole.facts.facts
    BY <1>1, <1>4, <1>5, Zenon DEF Agree, JoinFacts
  <2>2. staged.facts.merged = whole.facts.merged
    <3>1. whole.index > 0
      BY <1>3, <1>5
    <3>2. QED
      BY <1>1, <3>1, Zenon DEF Sound
  <2>3. QED
    BY <1>3, <2>1, <2>2
<1>9. QED
  BY <1>6, <1>7, <1>8, Zenon

LEMMA PromiseFollows == IInv => PromisesWhatItsChildrenDo
<1> SUFFICES ASSUME IInv, children > 0
             PROVE  IsReproducibleUnder(whole.facts.facts, FALSE) <=> clean
  BY DEF PromisesWhatItsChildrenDo
<1>1. whole.index # 0
  BY DEF IInv
<1>2. QED
  BY <1>1, Zenon DEF IInv, Promises

LEMMA PanicFollows == IInv => PanicsAlike
<1> SUFFICES ASSUME IInv PROVE PanicsAlike
  OBVIOUS
<1>1. /\ Sound(whole) /\ Sound(staged) /\ Sound(group) /\ Agree(whole, staged, group)
  BY Zenon DEF IInv
<1>2. whole \in MergeStates /\ staged \in MergeStates /\ group \in MergeStates
  BY <1>1, Zenon DEF Sound
<1>3. /\ staged.base \in Nat /\ group.base \in Nat
      /\ staged.index \in Nat /\ group.index \in Nat
  BY <1>2, MergeFields
<1>4. ASSUME NEW c \in Children
      PROVE  Fits(whole, c) <=>
               Fits(group, c) /\ Fits(staged, Merged(MergeOne(group, c)))
  <2>1. CASE ~skip
    BY <2>1, Zenon DEF Fits
  <2>2. CASE skip
    <3>1. c \in ResultLike /\ Bounded(c)
      BY ChildLike
    <3>2. whole.base = staged.base + group.base
      BY <1>1, <2>2, Zenon DEF Agree
    <3>3. Fits(group, c) => Takes(group, c)
      BY <3>1, Zenon DEF Takes
    <3>4. PICK n : n = MergeOne(group, c)
      OBVIOUS
    <3>5. Fits(group, c) =>
            /\ EffectiveSpan(c).bound \in Nat
            /\ n.base = group.base + EffectiveSpan(c).bound
            /\ EffectiveSpan(Merged(n)).bound = n.base
            /\ Extent(Merged(n)) <= MaxUsize
      <4> SUFFICES ASSUME Fits(group, c)
                   PROVE  /\ EffectiveSpan(c).bound \in Nat
                          /\ n.base = group.base + EffectiveSpan(c).bound
                          /\ EffectiveSpan(Merged(n)).bound = n.base
                          /\ Extent(Merged(n)) <= MaxUsize
        OBVIOUS
      <4>1. EffectiveSpan(c).bound \in Usize
        <5>1. Extent(c) <= MaxUsize
          BY <2>2, Zenon DEF Fits
        <5>2. QED
          BY <3>1, <5>1, EffectiveFacts, Zenon
      <4>2. EffectiveSpan(c).bound \in Nat
        BY <4>1 DEF Usize
      <4>3. Steps(group, c, n) /\ Sound(n)
        <5>1. Steps(group, c, MergeOne(group, c))
          BY <1>1, <3>1, MergeOneFields, Zenon
        <5>2. Sound(MergeOne(group, c))
          BY <1>1, <3>3, MergeOneSound, Zenon
        <5>3. QED
          BY <3>4, <5>1, <5>2, Zenon
      <4>4. n.base = group.base + EffectiveSpan(c).bound /\ n.index > 0
        BY <2>2, <4>3, Zenon DEF Steps
      <4>5. EffectiveSpan(Merged(n)).bound = n.base /\ Extent(Merged(n)) <= MaxUsize
        BY <2>2, <4>3, <4>4, MergedFacts, Zenon
      <4>6. QED
        BY <4>2, <4>4, <4>5, Zenon
    <3> DEFINE e == EffectiveSpan(c).bound
    <3>6. ASSUME Fits(whole, c) PROVE Fits(group, c) /\ Fits(staged, Merged(n))
      <4>1. Takes(whole, c)
        BY <3>1, <3>6, Zenon DEF Takes
      <4>2. Fits(group, c)
        BY <1>1, <4>1, AgreeTake, Zenon DEF Takes
      <4>3. staged.base + (group.base + e) = (staged.base + group.base) + e
        BY <1>3, <3>5, <4>2
      <4>4. staged.base + EffectiveSpan(Merged(n)).bound <= MaxUsize
        BY <2>2, <3>2, <3>5, <3>6, <4>2, <4>3, Zenon DEF Fits
      <4>5. QED
        BY <3>5, <4>2, <4>4, Zenon DEF Fits
    <3>7. ASSUME Fits(group, c), Fits(staged, Merged(n)) PROVE Fits(whole, c)
      <4>1. staged.base + (group.base + e) = (staged.base + group.base) + e
        BY <1>3, <3>5, <3>7
      <4>2. whole.base + e <= MaxUsize
        BY <2>2, <3>2, <3>5, <3>7, <4>1, Zenon DEF Fits
      <4>3. Extent(c) <= MaxUsize
        BY <2>2, <3>7, Zenon DEF Fits
      <4>4. QED
        BY <4>2, <4>3, Zenon DEF Fits
    <3>8. QED
      BY <3>4, <3>6, <3>7, Zenon
  <2>3. QED
    BY <2>1, <2>2
<1>5. staged.index > 0 => Fits(Start, Merged(staged))
  BY <1>1, AgreeRestage, Zenon DEF Takes
<1>6. QED
  BY <1>4, <1>5, Zenon DEF PanicsAlike, IsStarted

\* Facts and spans keep their types, and merge_results never hands two
\* children's segments one id.
THEOREM MergeIsSound == Spec => []MergeHolds
<1>1. IInv => MergeHolds
  BY TypesFollow, InjectivityFollows DEF MergeHolds
<1>2. QED  BY Invariance, <1>1, PTL

\* Merging in stages, to any depth, yields what one merge does, and panics on
\* exactly the children one merge panics on.
THEOREM StagesMergeAlike == Spec => []StagingIsInvisible
<1>1. IInv => StagingIsInvisible
  BY StagesFollow, PanicFollows DEF StagingIsInvisible
<1>2. QED  BY Invariance, <1>1, PTL

\* A merged result promises to be reproduced when all its children do.
THEOREM PromisesKept == Spec => []PromisesWhatItsChildrenDo
BY Invariance, PromiseFollows, PTL
=============================================================================
