------------------------- MODULE DatasetSegmentsProofs -------------------------
(* The cuts of a call into samples and their labels, for every window, every call  *)
(* and every set of pauses.                                                         *)
EXTENDS DatasetSegments, TLAPS

\* Between two cuts the cursor stands where the last sample ends.
CursorFollows == /\ phase = "probed" => ranges = <<>> /\ cursor = 0
                 /\ phase = "cutting" => Reached = cursor
SegmentInv == TypeOK /\ CursorFollows /\ SegmentsTile

\* What an item is made of, one conjunct for each field the cuts read.
LEMMA ItemShape ==
  ASSUME item \in Items
  PROVE  item.duration \in Nat /\ item.duration > 0 /\ item.breaks \subseteq Nat
BY SegmentAssumption DEF Item

\* The cut into samples begins with nothing cut.
LEMMA SegmentInit == Init => SegmentInv
<1> SUFFICES ASSUME Init PROVE SegmentInv
  OBVIOUS
<1>1. TypeOK
  <2>1. ranges \in Seq(SampleRange)
    BY DEF Init
  <2>2. labels \in Seq(Sample)
    BY DEF Init
  <2> QED BY <2>1, <2>2 DEF Init, TypeOK
<1>2. CursorFollows
  BY DEF Init, CursorFollows
<1>3. SegmentsTile
  BY ItemShape DEF Init, SegmentsTile, Tiled, Reached
<1> QED BY <1>1, <1>2, <1>3 DEF SegmentInv

\* One more sample, from where the last one ended, keeps the tiling.
LEMMA AppendTiles ==
  ASSUME ranges \in Seq(SampleRange), Tiled, NEW cut \in Nat, Reached < cut, cut <= Reached + Window,
         Reached \in Nat, ranges' = Append(ranges, [start |-> Reached, end |-> cut])
  PROVE  Tiled' /\ Reached' = cut /\ ranges' \in Seq(SampleRange)
<1> DEFINE r == [start |-> Reached, end |-> cut]
<1>1. r \in SampleRange
  BY DEF SampleRange
<1>2. ranges' \in Seq(SampleRange) /\ Len(ranges') = Len(ranges) + 1 /\ ranges'[Len(ranges) + 1] = r
  BY <1>1
<1>3. \A n \in 1 .. Len(ranges) : ranges'[n] = ranges[n]
  BY <1>1
<1>4. Reached' = cut
  BY <1>2 DEF Reached
<1>5. ASSUME NEW n \in DOMAIN ranges'
      PROVE  /\ ranges'[n].start = IF n = 1 THEN 0 ELSE ranges'[n - 1].end
             /\ ranges'[n].start < ranges'[n].end /\ ranges'[n].end <= ranges'[n].start + Window
  <2>1. n \in 1 .. Len(ranges) + 1 /\ DOMAIN ranges = 1 .. Len(ranges)
    BY <1>2
  <2>2. CASE n = Len(ranges) + 1
    <3>1. ranges'[n] = r
      BY <2>2, <1>2
    <3>2. CASE n = 1
      BY <3>1, <3>2, <2>2 DEF Reached
    <3>3. CASE n # 1
      <4>1. n - 1 = Len(ranges) /\ n - 1 \in 1 .. Len(ranges) /\ ranges # <<>>
        BY <3>3, <2>1, <2>2
      <4> QED BY <4>1, <3>1, <3>3, <1>3 DEF Reached
    <3> QED BY <3>2, <3>3
  <2>3. CASE n # Len(ranges) + 1
    <3>1. n \in 1 .. Len(ranges) /\ (n # 1 => n - 1 \in 1 .. Len(ranges))
      BY <2>1, <2>3
    <3> QED BY <3>1, <1>3, <2>1 DEF Tiled
  <2> QED BY <2>2, <2>3
<1> QED BY <1>2, <1>4, <1>5 DEF Tiled

\* The samples end at a number.
LEMMA ReachedIsNat == ASSUME ranges \in Seq(SampleRange) PROVE Reached \in Nat
<1>1. CASE ranges = <<>>
  BY <1>1 DEF Reached
<1>2. CASE ranges # <<>>
  <2>1. Len(ranges) \in DOMAIN ranges
    BY <1>2
  <2>2. ranges[Len(ranges)] \in SampleRange
    BY <2>1
  <2> QED BY <1>2, <2>2 DEF Reached, SampleRange
<1> QED BY <1>1, <1>2

-----------------------------------------------------------------------------
\* Cutting a call keeps the samples tiled.
LEMMA CutKeepsTiles ==
  ASSUME SegmentInv, NEW cut \in Nat, CutAt(cut), cursor + MinStep < cut, cut <= cursor + Window
  PROVE  SegmentInv'
<1>1. /\ ranges \in Seq(SampleRange) /\ cursor \in Nat /\ Reached = cursor /\ Tiled
      /\ phase = "cutting" /\ item.duration - cursor > Window
  BY DEF SegmentInv, TypeOK, CursorFollows, SegmentsTile, CutAt
<1>2. /\ item.duration \in Nat /\ MinStep \in Nat /\ Window \in Nat
  BY ItemShape, SegmentAssumption DEF SegmentInv, TypeOK
<1>3. Tiled' /\ Reached' = cut /\ ranges' \in Seq(SampleRange)
  <2>1. Reached < cut /\ cut <= Reached + Window /\ Reached \in Nat
    BY <1>1, <1>2
  <2>2. ranges' = Append(ranges, [start |-> Reached, end |-> cut])
    BY <1>1 DEF CutAt
  <2> QED BY <1>1, <2>1, <2>2, AppendTiles
<1>4. TypeOK'
  BY <1>3 DEF SegmentInv, TypeOK, CutAt
<1>5. CursorFollows'
  BY <1>1, <1>3 DEF CursorFollows, CutAt
<1>6. SegmentsTile'
  BY <1>1, <1>2, <1>3 DEF SegmentsTile, CutAt
<1> QED BY <1>4, <1>5, <1>6 DEF SegmentInv

\* The rest of the call is its last sample, or too short for one.
LEMMA RestKeepsTiles == ASSUME SegmentInv, CutEnds PROVE SegmentInv'
<1>1. /\ ranges \in Seq(SampleRange) /\ cursor \in Nat /\ Reached = cursor /\ Tiled /\ phase = "cutting"
      /\ item.duration - cursor <= Window /\ item' = item /\ ranges' = Rest /\ cursor <= item.duration
  BY DEF SegmentInv, TypeOK, CursorFollows, SegmentsTile, CutEnds
<1>2. item.duration \in Nat /\ Shortest \in Nat /\ Window \in Nat
  BY ItemShape, SegmentAssumption DEF SegmentInv, TypeOK
<1>3. /\ Tiled' /\ ranges' \in Seq(SampleRange)
      /\ Reached' <= item.duration /\ item.duration - Reached' <= Shortest
  <2>1. CASE item.duration - cursor > Shortest
    <3>1. ranges' = Append(ranges, [start |-> Reached, end |-> item.duration])
      BY <1>1, <2>1 DEF Rest
    <3>2. Reached < item.duration /\ item.duration <= Reached + Window /\ Reached \in Nat
      BY <1>1, <1>2, <2>1
    <3>3. Tiled' /\ Reached' = item.duration /\ ranges' \in Seq(SampleRange)
      BY <1>1, <1>2, <3>1, <3>2, AppendTiles
    <3> QED BY <3>3, <1>2
  <2>2. CASE ~(item.duration - cursor > Shortest)
    <3>1. ranges' = ranges
      BY <1>1, <2>2 DEF Rest
    <3> QED BY <3>1, <1>1, <1>2, <2>2 DEF Tiled, Reached
  <2> QED BY <2>1, <2>2
<1>4. TypeOK'
  BY <1>3 DEF SegmentInv, TypeOK, CutEnds
<1>5. CursorFollows'
  BY DEF CursorFollows, CutEnds
<1>6. SegmentsTile'
  BY <1>1, <1>3 DEF SegmentsTile, CutEnds
<1> QED BY <1>4, <1>5, <1>6 DEF SegmentInv

\* A call that fits the window is one sample from its start to its end.
LEMMA WholeTiles == ASSUME SegmentInv, Whole PROVE SegmentInv'
<1>1. /\ ranges = <<>> /\ cursor = 0 /\ item.duration <= Window /\ ranges \in Seq(SampleRange) /\ item' = item
      /\ ranges' = <<[start |-> 0, end |-> item.duration]>> /\ phase' = "labelling"
  BY DEF SegmentInv, TypeOK, CursorFollows, Whole
<1>2. item.duration \in Nat /\ item.duration > 0 /\ Shortest \in Nat /\ Window \in Nat
  BY ItemShape, SegmentAssumption DEF SegmentInv, TypeOK
<1>3. Reached = 0 /\ Tiled
  BY <1>1 DEF Reached, SegmentInv, SegmentsTile
<1>4. Tiled' /\ Reached' = item.duration /\ ranges' \in Seq(SampleRange)
  <2>1. ranges' = Append(ranges, [start |-> Reached, end |-> item.duration])
    BY <1>1, <1>3
  <2> QED BY <1>1, <1>2, <1>3, <2>1, AppendTiles
<1>5. TypeOK'
  BY <1>4 DEF SegmentInv, TypeOK, Whole
<1>6. CursorFollows'
  BY <1>1 DEF CursorFollows
<1>7. SegmentsTile'
  BY <1>1, <1>2, <1>4 DEF SegmentsTile
<1> QED BY <1>5, <1>6, <1>7 DEF SegmentInv

\* The label of any range is a text.
LEMMA LabelIsText == ASSUME TypeOK, NEW r PROVE LabelOf(r) \in Text
<1>1. item.segments \subseteq Nat \X Nat
  BY SegmentAssumption DEF TypeOK, Item
<1>2. WordsOf(r) \in SUBSET Int /\ Overlapping(r) \in SUBSET (Nat \X Nat)
  BY <1>1 DEF WordsOf, Overlapping
<1> QED BY <1>2 DEF LabelOf, Nothing, Text

\* Labelling a range leaves the cuts alone.
LEMMA LabelledKeeps ==
  ASSUME SegmentInv, NEW text \in Text, NEW kept \in BOOLEAN, Labelled(text, kept), warned' \in BOOLEAN
  PROVE  SegmentInv'
<1>1. [text |-> text, kept |-> kept] \in Sample
  BY DEF Sample
<1>2. labels' \in Seq(Sample)
  BY <1>1 DEF SegmentInv, TypeOK, Labelled
<1>3. TypeOK'
  BY <1>2 DEF SegmentInv, TypeOK, Labelled
<1> QED BY <1>3 DEF SegmentInv, Labelled, CursorFollows, SegmentsTile, Tiled, Reached

\* Every step keeps the tiling.
LEMMA SegmentStep == SegmentInv /\ [Next]_vars => SegmentInv'
<1> SUFFICES ASSUME SegmentInv, [Next]_vars PROVE SegmentInv'
  OBVIOUS
<1>1. CASE Whole
  BY <1>1, WholeTiles
<1>2. CASE Long
  <2>1. Reached = 0 /\ cursor = 0
    BY <1>2 DEF SegmentInv, CursorFollows, Long, Reached
  <2> QED BY <1>2, <2>1 DEF SegmentInv, TypeOK, CursorFollows, SegmentsTile, Tiled, Reached, Long
<1>3. CASE CutAtPause
  <2>1. PICK b \in Pauses : CutAt(b)
    BY <1>3 DEF CutAtPause
  <2>2. b \in Nat /\ cursor + MinStep < b /\ b <= cursor + Window
    <3>1. item.breaks \subseteq Nat /\ cursor \in Nat /\ MinStep \in Nat
      BY ItemShape, SegmentAssumption DEF SegmentInv, TypeOK
    <3> QED BY <3>1 DEF Pauses
  <2> QED BY <2>1, <2>2, CutKeepsTiles
<1>4. CASE CutAnywhere
  <2>1. cursor + Window \in Nat /\ cursor + MinStep < cursor + Window
    BY SegmentAssumption DEF SegmentInv, TypeOK
  <2>2. CutAt(cursor + Window) /\ cursor + Window <= cursor + Window
    BY <1>4, SegmentAssumption DEF CutAnywhere, SegmentInv, TypeOK
  <2> QED BY <2>1, <2>2, CutKeepsTiles
<1>5. CASE CutEnds
  BY <1>5, RestKeepsTiles
<1>6. CASE CutFails
  BY <1>6 DEF SegmentInv, TypeOK, CursorFollows, SegmentsTile, Tiled, Reached, CutFails
<1>7. CASE Label
  <2> DEFINE text == LabelOf(ranges[Len(labels) + 1])
             kept == item.kind = "asr_finetune" => text # Nothing
  <2>1. text \in Text
    BY LabelIsText DEF SegmentInv
  <2>2. Labelled(text, kept) /\ warned' \in BOOLEAN
    BY <1>7 DEF Label, SegmentInv, TypeOK
  <2>3. kept \in BOOLEAN
    OBVIOUS
  <2> HIDE DEF text, kept
  <2> QED BY <2>1, <2>2, <2>3, LabelledKeeps
<1>8. CASE SampleFails
  <2>1. Nothing \in Text
    BY DEF Nothing, Text
  <2> QED BY <1>8, <2>1, LabelledKeeps DEF SampleFails
<1>9. CASE Finish
  BY <1>9 DEF SegmentInv, TypeOK, CursorFollows, SegmentsTile, Tiled, Reached, Finish
<1>10. CASE UNCHANGED vars
  BY <1>10 DEF SegmentInv, TypeOK, CursorFollows, SegmentsTile, Tiled, Reached, vars
<1> QED BY <1>1, <1>2, <1>3, <1>4, <1>5, <1>6, <1>7, <1>8, <1>9, <1>10 DEF Next

\* However long a call is and wherever it pauses, its samples tile it from the start, none is
\* longer than the window, and no more than the shortest rest is missing at the end (vadRanges,
\* buildDataset).
THEOREM CallsAreTiled == Spec => []SegmentsTile
<1>1. SegmentInv => SegmentsTile
  BY DEF SegmentInv
<1> QED BY <1>1, SegmentInit, SegmentStep, PTL DEF Spec


-----------------------------------------------------------------------------
\* A bigger number gives a bigger product.
LEMMA TimesKeepsOrder ==
  ASSUME NEW a \in Nat, NEW b \in Nat, NEW c \in Nat, a <= b
  PROVE  a * c <= b * c /\ a * c \in Nat /\ b * c \in Nat
BY SMT

\* What a quotient rounds away is less than the divisor.
LEMMA DivIsBetween ==
  ASSUME NEW n \in Nat, NEW d \in Nat, d > 0
  PROVE  n \div d \in Nat /\ (n \div d) * d <= n /\ n < (n \div d) * d + d
BY SMT

\* A range that holds the tick at which a word begins holds the word: the share of the words
\* that falls to it is rounded down at its start and up at its end.
LEMMA ShareHoldsWord ==
  ASSUME NEW d \in Nat, d > 0, NEW words \in Nat, NEW w \in Nat, w < words,
         NEW a \in Nat, NEW e \in Nat, a <= (w * d) \div words, (w * d) \div words < e
  PROVE  (a * words) \div d <= w /\ w < (e * words + d - 1) \div d
<1> DEFINE t == (w * d) \div words
           f == (a * words) \div d
           g == (e * words + d - 1) \div d
<1>1. t \in Nat /\ w * d \in Nat /\ t * words <= w * d /\ w * d < t * words + words
  BY TimesKeepsOrder, DivIsBetween
<1>2. a * words \in Nat /\ a * words <= w * d
  <2>1. a * words <= t * words /\ a * words \in Nat /\ t * words \in Nat
    BY <1>1, TimesKeepsOrder
  <2> HIDE DEF t
  <2> QED BY <1>1, <2>1
<1>3. e * words \in Nat /\ w * d < e * words
  <2>1. t + 1 \in Nat /\ t + 1 <= e
    BY <1>1
  <2>2. (t + 1) * words <= e * words /\ e * words \in Nat /\ (t + 1) * words \in Nat
    BY <2>1, TimesKeepsOrder
  <2> HIDE DEF t
  <2>3. (t + 1) * words = t * words + words /\ t * words \in Nat
    BY <1>1, TimesKeepsOrder
  <2> QED BY <1>1, <2>2, <2>3
<1>4. f \in Nat /\ f * d <= a * words
  BY <1>2, DivIsBetween
<1>5. g \in Nat /\ e * words + d - 1 < g * d + d
  <2>1. e * words + d - 1 \in Nat
    BY <1>3
  <2> QED BY <2>1, DivIsBetween
<1> HIDE DEF t, f, g
<1>6. f <= w
  <2> SUFFICES ASSUME w + 1 <= f PROVE FALSE
    BY <1>4
  <2>1. (w + 1) * d <= f * d /\ (w + 1) * d \in Nat /\ f * d \in Nat
    BY <1>4, TimesKeepsOrder
  <2>2. (w + 1) * d = w * d + d
    OBVIOUS
  <2> QED BY <1>1, <1>2, <1>4, <2>1, <2>2
<1>7. w < g
  <2> SUFFICES ASSUME g <= w PROVE FALSE
    BY <1>5
  <2>1. g * d <= w * d /\ g * d \in Nat
    BY <1>5, TimesKeepsOrder
  <2> QED BY <1>1, <1>3, <1>5, <2>1
<1> QED BY <1>6, <1>7 DEF f, g

\* Every tick the samples have reached is in one of them.
Covered == \A t \in 0 .. Reached - 1 : \E n \in DOMAIN ranges : ranges[n].start <= t /\ t < ranges[n].end
\* What is known of the samples while they are cut, and in the end.
Known == /\ phase = "cutting" => item.duration > Window
         /\ phase \in {"labelling", "done"} /\ item.duration <= Window => Reached = item.duration
\* A label is that of its range, and every range has one in the end.
LabelsFollow == /\ phase \in {"probed", "cutting"} => labels = <<>>
                /\ Len(labels) <= Len(ranges)
                /\ phase = "done" => Len(labels) = Len(ranges)
                /\ ~warned => \A n \in DOMAIN labels :
                     /\ labels[n].text = LabelOf(ranges[n])
                     /\ labels[n].text # Nothing => labels[n].kept
LabelInv == SegmentInv /\ Covered /\ Known /\ LabelsFollow

\* One more sample covers what lies between its ends.
LEMMA AppendCovers ==
  ASSUME ranges \in Seq(SampleRange), Covered, NEW cut \in Nat, Reached \in Nat, Reached' = cut,
         ranges' = Append(ranges, [start |-> Reached, end |-> cut])
  PROVE  Covered'
<1> DEFINE r == [start |-> Reached, end |-> cut]
<1>1. r \in SampleRange
  BY DEF SampleRange
<1>2. Len(ranges) + 1 \in DOMAIN ranges' /\ ranges'[Len(ranges) + 1] = r
  BY <1>1
<1>3. \A n \in DOMAIN ranges : n \in DOMAIN ranges' /\ ranges'[n] = ranges[n]
  BY <1>1
<1>4. ASSUME NEW t \in 0 .. cut - 1
      PROVE \E n \in DOMAIN ranges' : ranges'[n].start <= t /\ t < ranges'[n].end
  <2>1. CASE t < Reached
    <3>1. PICK n \in DOMAIN ranges : ranges[n].start <= t /\ t < ranges[n].end
      BY <2>1 DEF Covered
    <3> QED BY <3>1, <1>3
  <2>2. CASE Reached <= t
    BY <2>2, <1>2
  <2> QED BY <2>1, <2>2
<1> QED BY <1>4 DEF Covered

\* The cut into samples begins with nothing cut and no label.
LEMMA LabelInit == Init => LabelInv
<1> SUFFICES ASSUME Init PROVE LabelInv
  OBVIOUS
<1>1. SegmentInv
  BY SegmentInit
<1>2. Covered
  BY DEF Init, Covered, Reached
<1>3. Known
  BY DEF Init, Known
<1>4. LabelsFollow
  BY DEF Init, LabelsFollow
<1> QED BY <1>1, <1>2, <1>3, <1>4 DEF LabelInv

\* A cut covers what it takes, and labels nothing.
LEMMA CutCovers ==
  ASSUME LabelInv, SegmentInv', NEW cut \in Nat, CutAt(cut), cursor + MinStep < cut
  PROVE  LabelInv'
<1>1. /\ ranges \in Seq(SampleRange) /\ cursor \in Nat /\ Reached = cursor /\ phase = "cutting"
      /\ MinStep \in Nat
  BY SegmentAssumption DEF LabelInv, SegmentInv, TypeOK, CursorFollows, CutAt
<1>2. Reached' = cut
  BY <1>1 DEF CutAt, SegmentInv, CursorFollows
<1>3. Covered'
  <2>1. ranges' = Append(ranges, [start |-> Reached, end |-> cut])
    BY <1>1 DEF CutAt
  <2> QED BY <1>1, <1>2, <2>1, AppendCovers DEF LabelInv
<1>4. Known'
  BY <1>1 DEF LabelInv, Known, CutAt
<1>5. LabelsFollow'
  <2>1. labels' = <<>> /\ phase' = "cutting" /\ ranges' \in Seq(SampleRange)
    BY <1>1 DEF LabelInv, LabelsFollow, CutAt, SegmentInv, TypeOK
  <2> QED BY <2>1 DEF LabelsFollow
<1> QED BY <1>3, <1>4, <1>5 DEF LabelInv

\* The last sample covers the rest, or there is no rest worth one.
LEMMA RestCovers == ASSUME LabelInv, SegmentInv', CutEnds PROVE LabelInv'
<1>1. /\ ranges \in Seq(SampleRange) /\ cursor \in Nat /\ Reached = cursor /\ phase = "cutting"
      /\ item' = item /\ ranges' = Rest /\ labels' = labels /\ labels = <<>>
      /\ item.duration \in Nat /\ Shortest \in Nat /\ Window \in Nat /\ item.duration > Window
  BY ItemShape, SegmentAssumption DEF LabelInv, SegmentInv, TypeOK, CursorFollows, CutEnds, Known, LabelsFollow
<1>2. Covered'
  <2>1. CASE item.duration - cursor > Shortest
    <3>1. ranges' = Append(ranges, [start |-> Reached, end |-> item.duration])
      BY <1>1, <2>1 DEF Rest
    <3>2. Reached' = item.duration
      <4>1. [start |-> Reached, end |-> item.duration] \in SampleRange
        BY <1>1 DEF SampleRange
      <4> QED BY <1>1, <3>1, <4>1 DEF Reached
    <3> QED BY <1>1, <3>1, <3>2, AppendCovers DEF LabelInv
  <2>2. CASE ~(item.duration - cursor > Shortest)
    <3>1. ranges' = ranges
      BY <1>1, <2>2 DEF Rest
    <3> QED BY <3>1 DEF LabelInv, Covered, Reached
  <2> QED BY <2>1, <2>2
<1>3. Known'
  BY <1>1 DEF Known, CutEnds
<1>4. LabelsFollow'
  <2>1. phase' \in {"excluded", "labelling"} /\ ranges' \in Seq(SampleRange) /\ labels' = <<>>
    BY <1>1 DEF CutEnds, SegmentInv, TypeOK
  <2> QED BY <2>1 DEF LabelsFollow
<1> QED BY <1>2, <1>3, <1>4 DEF LabelInv

\* A call that fits the window is covered by its one sample.
LEMMA WholeCovers == ASSUME LabelInv, SegmentInv', Whole PROVE LabelInv'
<1>1. /\ ranges = <<>> /\ ranges \in Seq(SampleRange) /\ item' = item /\ phase' = "labelling"
      /\ labels' = <<>> /\ item.duration \in Nat
      /\ ranges' = <<[start |-> 0, end |-> item.duration]>>
  BY ItemShape DEF LabelInv, SegmentInv, TypeOK, CursorFollows, LabelsFollow, Whole
<1>2. Reached = 0 /\ Reached' = item.duration
  BY <1>1 DEF Reached
<1>3. Covered'
  <2>1. ranges' = Append(ranges, [start |-> Reached, end |-> item.duration])
    BY <1>1, <1>2
  <2> QED BY <1>1, <1>2, <2>1, AppendCovers DEF LabelInv
<1>4. Known'
  BY <1>1, <1>2 DEF Known
<1>5. LabelsFollow'
  BY <1>1 DEF LabelsFollow
<1> QED BY <1>3, <1>4, <1>5 DEF LabelInv

\* One more label: that of its range, or a warning.
LEMMA LabelledFollows ==
  ASSUME LabelInv, SegmentInv', NEW text, NEW kept, Labelled(text, kept), warned' \in BOOLEAN,
         ~warned' => /\ ~warned /\ text = LabelOf(ranges[Len(labels) + 1])
                     /\ text # Nothing => kept
  PROVE  LabelInv'
<1>1. /\ labels \in Seq(Sample) /\ ranges \in Seq(SampleRange) /\ phase = "labelling"
      /\ labels' = Append(labels, [text |-> text, kept |-> kept]) /\ Len(labels) < Len(ranges)
      /\ ranges' = ranges /\ item' = item /\ phase' = phase /\ labels' \in Seq(Sample)
  BY DEF LabelInv, SegmentInv, TypeOK, Labelled
<1>2. Covered' /\ Known'
  BY <1>1 DEF LabelInv, Covered, Known, Reached
<1>3. /\ Len(labels') = Len(labels) + 1
      /\ labels'[Len(labels) + 1] = [text |-> text, kept |-> kept]
      /\ \A n \in 1 .. Len(labels) : labels'[n] = labels[n]
  BY <1>1
<1>4. ASSUME ~warned', NEW n \in DOMAIN labels'
      PROVE  /\ labels'[n].text = LabelOf(ranges[n])
             /\ labels'[n].text # Nothing => labels'[n].kept
  <2>1. n \in 1 .. Len(labels) + 1
    BY <1>1, <1>3
  <2>2. CASE n = Len(labels) + 1
    BY <2>2, <1>3, <1>4
  <2>3. CASE n # Len(labels) + 1
    <3>1. n \in DOMAIN labels /\ labels'[n] = labels[n]
      BY <2>1, <2>3, <1>1, <1>3
    <3> QED BY <3>1, <1>4 DEF LabelInv, LabelsFollow
  <2> QED BY <2>2, <2>3
<1>5. LabelsFollow'
  <2>1. Len(labels') <= Len(ranges') /\ phase' = "labelling"
    BY <1>1, <1>3
  <2>2. \A n \in DOMAIN labels' : LabelOf(ranges[n])' = LabelOf(ranges[n])
    BY <1>1 DEF LabelOf, WordsOf, FirstWord, EndWord, Overlapping
  <2> QED BY <2>1, <2>2, <1>1, <1>4 DEF LabelsFollow
<1> QED BY <1>2, <1>5 DEF LabelInv

\* Every step keeps the labels with their ranges.
LEMMA LabelStep == LabelInv /\ [Next]_vars => LabelInv'
<1> SUFFICES ASSUME LabelInv, [Next]_vars PROVE LabelInv'
  OBVIOUS
<1>0. SegmentInv'
  BY SegmentStep DEF LabelInv
<1>1. CASE Whole
  BY <1>0, <1>1, WholeCovers
<1>2. CASE Long
  <2>1. Covered'
    BY <1>2 DEF LabelInv, Covered, Reached, Long
  <2>2. Known'
    BY <1>2 DEF Known, Long
  <2>3. LabelsFollow'
    BY <1>2 DEF LabelInv, LabelsFollow, Long
  <2> QED BY <1>0, <2>1, <2>2, <2>3 DEF LabelInv
<1>3. CASE CutAtPause
  <2>1. PICK b \in Pauses : CutAt(b)
    BY <1>3 DEF CutAtPause
  <2>2. b \in Nat /\ cursor + MinStep < b
    <3>1. item.breaks \subseteq Nat /\ cursor \in Nat /\ MinStep \in Nat
      BY ItemShape, SegmentAssumption DEF LabelInv, SegmentInv, TypeOK
    <3> QED BY <3>1 DEF Pauses
  <2> QED BY <1>0, <2>1, <2>2, CutCovers
<1>4. CASE CutAnywhere
  <2>1. cursor + Window \in Nat /\ cursor + MinStep < cursor + Window
    BY SegmentAssumption DEF LabelInv, SegmentInv, TypeOK
  <2>2. CutAt(cursor + Window)
    BY <1>4 DEF CutAnywhere
  <2> QED BY <1>0, <2>1, <2>2, CutCovers
<1>5. CASE CutEnds
  BY <1>0, <1>5, RestCovers
<1>6. CASE CutFails
  <2>1. Covered'
    BY <1>6 DEF LabelInv, Covered, Reached, CutFails
  <2>2. Known'
    BY <1>6 DEF Known, CutFails
  <2>3. LabelsFollow'
    BY <1>6 DEF LabelInv, LabelsFollow, CutFails
  <2> QED BY <1>0, <2>1, <2>2, <2>3 DEF LabelInv
<1>7. CASE Label
  <2> DEFINE text == LabelOf(ranges[Len(labels) + 1])
             kept == item.kind = "asr_finetune" => text # Nothing
  <2>1. Labelled(text, kept) /\ warned' = warned
    BY <1>7 DEF Label
  <2>2. warned' \in BOOLEAN
    BY <2>1 DEF LabelInv, SegmentInv, TypeOK
  <2>3. text = LabelOf(ranges[Len(labels) + 1]) /\ (text # Nothing => kept)
    OBVIOUS
  <2> HIDE DEF text, kept
  <2> QED BY <1>0, <2>1, <2>2, <2>3, LabelledFollows
<1>8. CASE SampleFails
  BY <1>0, <1>8, LabelledFollows DEF SampleFails
<1>9. CASE Finish
  <2>1. Covered'
    BY <1>9 DEF LabelInv, Covered, Reached, Finish
  <2>2. Known'
    BY <1>9 DEF LabelInv, Known, Reached, Finish
  <2>3. LabelsFollow'
    BY <1>9 DEF LabelInv, LabelsFollow, Finish, LabelOf, WordsOf, FirstWord, EndWord, Overlapping
  <2> QED BY <1>0, <2>1, <2>2, <2>3 DEF LabelInv
<1>10. CASE UNCHANGED vars
  <2>1. Covered' /\ Known'
    BY <1>10 DEF LabelInv, Covered, Known, Reached, vars
  <2>2. LabelsFollow'
    BY <1>10 DEF LabelInv, LabelsFollow, vars, LabelOf, WordsOf, FirstWord, EndWord, Overlapping
  <2> QED BY <1>0, <2>1, <2>2 DEF LabelInv
<1> QED BY <1>1, <1>2, <1>3, <1>4, <1>5, <1>6, <1>7, <1>8, <1>9, <1>10 DEF Next

-----------------------------------------------------------------------------
\* Without a warning a text that is not empty is in the archive.
LEMMA TextIsKept ==
  ASSUME LabelInv, phase = "done", ~warned, NEW n \in DOMAIN ranges, LabelOf(ranges[n]) # Nothing
  PROVE  LabelOf(ranges[n]) \in Kept
<1>1. n \in DOMAIN labels
  BY DEF LabelInv, LabelsFollow, SegmentInv, TypeOK
<1>2. labels[n].text = LabelOf(ranges[n]) /\ labels[n].kept
  BY <1>1 DEF LabelInv, LabelsFollow
<1> QED BY <1>1, <1>2 DEF Kept

\* Every timed segment that begins within the samples overlaps one of them.
LEMMA SegmentsAreKept ==
  ASSUME LabelInv, phase = "done", ~warned, item.words > 0, item.timed,
         NEW s \in item.segments, s[1] < Reached, Lasts(s)
  PROVE  \E t \in Kept : s \in t.segments
<1>1. s \in Nat \X Nat /\ item.words \in Nat
  BY SegmentAssumption DEF LabelInv, SegmentInv, TypeOK, Item
<1>2. s[1] \in 0 .. Reached - 1
  BY <1>1, ReachedIsNat DEF LabelInv, SegmentInv, TypeOK
<1>3. PICK n \in DOMAIN ranges : ranges[n].start <= s[1] /\ s[1] < ranges[n].end
  BY <1>2 DEF LabelInv, Covered
<1>4. ranges[n].start \in Nat /\ ranges[n].end \in Nat
  <2>1. ranges \in Seq(SampleRange)
    BY DEF LabelInv, SegmentInv, TypeOK
  <2>2. ranges[n] \in SampleRange
    BY <2>1
  <2> QED BY <2>2 DEF SampleRange
<1>5. s \in Overlapping(ranges[n])
  <2>1. s[1] \in Nat /\ s[2] \in Nat
    BY <1>1
  <2>2. s[2] > ranges[n].start
    BY <2>1, <1>3, <1>4 DEF Lasts
  <2> QED BY <2>2, <1>3 DEF Overlapping
<1>6. LabelOf(ranges[n]).segments = Overlapping(ranges[n]) /\ Nothing.segments = {}
  BY <1>1, <1>5 DEF LabelOf, Nothing
<1>7. LabelOf(ranges[n]) # Nothing
  BY <1>5, <1>6
<1> QED BY <1>5, <1>6, <1>7, TextIsKept

\* Every word begins at a tick the samples have reached: what they leave at the end is too short
\* for a word.
LEMMA WordIsReached ==
  ASSUME LabelInv, phase = "done", NEW w \in 0 .. item.words - 1
  PROVE  (w * item.duration) \div item.words \in 0 .. Reached - 1
<1> DEFINE d == item.duration
           k == item.words
           t == (w * d) \div k
<1>1. /\ d \in Nat /\ d > 0 /\ k \in Nat /\ w \in Nat /\ w + 1 <= k /\ k > 0 /\ Shortest \in Nat /\ Window \in Nat
      /\ d > Window => Shortest * k < d
  <2>1. item \in Item /\ (item.duration > Window => Shortest * item.words < item.duration)
    BY SegmentAssumption DEF LabelInv, SegmentInv, TypeOK
  <2>2. item.duration \in Nat /\ item.duration > 0 /\ item.words \in Nat
    BY <2>1 DEF Item
  <2> QED BY <2>1, <2>2, SegmentAssumption
<1>2. /\ Reached \in Nat /\ Reached <= d /\ d <= Reached + Shortest
      /\ d <= Window => Reached = d
  <2>1. Reached \in Nat
    BY ReachedIsNat DEF LabelInv, SegmentInv, TypeOK
  <2>2. Reached <= d /\ d - Reached <= Shortest /\ (d <= Window => Reached = d)
    BY DEF LabelInv, SegmentInv, SegmentsTile, Known
  <2> QED BY <1>1, <2>1, <2>2
<1>3. w * d \in Nat /\ t \in Nat /\ t * k <= w * d /\ t * k \in Nat
  <2>1. w * d \in Nat
    BY <1>1, TimesKeepsOrder
  <2>2. t \in Nat /\ t * k <= w * d
    BY <1>1, <2>1, DivIsBetween
  <2>3. t * k \in Nat
    BY <1>1, <2>2, TimesKeepsOrder
  <2> QED BY <2>1, <2>2, <2>3
<1> HIDE DEF d, k, t
<1>4. Reached * k \in Nat /\ w * d < Reached * k
  <2>1. (w + 1) * d <= k * d /\ k * d \in Nat
    BY <1>1, TimesKeepsOrder
  <2>2. (w + 1) * d = w * d + d /\ k * d = d * k
    BY <1>1
  <2>3. CASE d <= Window
    BY <2>1, <2>2, <2>3, <1>1, <1>2, <1>3
  <2>4. CASE d > Window
    <3>1. d * k <= (Reached + Shortest) * k /\ Reached * k \in Nat /\ Shortest * k \in Nat
      BY <1>1, <1>2, TimesKeepsOrder
    <3>2. (Reached + Shortest) * k = Reached * k + Shortest * k
      BY <1>1, <1>2
    <3> QED BY <2>1, <2>2, <2>4, <3>1, <3>2, <1>1, <1>3
  <2> QED BY <2>3, <2>4, <1>1
<1>5. t < Reached
  <2> SUFFICES ASSUME Reached <= t PROVE FALSE
    BY <1>2, <1>3
  <2>1. Reached * k <= t * k
    BY <1>1, <1>2, <1>3, TimesKeepsOrder
  <2> QED BY <2>1, <1>3, <1>4
<1>6. t \in 0 .. Reached - 1
  BY <1>2, <1>3, <1>5
<1> QED BY <1>6 DEF t, d, k

\* Without times every word falls to the share of a sample.
LEMMA WordsAreKept ==
  ASSUME LabelInv, phase = "done", ~warned, ~item.timed, NEW w \in 0 .. item.words - 1
  PROVE  \E t \in Kept : w \in t.words
<1>1. item.duration \in Nat /\ item.duration > 0 /\ item.words \in Nat /\ w \in Nat /\ w < item.words
  BY SegmentAssumption DEF LabelInv, SegmentInv, TypeOK, Item
<1>2. PICK n \in DOMAIN ranges : /\ ranges[n].start <= (w * item.duration) \div item.words
                                 /\ (w * item.duration) \div item.words < ranges[n].end
  BY WordIsReached DEF LabelInv, Covered
<1>3. ranges[n].start \in Nat /\ ranges[n].end \in Nat
  <2>1. ranges \in Seq(SampleRange)
    BY DEF LabelInv, SegmentInv, TypeOK
  <2>2. ranges[n] \in SampleRange
    BY <2>1
  <2> QED BY <2>2 DEF SampleRange
<1>4. FirstWord(ranges[n]) <= w /\ w < EndWord(ranges[n])
  BY <1>1, <1>2, <1>3, ShareHoldsWord DEF FirstWord, EndWord
<1>5. FirstWord(ranges[n]) \in Int /\ EndWord(ranges[n]) \in Int
  <2>1. ranges[n].start * item.words \in Nat /\ ranges[n].end * item.words \in Nat
    BY <1>1, <1>3, TimesKeepsOrder
  <2>2. ranges[n].end * item.words + item.duration - 1 \in Nat
    BY <1>1, <2>1
  <2> QED BY <1>1, <2>1, <2>2, DivIsBetween DEF FirstWord, EndWord
<1>6. w \in WordsOf(ranges[n])
  BY <1>1, <1>4, <1>5 DEF WordsOf
<1>7. LabelOf(ranges[n]).words = WordsOf(ranges[n]) /\ Nothing.words = {}
  BY <1>1 DEF LabelOf, Nothing
<1>8. LabelOf(ranges[n]) # Nothing
  BY <1>6, <1>7
<1> QED BY <1>6, <1>7, <1>8, TextIsKept

\* However a call is cut, nothing said in it is lost to the cuts: every word, or every timed
\* segment that begins before the rest and lasts, is in the text of a sample, unless a sample was
\* left out with a warning (alignText, buildDataset).
THEOREM TextIsNotLost == Spec => []NothingIsLost
<1>1. LabelInv => NothingIsLost
  <2> SUFFICES ASSUME LabelInv, phase = "done", ~warned, item.words > 0
               PROVE IF item.timed THEN {s \in item.segments : s[1] < Reached /\ Lasts(s)} \subseteq UNION {t.segments : t \in Kept}
                     ELSE 0 .. item.words - 1 \subseteq UNION {t.words : t \in Kept}
    BY DEF NothingIsLost
  <2>1. CASE item.timed
    <3>1. ASSUME NEW s \in item.segments, s[1] < Reached, Lasts(s) PROVE s \in UNION {t.segments : t \in Kept}
      <4>1. PICK t \in Kept : s \in t.segments
        BY <2>1, <3>1, SegmentsAreKept
      <4> QED BY <4>1
    <3> QED BY <2>1, <3>1
  <2>2. CASE ~item.timed
    <3>1. ASSUME NEW w \in 0 .. item.words - 1 PROVE w \in UNION {t.words : t \in Kept}
      <4>1. PICK t \in Kept : w \in t.words
        BY <2>2, WordsAreKept
      <4> QED BY <4>1
    <3> QED BY <2>2, <3>1
  <2> QED BY <2>1, <2>2
<1> QED BY <1>1, LabelInit, LabelStep, PTL DEF Spec
===============================================================================
