---------------------------- MODULE DatasetSegments ----------------------------
(* How a dataset export cuts one call into samples and labels them                 *)
(* (src/backend/cmd/admin/datasets.go: buildDataset, vadRanges, alignText).  Times *)
(* are whole ticks.  A label is the part of the transcript it holds: timed        *)
(* segments, or words.                                                             *)
EXTENDS Integers, Sequences
CONSTANTS Window,    \* a sample is no longer: 30 s in the code
          MinStep,   \* a pause this soon after a cut is passed over: 3 s
          Shortest,  \* a rest no longer than this makes no sample: 0.05 s
          Items      \* the calls: duration, pauses, words, timed segments and the kind of export

\* The words are few for the duration: fewer than one per Shortest.  A segment is what the
\* provider answered: nothing asks that it ends after it begins.
Item == [duration : Nat \ {0}, breaks : SUBSET Nat, words : Nat,
         segments : SUBSET (Nat \X Nat), timed : BOOLEAN,
         kind : {"asr_finetune", "hallucination_evaluation"}]
ASSUME SegmentAssumption == /\ MinStep \in Nat /\ Shortest \in Nat
                            /\ Window \in Nat /\ MinStep < Window
                            /\ \A i \in Items : /\ i \in Item
                                                /\ i.duration > Window => Shortest * i.words < i.duration

VARIABLES item, cursor, ranges, phase,
          labels,  \* labels[n]: the text of range n and whether it is a sample of the archive
          warned   \* a sample was left out because its audio failed
vars == <<item, cursor, ranges, phase, labels, warned>>

SampleRange == [start : Nat, end : Nat]
Init == /\ item \in Items
        /\ cursor = 0 /\ ranges = <<>> /\ labels = <<>>
        /\ phase = "probed" /\ warned = FALSE

\* A call that fits is one sample.
Whole == /\ phase = "probed" /\ item.duration <= Window
         /\ ranges' = <<[start |-> 0, end |-> item.duration]>>
         /\ phase' = "labelling"
         /\ UNCHANGED <<item, cursor, labels, warned>>
Long == /\ phase = "probed" /\ item.duration > Window
        /\ phase' = "cutting"
        /\ UNCHANGED <<item, cursor, ranges, labels, warned>>

\* vadRanges: the last pause within reach, or as far as the window goes.
AnyPause == {b \in item.breaks : b > cursor + MinStep}  \* mutant: no upper bound
Pauses == {b \in item.breaks : b > cursor + MinStep /\ b <= cursor + Window}
CutAt(cut) == /\ phase = "cutting" /\ item.duration - cursor > Window
              /\ ranges' = Append(ranges, [start |-> cursor, end |-> cut])
              /\ cursor' = cut
              /\ UNCHANGED <<item, phase, labels, warned>>
CutAtPause == \E b \in Pauses : (\A a \in Pauses : a <= b) /\ CutAt(b)
CutAnywhere == Pauses = {} /\ CutAt(cursor + Window)
Rest == IF item.duration - cursor > Shortest
        THEN Append(ranges, [start |-> cursor, end |-> item.duration]) ELSE ranges
\* A reviewed label of several samples cannot be told apart, and does not train.
Inseparable(rs) == item.kind = "asr_finetune" /\ Len(rs) > 1 /\ ~item.timed
CutEnds == /\ phase = "cutting" /\ item.duration - cursor <= Window
           /\ ranges' = Rest
           /\ phase' = IF Inseparable(Rest) THEN "excluded" ELSE "labelling"
           /\ UNCHANGED <<item, cursor, labels, warned>>
\* No pauses could be found out: the call is left out.
CutFails == /\ phase = "cutting" /\ cursor = 0
            /\ phase' = "excluded"
            /\ UNCHANGED <<item, cursor, ranges, labels, warned>>

\* alignText: the timed segments that overlap a range, and without any the share of the words
\* that falls to it.
Overlapping(r) == {s \in item.segments : s[2] > r.start /\ s[1] < r.end}
FirstWord(r) == (r.start * item.words) \div item.duration
RoundedDown(r) == (r.end * item.words) \div item.duration  \* mutant: a word on the cut is nobody's
EndWord(r) == (r.end * item.words + item.duration - 1) \div item.duration
WordsOf(r) == FirstWord(r) .. (EndWord(r) - 1)
Nothing == [words |-> {}, segments |-> {}]
LabelOf(r) == IF item.words = 0 THEN Nothing
              ELSE IF item.timed /\ Overlapping(r) # {} THEN [Nothing EXCEPT !.segments = Overlapping(r)]
              ELSE [Nothing EXCEPT !.words = WordsOf(r)]
Labelled(label, kept) ==
  /\ phase = "labelling" /\ Len(labels) < Len(ranges)
  /\ labels' = Append(labels, [text |-> label, kept |-> kept])
  /\ UNCHANGED <<item, cursor, ranges, phase>>
\* An empty text does not train.
Label == LET label == LabelOf(ranges[Len(labels) + 1]) IN
         /\ Labelled(label, item.kind = "asr_finetune" => label # Nothing)
         /\ UNCHANGED warned
\* A sample that cannot be extracted or decoded is left out with a warning.
SampleFails == Labelled(Nothing, FALSE) /\ warned' = TRUE
Finish == /\ phase = "labelling" /\ Len(labels) = Len(ranges)
          /\ phase' = "done"
          /\ UNCHANGED <<item, cursor, ranges, labels, warned>>

Next == Whole \/ Long \/ CutAtPause \/ CutAnywhere \/ CutEnds \/ CutFails \/ Label \/ SampleFails \/ Finish
Spec == Init /\ [][Next]_vars
-------------------------------------------------------------------------------
Text == [words : SUBSET Int, segments : SUBSET (Nat \X Nat)]
Sample == [text : Text, kept : BOOLEAN]
TypeOK == /\ item \in Items /\ cursor \in Nat /\ ranges \in Seq(SampleRange)
          /\ phase \in {"probed", "cutting", "labelling", "done", "excluded"}
          /\ labels \in Seq(Sample) /\ warned \in BOOLEAN

\* The samples follow each other from the start without a gap or an overlap, none is empty or
\* longer than the window, and together they reach the end of the call but for a rest too short
\* to keep (vadRanges).
Tiled == \A n \in DOMAIN ranges :
  /\ ranges[n].start = IF n = 1 THEN 0 ELSE ranges[n - 1].end
  /\ ranges[n].start < ranges[n].end /\ ranges[n].end <= ranges[n].start + Window
Reached == IF ranges = <<>> THEN 0 ELSE ranges[Len(ranges)].end
SegmentsTile == /\ Tiled
                /\ Reached <= item.duration
                /\ phase \in {"labelling", "done"} => item.duration - Reached <= Shortest

\* Nothing said is lost to the cuts: every word, or every timed segment that does not begin in
\* the rest, is in the label of a sample, unless a sample was left out with a warning.  The code
\* does lose a segment without length that stands where a sample starts, and may lose one that
\* ends before it begins (alignText, buildDataset).
Kept == {labels[n].text : n \in {m \in DOMAIN labels : labels[m].kept}}
Lasts(s) == \/ s[1] < s[2]
            \/ s[1] = s[2] /\ \A n \in DOMAIN ranges : ranges[n].start # s[1]
NothingIsLost == phase = "done" /\ ~warned /\ item.words > 0 =>
  IF item.timed THEN {s \in item.segments : s[1] < Reached /\ Lasts(s)} \subseteq UNION {t.segments : t \in Kept}
  ELSE 0 .. item.words - 1 \subseteq UNION {t.words : t \in Kept}
===============================================================================
