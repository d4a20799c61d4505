--------------------------- MODULE MCDatasetSegments ---------------------------
\* Calls around one, two and three windows with up to three pauses.
EXTENDS DatasetSegments, FiniteSetsExt
MCBreaks == UNION {kSubset(n, 1 .. 12) : n \in 0 .. 3}
MCSegments == {{}, {<<0, 3>>, <<5, 8>>}, {<<1, 13>>}, {<<6, 7>>, <<7, 12>>},
               {<<0, 0>>, <<4, 4>>, <<6, 6>>, <<9, 2>>}}
MCItems == {[duration |-> d, breaks |-> B, words |-> w, segments |-> S, timed |-> S # {}, kind |-> k] :
            d \in {4, 6, 7, 12, 13}, B \in MCBreaks, w \in {0, 1, 5}, S \in MCSegments,
            k \in {"asr_finetune", "hallucination_evaluation"}}
===============================================================================
