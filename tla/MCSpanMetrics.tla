--------------------------- MODULE MCSpanMetrics ---------------------------
(* Blocks that set each checked field to a bad, a boundary and a good      *)
(* value, including a temporality in the wrong case.                       *)
EXTENDS SpanMetrics

MCFlushValues == {-1, 0, 30}
MCTemporalities == {"CUMULATIVE", "DELTA", "delta"}
MCCardLimits == {-1, 0, 5}
MCTsCacheSizes == {-1, 0}

=============================================================================
