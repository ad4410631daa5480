---------------------------- MODULE SpanMetrics ----------------------------
(***************************************************************************)
(* The arguments of otelcol.connector.spanmetrics                          *)
(* (src/internal/component/otelcol/connector/spanmetrics/spanmetrics.go).  *)
(* On every load of a configuration the block is decoded over              *)
(* DefaultArguments (SetToDefault, then the attributes the user wrote),   *)
(* Validate accepts or rejects it, and the component converts an accepted  *)
(* value into the collector's spanmetricsconnector.Config with Convert.    *)
(* The converter that turns a collector configuration back into Alloy      *)
(* syntax maps the temporality back with FromOTelAggregationTemporality.   *)
(*                                                                         *)
(* Only the fields that Validate or Convert test are kept.  Dimensions,    *)
(* caches sizes without a check, exemplars and events are copied as they   *)
(* are; Histogram.Convert is outside this file and may fail, which the     *)
(* model takes as a free choice.                                           *)
(***************************************************************************)
EXTENDS Integers

CONSTANTS
    FlushValues,    \* metrics_flush_interval values a block may set
    Temporalities,  \* aggregation_temporality values a block may set
    CardLimits,     \* aggregation_cardinality_limit values
    TsCacheSizes    \* metric_timestamp_cache_size values

ASSUME SpanMetricsAssumption ==
    /\ FlushValues \subseteq Int /\ CardLimits \subseteq Int
    /\ TsCacheSizes \subseteq Int
    /\ Temporalities \subseteq STRING

AggregationTemporalityCumulative == "CUMULATIVE"
AggregationTemporalityDelta == "DELTA"

\* DefaultArguments (the fields kept; durations in seconds).
DefaultArguments ==
    [flush       |-> 60,
     temporality |-> AggregationTemporalityCumulative,
     cardLimit   |-> 0,
     tsCache     |-> 1000]

\* What a decoded block may hold: each field is the default or a value the
\* user wrote.
Decoded ==
    [flush       : FlushValues \cup {DefaultArguments.flush},
     temporality : Temporalities \cup {DefaultArguments.temporality},
     cardLimit   : CardLimits \cup {DefaultArguments.cardLimit},
     tsCache     : TsCacheSizes \cup {DefaultArguments.tsCache}]

\* Mutant: any aggregation_temporality string is accepted.
ValidateNoTemporalityCheck(a) ==
    /\ a.flush > 0
    /\ a.cardLimit >= 0
    /\ a.temporality = AggregationTemporalityDelta => a.tsCache > 0

\* Validate: nil exactly when none of its checks fails.
Validate(a) ==
    /\ a.flush > 0
    /\ a.temporality \in {AggregationTemporalityCumulative,
                          AggregationTemporalityDelta}
    /\ a.cardLimit >= 0
    /\ a.temporality = AggregationTemporalityDelta => a.tsCache > 0

\* convertAggregationTemporality: the collector's name, or an error.
ConvertAggregationTemporality(t) ==
    CASE t = AggregationTemporalityCumulative ->
              [ok |-> TRUE, out |-> "AGGREGATION_TEMPORALITY_CUMULATIVE"]
      [] t = AggregationTemporalityDelta ->
              [ok |-> TRUE, out |-> "AGGREGATION_TEMPORALITY_DELTA"]
      [] OTHER -> [ok |-> FALSE, out |-> ""]

\* Mutant: the two collector names are mapped to the wrong Alloy names.
FromOTelSwapped(t) ==
    CASE t = "AGGREGATION_TEMPORALITY_DELTA" -> AggregationTemporalityCumulative
      [] t = "AGGREGATION_TEMPORALITY_CUMULATIVE" -> AggregationTemporalityDelta
      [] OTHER -> ""

\* FromOTelAggregationTemporality: the Alloy name, or "" for any other.
FromOTelAggregationTemporality(t) ==
    CASE t = "AGGREGATION_TEMPORALITY_DELTA" -> AggregationTemporalityDelta
      [] t = "AGGREGATION_TEMPORALITY_CUMULATIVE" -> AggregationTemporalityCumulative
      [] OTHER -> ""

NoConfig == [flush |-> 0, temporality |-> "", cardLimit |-> 0, tsCache |-> 0]

VARIABLES
    args,   \* the decoded Arguments
    phase,  \* "idle", "decoded", "valid", "invalid", "converted", "failed"
    cfg     \* the spanmetricsconnector.Config Convert returned

vars == <<args, phase, cfg>>

Init ==
    /\ args = DefaultArguments
    /\ phase = "idle"
    /\ cfg = NoConfig

\* Mutant: SetToDefault is not called, so unset fields are Go's zero values.
DecodeNoDefaults ==
    /\ phase # "decoded"
    /\ args' \in [flush : FlushValues \cup {0}, temporality : Temporalities \cup {""},
                  cardLimit : CardLimits \cup {0}, tsCache : TsCacheSizes \cup {0}]
    /\ phase' = "decoded"
    /\ UNCHANGED cfg

\* A load decodes the block: SetToDefault, then the user's attributes.
Decode ==
    /\ phase # "decoded"
    /\ args' \in Decoded
    /\ phase' = "decoded"
    /\ UNCHANGED cfg

\* The loader calls Validate on the decoded value.
RunValidate ==
    /\ phase = "decoded"
    /\ phase' = IF Validate(args) THEN "valid" ELSE "invalid"
    /\ UNCHANGED <<args, cfg>>

\* Convert: the histogram is converted first, then the temporality; either
\* error is returned, otherwise the config copies the checked fields.
Convert(histOk) ==
    LET temp == ConvertAggregationTemporality(args.temporality)
    IN
    /\ phase = "valid"
    /\ IF histOk /\ temp.ok
         THEN /\ cfg' = [flush |-> args.flush, temporality |-> temp.out,
                         cardLimit |-> args.cardLimit, tsCache |-> args.tsCache]
              /\ phase' = "converted"
         ELSE /\ phase' = "failed"
              /\ UNCHANGED cfg
    /\ UNCHANGED args

Next ==
    \/ Decode
    \/ RunValidate
    \/ \E histOk \in BOOLEAN : Convert(histOk)

Spec == Init /\ [][Next]_vars

-----------------------------------------------------------------------------
(* Properties.                                                             *)

TypeOK ==
    /\ args \in Decoded
    /\ phase \in {"idle", "decoded", "valid", "invalid", "converted", "failed"}
    /\ cfg \in [flush : Int,
                temporality : {"", "AGGREGATION_TEMPORALITY_CUMULATIVE",
                               "AGGREGATION_TEMPORALITY_DELTA"},
                cardLimit : Int, tsCache : Int]

\* Converting the temporality to the collector's name and back with
\* FromOTelAggregationTemporality gives the name the user wrote, so a
\* converted configuration keeps its temporality.
TemporalityRoundTrip ==
    phase = "converted" =>
        FromOTelAggregationTemporality(cfg.temporality) = args.temporality

\* Once Validate has accepted the arguments, Convert can fail only in the
\* histogram, never on the temporality it converts itself.
ConvertFailsOnlyOnHistogram ==
    [][phase = "valid" /\ phase' = "failed"
          => ConvertAggregationTemporality(args.temporality).ok]_vars

=============================================================================
