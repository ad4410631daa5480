------------------------- MODULE SpanMetricsProofs -------------------------
(***************************************************************************)
(* Proofs that what Convert hands the connector is usable and keeps its    *)
(* temporality, for all value sets a block may draw from.                  *)
(***************************************************************************)
EXTENDS SpanMetrics, TLAPS

\* Validate's verdict stays attached to the arguments it was given: from
\* the moment Validate accepted them until the next decode, and the
\* config Convert built copies them.
IInv ==
    /\ args \in Decoded
    /\ phase \in {"valid", "converted", "failed"} => Validate(args)
    /\ phase = "converted" =>
          cfg = [flush |-> args.flush,
                 temporality |-> ConvertAggregationTemporality(args.temporality).out,
                 cardLimit |-> args.cardLimit, tsCache |-> args.tsCache]

\* The numeric fields of a block are integers (Go ints and durations).
LEMMA IntFields ==
    FlushValues \subseteq Int /\ CardLimits \subseteq Int /\ TsCacheSizes \subseteq Int
BY SpanMetricsAssumption, Zenon DEF SpanMetricsAssumption

LEMMA InitIInv == Init => IInv
BY DEF Init, IInv, Decoded, DefaultArguments

LEMMA NextIInv == IInv /\ [Next]_vars => IInv'
<1> SUFFICES ASSUME IInv, [Next]_vars PROVE IInv'
  OBVIOUS
<1>1. CASE Decode
  BY <1>1 DEF Decode, IInv
<1>2. CASE RunValidate
  BY <1>2 DEF RunValidate, IInv
<1>3. ASSUME NEW histOk \in BOOLEAN, Convert(histOk) PROVE IInv'
  <2>1. Validate(args)
    BY <1>3 DEF Convert, IInv
  <2>2. CASE histOk /\ ConvertAggregationTemporality(args.temporality).ok
    BY <1>3, <2>1, <2>2 DEF Convert, IInv
  <2>3. CASE ~(histOk /\ ConvertAggregationTemporality(args.temporality).ok)
    BY <1>3, <2>1, <2>3 DEF Convert, IInv
  <2> QED
    BY <2>2, <2>3
<1>4. CASE UNCHANGED vars
  BY <1>4 DEF vars, IInv
<1> QED
  BY <1>1, <1>2, <1>3, <1>4 DEF Next

\* A converted config names a temporality Validate accepted.
LEMMA ValidTemporality ==
    ASSUME NEW a, Validate(a)
    PROVE  \/ /\ a.temporality = AggregationTemporalityCumulative
              /\ ConvertAggregationTemporality(a.temporality).out
                    = "AGGREGATION_TEMPORALITY_CUMULATIVE"
           \/ /\ a.temporality = AggregationTemporalityDelta
              /\ ConvertAggregationTemporality(a.temporality).out
                    = "AGGREGATION_TEMPORALITY_DELTA"
BY DEF Validate, ConvertAggregationTemporality, AggregationTemporalityCumulative,
       AggregationTemporalityDelta

\* The temporality of a converted configuration maps back, through
\* FromOTelAggregationTemporality, to the name the user wrote.
THEOREM TemporalityRoundTripHolds == Spec => []TemporalityRoundTrip
<1>1. IInv => TemporalityRoundTrip
  <2> SUFFICES ASSUME IInv, phase = "converted" PROVE TemporalityRoundTrip
    BY DEF TemporalityRoundTrip
  <2>1. Validate(args)
    BY DEF IInv
  <2>2. cfg.temporality = ConvertAggregationTemporality(args.temporality).out
    BY DEF IInv
  <2>3. CASE args.temporality = AggregationTemporalityCumulative
    <3>1. cfg.temporality = "AGGREGATION_TEMPORALITY_CUMULATIVE"
      BY <2>1, <2>2, <2>3, ValidTemporality DEF AggregationTemporalityDelta,
         AggregationTemporalityCumulative
    <3> QED
      BY <2>3, <3>1 DEF TemporalityRoundTrip, FromOTelAggregationTemporality
  <2>4. CASE args.temporality = AggregationTemporalityDelta
    <3>1. cfg.temporality = "AGGREGATION_TEMPORALITY_DELTA"
      BY <2>1, <2>2, <2>4, ValidTemporality DEF AggregationTemporalityDelta,
         AggregationTemporalityCumulative
    <3> QED
      BY <2>4, <3>1 DEF TemporalityRoundTrip, FromOTelAggregationTemporality
  <2> QED
    BY <2>1, <2>3, <2>4 DEF Validate
<1> QED
  BY InitIInv, NextIInv, <1>1, PTL DEF Spec

\* Convert runs only on arguments Validate accepted, so when it fails the
\* temporality conversion it does itself has succeeded: the failure is in
\* the histogram.
THEOREM ConvertFailsOnlyOnHistogramHolds == Spec => ConvertFailsOnlyOnHistogram
<1>1. IInv => (phase = "valid" => ConvertAggregationTemporality(args.temporality).ok)
  <2> SUFFICES ASSUME IInv, phase = "valid"
               PROVE  ConvertAggregationTemporality(args.temporality).ok
    OBVIOUS
  <2>1. Validate(args)
    BY DEF IInv
  <2> QED
    BY <2>1 DEF Validate, ConvertAggregationTemporality,
       AggregationTemporalityCumulative, AggregationTemporalityDelta
<1>2. IInv /\ [Next]_vars =>
        [phase = "valid" /\ phase' = "failed"
           => ConvertAggregationTemporality(args.temporality).ok]_vars
  BY <1>1
<1> QED
  BY InitIInv, NextIInv, <1>2, PTL DEF Spec, ConvertFailsOnlyOnHistogram


\* Every reachable state is well typed: the arguments are always a value
\* decoding over DefaultArguments can give, and the config has the types
\* of spanmetricsconnector.Config's checked fields.
THEOREM TypeCorrect == Spec => []TypeOK
<1>1. Init => TypeOK
  <2> SUFFICES ASSUME Init PROVE TypeOK
    OBVIOUS
  <2>1. DefaultArguments \in Decoded
    BY DEF Decoded, DefaultArguments
  <2>2. NoConfig \in [flush : Int,
                      temporality : {"", "AGGREGATION_TEMPORALITY_CUMULATIVE",
                                     "AGGREGATION_TEMPORALITY_DELTA"},
                      cardLimit : Int, tsCache : Int]
    BY DEF NoConfig
  <2> QED
    BY <2>1, <2>2 DEF Init, TypeOK
<1>2. TypeOK /\ [Next]_vars => TypeOK'
  <2> SUFFICES ASSUME TypeOK, [Next]_vars PROVE TypeOK'
    OBVIOUS
  <2>1. CASE Decode
    BY <2>1 DEF Decode, TypeOK
  <2>2. CASE RunValidate
    BY <2>2 DEF RunValidate, TypeOK
  <2>3. ASSUME NEW histOk \in BOOLEAN, Convert(histOk) PROVE TypeOK'
    <3>1. args \in Decoded
      BY DEF TypeOK
    <3>2. ConvertAggregationTemporality(args.temporality).out
            \in {"", "AGGREGATION_TEMPORALITY_CUMULATIVE",
                 "AGGREGATION_TEMPORALITY_DELTA"}
      BY DEF ConvertAggregationTemporality, AggregationTemporalityCumulative,
             AggregationTemporalityDelta
    <3>4. /\ args.flush \in FlushValues \cup {60}
          /\ args.cardLimit \in CardLimits \cup {0}
          /\ args.tsCache \in TsCacheSizes \cup {1000}
      BY <3>1 DEF Decoded, DefaultArguments
    <3>5. /\ \A x \in FlushValues \cup {60} : x \in Int
          /\ \A x \in CardLimits \cup {0} : x \in Int
          /\ \A x \in TsCacheSizes \cup {1000} : x \in Int
      BY IntFields
    <3>3. args.flush \in Int /\ args.cardLimit \in Int /\ args.tsCache \in Int
      BY <3>4, <3>5
    <3>6. CASE histOk /\ ConvertAggregationTemporality(args.temporality).ok
      <4>1. cfg' = [flush |-> args.flush,
                    temporality |-> ConvertAggregationTemporality(args.temporality).out,
                    cardLimit |-> args.cardLimit, tsCache |-> args.tsCache]
            /\ phase' = "converted" /\ args' = args
        BY <2>3, <3>6 DEF Convert
      <4> QED
        BY <4>1, <3>1, <3>2, <3>3 DEF TypeOK
    <3>7. CASE ~(histOk /\ ConvertAggregationTemporality(args.temporality).ok)
      <4>1. phase' = "failed" /\ cfg' = cfg /\ args' = args
        BY <2>3, <3>7 DEF Convert
      <4> QED
        BY <4>1 DEF TypeOK
    <3> QED
      BY <3>6, <3>7
  <2>4. CASE UNCHANGED vars
    BY <2>4 DEF vars, TypeOK
  <2> QED
    BY <2>1, <2>2, <2>3, <2>4 DEF Next
<1> QED
  BY <1>1, <1>2, PTL DEF Spec

=============================================================================
