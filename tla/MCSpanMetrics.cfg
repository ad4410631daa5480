CONSTANTS
    FlushValues <- MCFlushValues
    Temporalities <- MCTemporalities
    CardLimits <- MCCardLimits
    TsCacheSizes <- MCTsCacheSizes
SPECIFICATION Spec
INVARIANT TypeOK TemporalityRoundTrip
PROPERTY ConvertFailsOnlyOnHistogram
