\* Two threads of three responses between them; histograms of four sub-buckets.
CONSTANTS
    Radix = 2
    lowest_trackable_value = 1
    highest_trackable_value = 12
    significant_figures = 1
    WordLength = 8
    Threads = 2
    RecordAll = FALSE
    Latencies <- MCLatencies
    MaxResponses = 3
    Bounds = {0, 12, 13, 16}
    MaxSamples = 2
SPECIFICATION FairSpec
INVARIANTS
    TypeOK
    IteratorsEnd
    CountedWhereItBelongs
    EverySampleCounted
    ReportIsSum
    ReportDescribesTheSeen
    CorrectedDominates
PROPERTIES
    ReportComes
