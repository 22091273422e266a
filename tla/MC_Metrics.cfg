\* Two functions, two request threads that invoke, delete or scrape, the reaper.
SPECIFICATION Spec
CONSTANTS
    Names = {f, g}
    Threads = {t1, t2}
    Reaper = Reaper
    kBucketsMs <- TwoBuckets
    Durations <- SomeDurations
    MaxRequests = 2
    Null = Null
SYMMETRY Symmetry
INVARIANTS
    ScrapeConsistent
    HistogramsCumulative
    HistogramExact
    MetricsInv
