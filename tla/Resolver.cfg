\* Five endpoints, two latencies, at most 4 candidates and 3 results: the
\* cache can suffice, fall short or spend the budget, and the feed overlaps it.
SPECIFICATION Spec
CONSTANTS
    Endpoint = {1, 2, 3, 4, 5}
    Latency = {1, 2}
    MaxCandidates = 4
    MaxResults = 3
    OptionInputs <- MCOptions
    CachedInputs <- MCCached
    FeedInputs <- MCFeed
INVARIANTS
    TypeOK
    TriedOnceWithinBudget
    ReturnsBest
    ErrorsAreTrue
    FetchRule
