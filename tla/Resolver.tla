------------------------------ MODULE Resolver ------------------------------
(***************************************************************************)
(* Resolver.Resolve (src/internal/proxy/find.go): the cached endpoints are *)
(* verified first, then, when too few pass, ProxyScrape is read once and   *)
(* its candidates are verified within what is left of the budget.          *)
(*                                                                         *)
(* Both batches are calls of verifyMany, taken here as VerifyBatch         *)
(* describes them (VerifyPool shows that the goroutines implement it).     *)
(* Endpoints are numbers in the order of (Host, Port), the tie-break of    *)
(* sortEndpoints; Refused stands for a record SanitizeEndpoint rejects.    *)
(***************************************************************************)
EXTENDS Integers, Sequences, SequencesExt

CONSTANTS
    Endpoint,               \* the public ip:port pairs of the model
    Latency,                \* the latencies a verification may measure
    MaxCandidates,          \* 40 in the program
    MaxResults,             \* 3 in the program
    OptionInputs,           \* the <<CandidateLimit, ResultLimit>> to try
    CachedInputs,           \* the sequences of cached records to try
    FeedInputs              \* the sequences of rows ProxyScrape may send

Refused == 0
DefaultResultLimit == 1

ASSUME EndpointAssumption == Endpoint \subseteq Nat \ {Refused}
ASSUME LatencyAssumption == Latency \subseteq Nat
ASSUME LimitAssumption ==
    MaxResults \in Nat \ {0} /\ MaxCandidates \in Nat \ {0}
ASSUME InputAssumption ==
    /\ OptionInputs \subseteq Int \X Int
    /\ CachedInputs \subseteq Seq(Endpoint \union {Refused})
    /\ FeedInputs \subseteq Seq(Endpoint \union {Refused})

VARIABLES
    pc,                     \* "entry", "cache", "fetch", "fresh", "returned"
    limits,                 \* CandidateLimit and ResultLimit, normalised
    cached,                 \* the sanitised cached endpoints
    batch, reported, passed, ctxErr, outcome,   \* the current verifyMany
    latency,                \* what was measured for each endpoint, 0 if never
    selected, fetched, err, \* what Resolve returns
    tried,                  \* history: how often each was given to verifyMany
    survivors,              \* history: those that passed, in either batch
    unchecked,              \* history: those a cut batch left without verdict
    fetches                 \* history: the calls of fetchProxyScrape

Batch == INSTANCE VerifyBatch WITH Candidate <- Endpoint

batchVars == <<batch, reported, passed, outcome>>
historyVars == <<tried, survivors, unchecked, fetches>>
vars == <<pc, limits, cached, batchVars, ctxErr, latency, selected, fetched,
          err, historyVars>>

Error == {"none", "options", "context", "source", "noVerified"}

-----------------------------------------------------------------------------
Lesser(m, n) == IF m < n THEN m ELSE n

(* normalizeOptions: what is out of range becomes the default. *)
BoundedBelowOnly(value, largest, default) ==    \* mutant: no upper bound
    IF value <= 0 THEN default ELSE value

Bounded(value, largest, default) ==
    IF value <= 0 \/ value > largest THEN default ELSE value

Normalised(options) ==
    [candidates |-> Bounded(options[1], MaxCandidates, MaxCandidates),
     results |-> Bounded(options[2], MaxResults, DefaultResultLimit)]

(* sanitizeCandidates: acceptable records, each once, at most limit: those *)
(* that fewer than limit different ones come before.                       *)
AcceptedBefore(records, i) == Range(SubSeq(records, 1, i - 1)) \ {Refused}

Sanitize(records, limit) ==
    {records[i] : i \in {k \in DOMAIN records :
                            /\ records[k] # Refused
                            /\ Cardinality(AcceptedBefore(records, k)) < limit}}

(* withoutEndpoints: what was in the cache is not verified again. *)
WithoutNothing(candidates, excluded) == candidates  \* mutant
Without(candidates, excluded) == candidates \ excluded

(* sortEndpoints: by latency, then by host and port. *)
Faster(measured, a, b) ==
    \/ measured[a] < measured[b]
    \/ measured[a] = measured[b] /\ a < b

TrimOnly(endpoints, measured, limit) ==         \* mutant: no sort
    SubSeq(endpoints, 1, Lesser(limit, Len(endpoints)))

Ahead(endpoints, measured, i) ==
    {k \in DOMAIN endpoints :
        \/ Faster(measured, endpoints[k], endpoints[i])
        \/ endpoints[k] = endpoints[i] /\ k < i}

Sorted(endpoints, measured) ==      \* each at the place its rank gives it
    [place \in DOMAIN endpoints |->
        endpoints[CHOOSE i \in DOMAIN endpoints :
                      Cardinality(Ahead(endpoints, measured, i)) = place - 1]]

TrimAndSort(endpoints, measured, limit) ==
    SubSeq(Sorted(endpoints, measured), 1, Lesser(limit, Len(endpoints)))

-----------------------------------------------------------------------------
Init ==
    /\ pc = "entry"
    /\ limits = Normalised(<<0, 0>>)
    /\ cached = {}
    /\ batch = {} /\ reported = {} /\ passed = {} /\ outcome = "complete"
    /\ ctxErr = FALSE
    /\ latency = [e \in Endpoint |-> 0]
    /\ selected = <<>> /\ fetched = FALSE /\ err = "none"
    /\ tried = [e \in Endpoint |-> 0]
    /\ survivors = {} /\ unchecked = {}
    /\ fetches = 0

(* The deadline of the discovery passes, at any moment. *)
Cancel == Batch!Cancel /\ UNCHANGED <<pc, limits, cached, latency, selected,
                                      fetched, err, historyVars>>

(* verifyMany is called with this set of candidates. *)
StartBatch(candidates) ==
    /\ batch' = candidates
    /\ reported' = {}
    /\ passed' = {}
    /\ outcome' = "running"
    /\ tried' = [e \in Endpoint |->
                     tried[e] + IF e \in candidates THEN 1 ELSE 0]

ReturnWith(error) == pc' = "returned" /\ err' = error

(* normalizeOptions refuses a URL or a TLS configuration. *)
RefuseOptions ==
    /\ pc = "entry"
    /\ ReturnWith("options")
    /\ UNCHANGED <<limits, cached, batchVars, ctxErr, latency, selected,
                   fetched, historyVars>>

Begin ==
    /\ pc = "entry"
    /\ \E options \in OptionInputs, records \in CachedInputs :
          LET lim == Normalised(options)
              kept == Sanitize(records, Lesser(lim.candidates, MaxResults))
          IN  /\ limits' = lim
              /\ cached' = kept
              /\ StartBatch(kept)
    /\ pc' = "cache"
    /\ UNCHANGED <<ctxErr, latency, selected, fetched, err, survivors,
                   unchecked, fetches>>

(* A verification of the current batch ends and is counted. *)
ReportVerdict ==
    /\ \E e \in Endpoint, ok \in BOOLEAN, time \in Latency :
          /\ Batch!Report(e, ok)
          /\ latency' = IF ok THEN [latency EXCEPT ![e] = time] ELSE latency
          /\ survivors' = IF ok THEN survivors \union {e} ELSE survivors
    /\ UNCHANGED <<pc, limits, cached, selected, fetched, err, tried,
                   unchecked, fetches>>

(* verifyMany returns, complete or cut short. *)
BatchReturns ==
    /\ Batch!ReturnBatch
    /\ unchecked' = unchecked \union (batch \ reported)
    /\ UNCHANGED <<pc, limits, cached, latency, selected, fetched, err, tried,
                   survivors, fetches>>

-----------------------------------------------------------------------------
Selection == TrimAndSort(selected \o SetToSeq(passed), latency, limits.results)
Remaining == limits.candidates - Cardinality(cached)

AfterBatch(stage) == pc = stage /\ outcome # "running"

CacheCancelled ==
    /\ AfterBatch("cache") /\ outcome = "cancelled"
    /\ selected' = Selection
    /\ ReturnWith("context")
    /\ UNCHANGED <<limits, cached, batchVars, ctxErr, latency, fetched,
                   historyVars>>

CacheSuffices ==
    /\ AfterBatch("cache") /\ outcome = "complete"
    /\ Len(Selection) >= limits.results
    /\ selected' = Selection
    /\ ReturnWith("none")
    /\ UNCHANGED <<limits, cached, batchVars, ctxErr, latency, fetched,
                   historyVars>>

BudgetSpent ==
    /\ AfterBatch("cache") /\ outcome = "complete"
    /\ Len(Selection) < limits.results /\ Remaining <= 0
    /\ selected' = Selection
    /\ ReturnWith(IF Selection = <<>> THEN "noVerified" ELSE "none")
    /\ UNCHANGED <<limits, cached, batchVars, ctxErr, latency, fetched,
                   historyVars>>

StartFetchAlways ==         \* mutant: the cache never suffices
    /\ AfterBatch("cache") /\ outcome = "complete"
    /\ Remaining > 0
    /\ selected' = Selection
    /\ fetched' = TRUE
    /\ fetches' = fetches + 1
    /\ pc' = "fetch"
    /\ UNCHANGED <<limits, cached, batchVars, ctxErr, latency, err, tried,
                   survivors, unchecked>>

StartFetch ==
    /\ AfterBatch("cache") /\ outcome = "complete"
    /\ Len(Selection) < limits.results /\ Remaining > 0
    /\ selected' = Selection
    /\ fetched' = TRUE
    /\ fetches' = fetches + 1
    /\ pc' = "fetch"
    /\ UNCHANGED <<limits, cached, batchVars, ctxErr, latency, err, tried,
                   survivors, unchecked>>

(* parseProxyScrape: the acceptable rows, each once, are shuffled before   *)
(* the limit cuts them, so any of them may be kept.                        *)
Parsed(rows, limit) ==
    LET accepted == Range(rows) \ {Refused}
    IN  kSubset(Lesser(limit, Cardinality(accepted)), accepted)

(* The request fails or is refused, the body is too large, the shuffle has *)
(* no randomness, or no row is acceptable; what is selected is kept.       *)
FetchFails ==
    /\ pc = "fetch"
    /\ ReturnWith("source")
    /\ UNCHANGED <<limits, cached, batchVars, ctxErr, latency, selected,
                   fetched, historyVars>>

(* The limit is what is left of the budget; what was in the cache is taken *)
(* out afterwards.                                                         *)
FetchSucceeds ==
    /\ pc = "fetch"
    /\ \E rows \in FeedInputs :
          \E candidates \in Parsed(rows, Remaining) \ {{}} :
              StartBatch(Without(candidates, cached))
    /\ pc' = "fresh"
    /\ UNCHANGED <<limits, cached, ctxErr, latency, selected, fetched, err,
                   survivors, unchecked, fetches>>

FreshDoneSilently ==        \* mutant: verifyErr is only read when none passed
    /\ AfterBatch("fresh")
    /\ selected' = Selection
    /\ ReturnWith(IF Selection = <<>> THEN "noVerified" ELSE "none")
    /\ UNCHANGED <<limits, cached, batchVars, ctxErr, latency, fetched,
                   historyVars>>

FreshDone ==
    /\ AfterBatch("fresh")
    /\ selected' = Selection
    /\ ReturnWith(IF outcome = "cancelled" THEN "context"
                  ELSE IF Selection = <<>> THEN "noVerified" ELSE "none")
    /\ UNCHANGED <<limits, cached, batchVars, ctxErr, latency, fetched,
                   historyVars>>

Terminated == pc = "returned" /\ UNCHANGED vars

ResolveStep ==
    \/ RefuseOptions \/ Begin
    \/ ReportVerdict \/ BatchReturns
    \/ CacheCancelled \/ CacheSuffices \/ BudgetSpent
    \/ StartFetch \/ FetchFails \/ FetchSucceeds
    \/ FreshDone

Next == ResolveStep \/ Cancel \/ Terminated

Spec == Init /\ [][Next]_vars

-----------------------------------------------------------------------------
(* Every variable keeps to its domain; the normalised limits are in range  *)
(* whatever the options said (find.go:531-539).                            *)
TypeOK ==
    /\ pc \in {"entry", "cache", "fetch", "fresh", "returned"}
    /\ limits \in [candidates : 1..MaxCandidates, results : 1..MaxResults]
    /\ cached \in SUBSET Endpoint
    /\ Batch!BatchTypeOK
    /\ latency \in [Endpoint -> Latency \union {0}]
    /\ selected \in Seq(Endpoint)
    /\ fetched \in BOOLEAN
    /\ err \in Error
    /\ tried \in [Endpoint -> Nat]
    /\ survivors \in SUBSET Endpoint
    /\ unchecked \in SUBSET Endpoint
    /\ fetches \in Nat

Returned == pc = "returned"
TriedSet == {e \in Endpoint : tried[e] > 0}

(* One Resolve verifies no endpoint twice, not even one that is both in    *)
(* the cache and in the feed, and never more than CandidateLimit of them   *)
(* over both batches together (find.go:132-133, 142, 167).                 *)
TriedOnceWithinBudget ==
    /\ \A e \in Endpoint : tried[e] <= 1
    /\ Cardinality(TriedSet) <= limits.candidates

(* Whichever way Resolve returns, it returns the fastest of all endpoints  *)
(* that passed, in order, as many as there are up to ResultLimit: a failed *)
(* fetch or an ended context discards none (find.go:134-177).              *)
ReturnsBest ==
    Returned =>
        /\ Len(selected) = Lesser(limits.results, Cardinality(survivors))
        /\ Range(selected) \subseteq survivors
        /\ \A i, k \in DOMAIN selected :
               i < k => Faster(latency, selected[i], selected[k])
        /\ \A i \in DOMAIN selected, e \in survivors \ Range(selected) :
               Faster(latency, selected[i], e)

(* A nil error comes with a proxy, and neither it nor ErrNoVerifiedProxies *)
(* hides a candidate without verdict: ErrNoVerifiedProxies says that none  *)
(* passed, not that time ran out (find.go:136-148, 171-176).               *)
ErrorsAreTrue ==
    Returned =>
        /\ err = "none" => selected # <<>>
        /\ err = "noVerified" => survivors = {} /\ selected = <<>>
        /\ err \in {"none", "noVerified"} => unchecked = {}

(* ProxyScrape is read at most once, never when the cache had enough, and  *)
(* fetched tells exactly whether it was; a call that ends well without it  *)
(* had enough cached endpoints or no budget (find.go:108-109, 139-150).    *)
FetchRule ==
    /\ fetches = (IF fetched THEN 1 ELSE 0)
    /\ fetched => Cardinality(survivors \intersect cached)
                      < limits.results
    /\ Returned /\ err = "none" /\ ~fetched =>
           Len(selected) = limits.results \/ Remaining = 0
=============================================================================
