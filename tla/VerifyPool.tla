----------------------------- MODULE VerifyPool -----------------------------
(***************************************************************************)
(* The worker pool of finderConfig.verifyMany                              *)
(* (src/internal/proxy/find.go): one feeder, up to WorkerCount workers, a  *)
(* closer that waits for them and the caller, which collects.              *)
(*                                                                         *)
(* A candidate is its index in the slice. The jobs channel is unbuffered,  *)
(* so a hand-over is one step of the feeder and a worker together; the     *)
(* results channel is a FIFO buffer of len(candidates) places. A select    *)
(* with several ready cases may take any of them, so each case is an       *)
(* action of its own.                                                      *)
(***************************************************************************)
EXTENDS Naturals, Sequences, FiniteSets, Functions

CONSTANTS
    MaxTotal,               \* bound: the longest batch (40 in the program)
    WorkerCount             \* config.WorkerCount, after normalizeOptions

ASSUME MaxTotalAssumption == MaxTotal \in Nat
ASSUME WorkerCountAssumption == WorkerCount \in Nat \ {0}

Candidate == 1..MaxTotal
Worker == 1..WorkerCount
Result == [candidate : Candidate, verified : BOOLEAN]

VARIABLES
    total,                  \* len(candidates)
    ctxErr,                 \* ctx.Err() # nil, which is what closes ctx.Done()
    feeder,                 \* "unborn", "feeding" or "exited"
    next,                   \* the candidate the feeder offers next
    worker,                 \* where each worker stands
    held,                   \* the candidate it verifies, 0 when none
    verdict,                \* what its last verify returned
    results,                \* the buffered results channel
    resultsClosed,
    caller,                 \* "entry", "ranging" or "returned"
    checked,                \* the caller's counter
    verified,               \* the caller's slice
    err,                    \* the error it returned is not nil
    reported                \* history: the candidates the caller counted

vars == <<total, ctxErr, feeder, next, worker, held, verdict, results,
          resultsClosed, caller, checked, verified, err, reported>>

workerVars == <<worker, held, verdict>>
callerVars == <<caller, checked, verified, err, reported>>

WorkerState == {"unborn", "idle", "verifying", "sending", "exited"}

Init ==
    /\ total \in 0..MaxTotal
    /\ ctxErr = FALSE
    /\ feeder = "unborn"
    /\ next = 1
    /\ worker = [w \in Worker |-> "unborn"]
    /\ held = [w \in Worker |-> 0]
    /\ verdict = [w \in Worker |-> FALSE]
    /\ results = <<>>
    /\ resultsClosed = FALSE
    /\ caller = "entry"
    /\ checked = 0
    /\ verified = <<>>
    /\ err = FALSE
    /\ reported = {}

-----------------------------------------------------------------------------
(* The environment: the deadline passes or the caller's caller cancels. *)
Cancel ==
    /\ ~ctxErr
    /\ ctxErr' = TRUE
    /\ UNCHANGED <<total, feeder, next, workerVars, results, resultsClosed,
                   callerVars>>

(* An empty batch returns at once, and starts nothing. *)
ReturnEmpty ==
    /\ caller = "entry"
    /\ total = 0
    /\ caller' = "returned"
    /\ err' = ctxErr
    /\ UNCHANGED <<total, ctxErr, feeder, next, workerVars, results,
                   resultsClosed, checked, verified, reported>>

(* No more workers than candidates. *)
Spawned(w) == w <= total

(* The channels are made, the goroutines are started. *)
Spawn ==
    /\ caller = "entry"
    /\ total > 0
    /\ caller' = "ranging"
    /\ feeder' = "feeding"
    /\ worker' = [w \in Worker |-> IF Spawned(w) THEN "idle" ELSE "unborn"]
    /\ UNCHANGED <<total, ctxErr, next, held, verdict, results, resultsClosed,
                   checked, verified, err, reported>>

-----------------------------------------------------------------------------
(* The feeder and a worker meet on the unbuffered jobs channel. *)
HandOverAgain(w) ==         \* mutant: the same candidate is offered again
    /\ feeder = "feeding"
    /\ next <= total
    /\ worker[w] = "idle"
    /\ worker' = [worker EXCEPT ![w] = "verifying"]
    /\ held' = [held EXCEPT ![w] = next]
    /\ next' \in {next, next + 1}
    /\ UNCHANGED <<total, ctxErr, feeder, verdict, results, resultsClosed,
                   callerVars>>

HandOverPastEnd(w) ==       \* mutant: one candidate too many
    /\ feeder = "feeding"
    /\ next <= total + 1
    /\ worker[w] = "idle"
    /\ worker' = [worker EXCEPT ![w] = "verifying"]
    /\ held' = [held EXCEPT ![w] = next]
    /\ next' = next + 1
    /\ UNCHANGED <<total, ctxErr, feeder, verdict, results, resultsClosed,
                   callerVars>>

HandOver(w) ==
    /\ feeder = "feeding"
    /\ next <= total
    /\ worker[w] = "idle"
    /\ worker' = [worker EXCEPT ![w] = "verifying"]
    /\ held' = [held EXCEPT ![w] = next]
    /\ next' = next + 1
    /\ UNCHANGED <<total, ctxErr, feeder, verdict, results, resultsClosed,
                   callerVars>>

(* The feeder has offered everything, or gives up; it closes jobs. *)
FeederExitEarly ==          \* mutant: the last candidate is left out
    /\ feeder = "feeding"
    /\ next >= total \/ ctxErr
    /\ feeder' = "exited"
    /\ UNCHANGED <<total, ctxErr, next, workerVars, results, resultsClosed,
                   callerVars>>

FeederExitDeaf ==           \* mutant: a plain send, without the ctx case
    /\ feeder = "feeding"
    /\ next > total
    /\ feeder' = "exited"
    /\ UNCHANGED <<total, ctxErr, next, workerVars, results, resultsClosed,
                   callerVars>>

FeederExit ==
    /\ feeder = "feeding"
    /\ next > total \/ ctxErr
    /\ feeder' = "exited"
    /\ UNCHANGED <<total, ctxErr, next, workerVars, results, resultsClosed,
                   callerVars>>

WorkerMoves(w, from, to) ==
    /\ worker[w] = from
    /\ worker' = [worker EXCEPT ![w] = to]

(* An idle worker sees jobs closed, or the context ended. *)
IgnoreClosedJobs(w) ==      \* mutant: the ok flag of the receive is ignored
    /\ ctxErr
    /\ WorkerMoves(w, "idle", "exited")
    /\ UNCHANGED <<total, ctxErr, feeder, next, held, verdict, results,
                   resultsClosed, callerVars>>

WorkerExit(w) ==
    /\ feeder = "exited" \/ ctxErr
    /\ WorkerMoves(w, "idle", "exited")
    /\ UNCHANGED <<total, ctxErr, feeder, next, held, verdict, results,
                   resultsClosed, callerVars>>

(* config.verify returns: its own deadline bounds it, its answer is open. *)
Verify(w) ==
    /\ WorkerMoves(w, "verifying", "sending")
    /\ \E ok \in BOOLEAN : verdict' = [verdict EXCEPT ![w] = ok]
    /\ UNCHANGED <<total, ctxErr, feeder, next, held, results, resultsClosed,
                   callerVars>>

CapacityOfWorkers == IF WorkerCount < total THEN WorkerCount ELSE total
                            \* mutant: room for one result of each worker
Capacity == total

Send(w) ==
    /\ WorkerMoves(w, "sending", "idle")
    /\ Len(results) < Capacity
    /\ results' = Append(results, [candidate |-> held[w],
                                   verified |-> verdict[w]])
    /\ held' = [held EXCEPT ![w] = 0]
    /\ UNCHANGED <<total, ctxErr, feeder, next, verdict, resultsClosed,
                   callerVars>>

(* The other case of that select: the result is thrown away. *)
DropFreely(w) ==            \* mutant: a default case in place of ctx.Done()
    /\ WorkerMoves(w, "sending", "idle")
    /\ held' = [held EXCEPT ![w] = 0]
    /\ UNCHANGED <<total, ctxErr, feeder, next, verdict, results,
                   resultsClosed, callerVars>>

Drop(w) ==
    /\ ctxErr
    /\ WorkerMoves(w, "sending", "exited")
    /\ held' = [held EXCEPT ![w] = 0]
    /\ UNCHANGED <<total, ctxErr, feeder, next, verdict, results,
                   resultsClosed, callerVars>>

(* workers.Wait() returns and the closer closes results. *)
Resting(w) == worker[w] \in {"unborn", "exited"}

CloseResultsEarly ==        \* mutant: the feeder's end is taken for theirs
    /\ feeder = "exited"
    /\ ~resultsClosed
    /\ resultsClosed' = TRUE
    /\ UNCHANGED <<total, ctxErr, feeder, next, workerVars, results,
                   callerVars>>

CloseResults ==
    /\ caller # "entry" /\ feeder # "unborn"
    /\ \A w \in Worker : Resting(w)
    /\ ~resultsClosed
    /\ resultsClosed' = TRUE
    /\ UNCHANGED <<total, ctxErr, feeder, next, workerVars, results,
                   callerVars>>

-----------------------------------------------------------------------------
(* The caller ranges over results, then reads ctx.Err(). *)
Collect ==
    /\ caller = "ranging"
    /\ results # <<>>
    /\ LET result == Head(results)
       IN  /\ verified' = IF result.verified
                          THEN Append(verified, result.candidate)
                          ELSE verified
           /\ reported' = reported \union {result.candidate}
    /\ checked' = checked + 1
    /\ results' = Tail(results)
    /\ UNCHANGED <<total, ctxErr, feeder, next, workerVars, resultsClosed,
                   caller, err>>

ReturnNil ==                \* mutant: the error of the context is forgotten
    /\ caller = "ranging"
    /\ results = <<>> /\ resultsClosed
    /\ caller' = "returned"
    /\ err' = FALSE
    /\ UNCHANGED <<total, ctxErr, feeder, next, workerVars, results,
                   resultsClosed, checked, verified, reported>>

Return ==
    /\ caller = "ranging"
    /\ results = <<>> /\ resultsClosed
    /\ caller' = "returned"
    /\ err' = ctxErr
    /\ UNCHANGED <<total, ctxErr, feeder, next, workerVars, results,
                   resultsClosed, checked, verified, reported>>

(* Nothing is left to run: the only state in which the pool may stop. *)
Terminated ==
    /\ caller = "returned"
    /\ feeder # "feeding"
    /\ UNCHANGED vars

WorkerStep(w) ==
    \/ HandOver(w)
    \/ WorkerExit(w)
    \/ Verify(w)
    \/ Send(w)
    \/ Drop(w)

CallerStep == ReturnEmpty \/ Spawn \/ Collect \/ Return

Next ==
    \/ Cancel
    \/ CallerStep
    \/ FeederExit
    \/ \E w \in Worker : WorkerStep(w)
    \/ CloseResults
    \/ Terminated

(***************************************************************************)
(* Every goroutine that can run does. That Verify ends is the work of      *)
(* context.WithTimeout(ctx, config.ValidationTimeout); Cancel is not fair, *)
(* since nothing obliges a context to end.                                 *)
(***************************************************************************)
Fairness ==
    /\ WF_vars(CallerStep)
    /\ WF_vars(FeederExit)
    /\ WF_vars(CloseResults)
    /\ \A w \in Worker : WF_vars(WorkerStep(w))

Spec == Init /\ [][Next]_vars
FairSpec == Spec /\ Fairness

-----------------------------------------------------------------------------
(* Every variable keeps to its domain; in particular the feeder's index    *)
(* never passes the end of the slice (find.go:236).                        *)
TypeOK ==
    /\ total \in 0..MaxTotal
    /\ ctxErr \in BOOLEAN
    /\ feeder \in {"unborn", "feeding", "exited"}
    /\ next \in 1..(total + 1)
    /\ worker \in [Worker -> WorkerState]
    /\ held \in [Worker -> 0..total]
    /\ verdict \in [Worker -> BOOLEAN]
    /\ results \in Seq(Result)
    /\ resultsClosed \in BOOLEAN
    /\ caller \in {"entry", "ranging", "returned"}
    /\ checked \in Nat
    /\ verified \in Seq(Candidate)
    /\ err \in BOOLEAN
    /\ reported \in SUBSET Candidate

Busy(w) == worker[w] \in {"verifying", "sending"}
CandidatesIn(s) == {s[i].candidate : i \in DOMAIN s}
Buffered == CandidatesIn(results)

(* A nil error means that every candidate was checked: a batch cut short   *)
(* never passes for a complete one, although ctx.Err() is only read after  *)
(* the last result (find.go:254-268).                                      *)
CompleteUnlessCancelled ==
    caller = "returned" /\ ~err => reported = 1..total

(* No candidate is verified by two workers, buffered twice, or verified    *)
(* again after it was counted, whatever the interleaving of the workers;   *)
(* so Checked in the progress counts candidates (find.go:223-231, 255).    *)
CheckedOnce ==
    /\ checked = Cardinality(reported)
    /\ \A v, w \in Worker : Busy(v) /\ Busy(w) /\ held[v] = held[w] => v = w
    /\ \A w \in Worker : Busy(w) => held[w] \notin reported \union Buffered
    /\ Buffered \intersect reported = {}
    /\ \A i, k \in DOMAIN results :
          results[i].candidate = results[k].candidate => i = k

(* The results channel is closed only when no worker can send on it any    *)
(* more, which would panic (find.go:244-247 against 226).                  *)
NoSendAfterClose == resultsClosed => \A w \in Worker : Resting(w)

(* A send on results always finds room: no worker waits for the caller,    *)
(* even when its progress callback is slow (find.go:209).                  *)
SendNeverBlocks ==
    \A w \in Worker : worker[w] = "sending" => Len(results) < Capacity

(* While the context lives, a candidate that was handed out is held by a   *)
(* worker, buffered, or counted: only an ended context loses a result      *)
(* (find.go:225-229).                                                      *)
NothingLost ==
    ~ctxErr => \A c \in 1..(next - 1) :
                  \/ \E w \in Worker : Busy(w) /\ held[w] = c
                  \/ c \in Buffered
                  \/ c \in reported

(* verifyMany always returns, with or without an end of the context, and   *)
(* whichever goroutine notices that end first (find.go:212-268).           *)
Returns == <>(caller = "returned")

(* No goroutine outlives the call for good: the feeder, which nobody waits *)
(* for, does not stay behind on the jobs channel (find.go:234-243).        *)
NoLeak == <>[](feeder # "feeding" /\ \A w \in Worker : Resting(w))

(* The pool implements the batch verifyMany promises (VerifyBatch).        *)
Batch == INSTANCE VerifyBatch WITH
    batch <- 1..total,
    passed <- Range(verified),
    outcome <- IF caller # "returned" THEN "running"
               ELSE IF err THEN "cancelled" ELSE "complete"

ImplementsBatch == Batch!BatchSpec
=============================================================================
