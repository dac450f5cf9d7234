-------------------------- MODULE VerifyPoolProofs --------------------------
(***************************************************************************)
(* Theorems about VerifyPool for every length of a batch and every number  *)
(* of workers.                                                             *)
(***************************************************************************)
EXTENDS VerifyPool, FiniteSetTheorems, TLAPS

(***************************************************************************)
(* The order in which the goroutines come to an end. A worker that ends    *)
(* without an end of the context has seen jobs closed, the feeder closes   *)
(* jobs after the last candidate, results is closed after the last worker: *)
(* so an empty, closed results channel says that nothing is left to check. *)
(***************************************************************************)
EntryInv ==
    caller = "entry" =>
        /\ feeder = "unborn" /\ next = 1 /\ results = <<>> /\ reported = {}
        /\ checked = 0 /\ ~resultsClosed
        /\ \A w \in Worker : worker[w] = "unborn"

StartedInv ==
    /\ caller = "ranging" => total > 0 /\ feeder # "unborn"
    /\ feeder # "unborn" =>
           total > 0 /\ \A w \in Worker : worker[w] = "unborn" => w > total

ExitInv ==
    ~ctxErr => /\ feeder = "exited" => next > total
               /\ \A w \in Worker : worker[w] = "exited" => feeder = "exited"

HeldInv ==
    /\ \A w \in Worker : Busy(w) => held[w] \in 1..(next - 1)
    /\ Buffered \subseteq 1..(next - 1)
    /\ reported \subseteq 1..(next - 1)

ClosedInv ==
    resultsClosed => feeder # "unborn" /\ \A w \in Worker : Resting(w)

(***************************************************************************)
(* TypeOK is not inductive by itself: a worker that is about to send must  *)
(* hold a candidate for its result to be one.                              *)
(***************************************************************************)
TypeInv ==
    /\ TypeOK
    /\ \A w \in Worker : Busy(w) => held[w] # 0

PoolInv ==
    /\ TypeInv
    /\ EntryInv
    /\ StartedInv
    /\ ExitInv
    /\ HeldInv
    /\ ClosedInv
    /\ NothingLost
    /\ CompleteUnlessCancelled

-----------------------------------------------------------------------------
(* The constants are positive integers. *)
LEMMA Domains ==
    /\ MaxTotal \in Nat
    /\ WorkerCount \in Nat \ {0}
    /\ 1 \in Worker
  BY MaxTotalAssumption, WorkerCountAssumption DEF Worker

(* A send adds exactly one candidate to the buffer. *)
LEMMA CandidatesInAppend ==
    ASSUME NEW s \in Seq(Result), NEW r \in Result
    PROVE  CandidatesIn(Append(s, r)) = CandidatesIn(s) \union {r.candidate}
  <1>1. DOMAIN Append(s, r) = (DOMAIN s) \union {Len(s) + 1}
    OBVIOUS
  <1>2. \A i \in DOMAIN s : Append(s, r)[i] = s[i]
    OBVIOUS
  <1>3. Append(s, r)[Len(s) + 1] = r
    OBVIOUS
  <1> QED
    BY <1>1, <1>2, <1>3 DEF CandidatesIn

(* A receive takes away no candidate but the first. *)
LEMMA CandidatesInTail ==
    ASSUME NEW s \in Seq(Result), s # <<>>
    PROVE  CandidatesIn(s) = {Head(s).candidate} \union CandidatesIn(Tail(s))
  <1>1. /\ Len(s) \in Nat \ {0}
        /\ DOMAIN s = 1..Len(s)
        /\ DOMAIN Tail(s) = 1..(Len(s) - 1)
    OBVIOUS
  <1>2. Head(s) = s[1] /\ \A i \in 1..(Len(s) - 1) : Tail(s)[i] = s[i + 1]
    OBVIOUS
  <1>3. \A i \in DOMAIN s : i = 1 \/ (i - 1 \in DOMAIN Tail(s)
                                      /\ Tail(s)[i - 1] = s[i])
    BY <1>1, <1>2
  <1>4. \A i \in DOMAIN Tail(s) : i + 1 \in DOMAIN s /\ Tail(s)[i] = s[i + 1]
    BY <1>1, <1>2
  <1>5. 1 \in DOMAIN s
    BY <1>1
  <1>6. ASSUME NEW c \in CandidatesIn(s)
        PROVE  c = Head(s).candidate \/ c \in CandidatesIn(Tail(s))
    <2>1. PICK i \in DOMAIN s : c = s[i].candidate
      BY DEF CandidatesIn
    <2> QED
      BY <2>1, <1>2, <1>3 DEF CandidatesIn
  <1>7. Head(s).candidate \in CandidatesIn(s)
    BY <1>2, <1>5 DEF CandidatesIn
  <1>8. ASSUME NEW c \in CandidatesIn(Tail(s))
        PROVE  c \in CandidatesIn(s)
    <2>1. PICK i \in DOMAIN Tail(s) : c = Tail(s)[i].candidate
      BY DEF CandidatesIn
    <2> QED
      BY <2>1, <1>4 DEF CandidatesIn
  <1> QED
    BY <1>6, <1>7, <1>8

-----------------------------------------------------------------------------
LEMMA InitType == Init => TypeInv
  <1> SUFFICES ASSUME Init PROVE TypeInv
    OBVIOUS
  <1>1. worker \in [Worker -> WorkerState]
    BY DEF Init, WorkerState
  <1>2. results \in Seq(Result) /\ verified \in Seq(Candidate)
    BY DEF Init
  <1>3. /\ held \in [Worker -> 0..total]
        /\ verdict \in [Worker -> BOOLEAN]
        /\ next \in 1..(total + 1)
    BY Domains DEF Init
  <1>4. TypeOK
    BY <1>1, <1>2, <1>3 DEF Init, TypeOK
  <1> QED
    BY <1>4 DEF Init, TypeInv, Busy

LEMMA NextType == TypeInv /\ [Next]_vars => TypeInv'
  <1> SUFFICES ASSUME TypeInv, [Next]_vars PROVE TypeInv'
    OBVIOUS
  <1> USE Domains DEF TypeInv, TypeOK, WorkerState, Busy
  <1>1. CASE Cancel
    BY <1>1 DEF Cancel, workerVars, callerVars
  <1>2. CASE ReturnEmpty
    BY <1>2 DEF ReturnEmpty, workerVars
  <1>3. CASE Spawn
    BY <1>3 DEF Spawn
  <1>4. CASE Collect
    <2>1. Head(results) \in Result /\ Tail(results) \in Seq(Result)
      BY <1>4 DEF Collect
    <2>2. Head(results).candidate \in Candidate
      BY <2>1 DEF Result
    <2> QED
      BY <1>4, <2>1, <2>2 DEF Collect, workerVars
  <1>5. CASE Return
    BY <1>5 DEF Return, workerVars
  <1>6. CASE FeederExit
    BY <1>6 DEF FeederExit, workerVars, callerVars
  <1>7. ASSUME NEW w \in Worker, WorkerStep(w) PROVE TypeInv'
    <2>1. CASE HandOver(w)
      BY <2>1 DEF HandOver, callerVars
    <2>2. CASE WorkerExit(w)
      BY <2>2 DEF WorkerExit, WorkerMoves, callerVars
    <2>3. CASE Verify(w)
      BY <2>3 DEF Verify, WorkerMoves, callerVars
    <2>4. CASE Send(w)
      <3>1. held[w] \in Candidate /\ verdict[w] \in BOOLEAN
        BY <2>4 DEF Send, WorkerMoves, Candidate
      <3>2. [candidate |-> held[w], verified |-> verdict[w]] \in Result
        BY <3>1 DEF Result
      <3> QED
        BY <2>4, <3>2 DEF Send, WorkerMoves, callerVars
    <2>5. CASE Drop(w)
      BY <2>5 DEF Drop, WorkerMoves, callerVars
    <2> QED
      BY <1>7, <2>1, <2>2, <2>3, <2>4, <2>5 DEF WorkerStep
  <1>8. CASE CloseResults
    BY <1>8 DEF CloseResults, workerVars, callerVars
  <1>9. CASE UNCHANGED vars
    BY <1>9 DEF vars
  <1> QED
    BY <1>1, <1>2, <1>3, <1>4, <1>5, <1>6, <1>7, <1>8, <1>9
    DEF Next, CallerStep, Terminated

(* Every state of the pool is well typed, for batches and pools of any     *)
(* size; the feeder's index stays within the slice (find.go:234-243).      *)
THEOREM TypeCorrect == Spec => []TypeOK
  <1>1. TypeInv => TypeOK
    BY DEF TypeInv
  <1> QED
    BY <1>1, InitType, NextType, PTL DEF Spec

-----------------------------------------------------------------------------
LEMMA InitPool == Init => PoolInv
  <1> SUFFICES ASSUME Init PROVE PoolInv
    OBVIOUS
  <1>1. TypeInv
    BY InitType
  <1>2. Buffered = {}
    BY DEF Init, Buffered, CandidatesIn
  <1>3. EntryInv /\ StartedInv /\ ExitInv /\ ClosedInv
    BY DEF Init, EntryInv, StartedInv, ExitInv, ClosedInv
  <1>4. HeldInv /\ NothingLost /\ CompleteUnlessCancelled
    BY <1>2 DEF Init, HeldInv, NothingLost, CompleteUnlessCancelled, Busy
  <1> QED
    BY <1>1, <1>3, <1>4 DEF PoolInv

(* The steps that touch neither the workers nor the results. *)
LEMMA QuietSteps ==
    ASSUME PoolInv, TypeInv',
           Cancel \/ ReturnEmpty \/ FeederExit \/ CloseResults
    PROVE  PoolInv'
  <1> USE Domains DEF PoolInv, TypeInv, TypeOK, Busy, Resting, Buffered,
          EntryInv, StartedInv, ExitInv, HeldInv, ClosedInv, NothingLost,
          CompleteUnlessCancelled
  <1>1. CASE Cancel
    BY <1>1 DEF Cancel, workerVars, callerVars
  <1>2. CASE ReturnEmpty
    BY <1>2 DEF ReturnEmpty, workerVars
  <1>3. CASE FeederExit
    BY <1>3 DEF FeederExit, workerVars, callerVars
  <1>4. CASE CloseResults
    BY <1>4 DEF CloseResults, workerVars, callerVars
  <1> QED
    BY <1>1, <1>2, <1>3, <1>4

LEMMA SpawnStep ==
    ASSUME PoolInv, TypeInv', Spawn
    PROVE  PoolInv'
  <1> USE Domains DEF PoolInv, TypeInv, TypeOK, Busy, Buffered, EntryInv, Spawn
  <1>1. \A w \in Worker : worker'[w] = IF w <= total THEN "idle" ELSE "unborn"
    BY DEF Spawned
  <1>2. EntryInv' /\ StartedInv' /\ ExitInv' /\ ClosedInv'
    BY <1>1 DEF StartedInv, ExitInv, ClosedInv, Worker
  <1>3. HeldInv' /\ NothingLost' /\ CompleteUnlessCancelled'
    BY <1>1 DEF HeldInv, NothingLost, CompleteUnlessCancelled
  <1> QED
    BY <1>2, <1>3

(* A hand-over, an exit, the end of a verification, a lost result. *)
LEMMA WorkerSteps ==
    ASSUME PoolInv, TypeInv', NEW w \in Worker,
           HandOver(w) \/ WorkerExit(w) \/ Verify(w) \/ Drop(w)
    PROVE  PoolInv'
  <1> USE Domains DEF PoolInv, TypeInv, TypeOK, Busy, Resting, Buffered
  <1>1. CASE HandOver(w)
    <2> USE <1>1 DEF HandOver, callerVars
    <2>1. EntryInv' /\ StartedInv' /\ ExitInv' /\ ClosedInv'
      BY DEF EntryInv, StartedInv, ExitInv, ClosedInv
    <2>2. HeldInv'
      BY DEF HeldInv
    <2>3. NothingLost'
      BY DEF NothingLost, HeldInv
    <2>4. CompleteUnlessCancelled'
      BY DEF CompleteUnlessCancelled
    <2> QED
      BY <2>1, <2>2, <2>3, <2>4
  <1>2. CASE WorkerExit(w)
    BY <1>2 DEF WorkerExit, WorkerMoves, callerVars, EntryInv, StartedInv,
       ExitInv, HeldInv, ClosedInv, NothingLost, CompleteUnlessCancelled
  <1>3. CASE Verify(w)
    BY <1>3 DEF Verify, WorkerMoves, callerVars, EntryInv, StartedInv,
       ExitInv, HeldInv, ClosedInv, NothingLost, CompleteUnlessCancelled
  <1>4. CASE Drop(w)
    BY <1>4 DEF Drop, WorkerMoves, callerVars, EntryInv, StartedInv,
       ExitInv, HeldInv, ClosedInv, NothingLost, CompleteUnlessCancelled
  <1> QED
    BY <1>1, <1>2, <1>3, <1>4

(* A send moves the candidate of the worker to the buffer. *)
LEMMA SendStep ==
    ASSUME PoolInv, TypeInv', NEW w \in Worker, Send(w)
    PROVE  PoolInv'
  <1> DEFINE r == [candidate |-> held[w], verified |-> verdict[w]]
  <1> USE Domains DEF PoolInv, TypeInv, TypeOK, Busy, Resting, Send,
          WorkerMoves, callerVars
  <1>1. held[w] \in 1..(next - 1) /\ r \in Result
    BY DEF HeldInv, Result, Candidate
  <1>2. Buffered' = Buffered \union {held[w]}
    BY <1>1, CandidatesInAppend DEF Buffered
  <1>3. EntryInv' /\ StartedInv' /\ ExitInv' /\ ClosedInv'
    BY DEF EntryInv, StartedInv, ExitInv, ClosedInv
  <1>4. HeldInv'
    BY <1>1, <1>2 DEF HeldInv
  <1>5. NothingLost'
    BY <1>2 DEF NothingLost
  <1>6. CompleteUnlessCancelled'
    BY DEF CompleteUnlessCancelled
  <1> QED
    BY <1>3, <1>4, <1>5, <1>6

(* A receive moves the candidate at the head of the buffer to the caller. *)
LEMMA CollectStep ==
    ASSUME PoolInv, TypeInv', Collect
    PROVE  PoolInv'
  <1> USE DEF PoolInv, TypeInv, TypeOK, Busy, Resting, Collect, workerVars
  <1>1. Buffered = {Head(results).candidate} \union Buffered'
    BY CandidatesInTail DEF Buffered
  <1>2. EntryInv' /\ StartedInv' /\ ExitInv' /\ ClosedInv'
    BY DEF EntryInv, StartedInv, ExitInv, ClosedInv
  <1>3. HeldInv'
    BY <1>1 DEF HeldInv
  <1>4. NothingLost'
    BY <1>1 DEF NothingLost
  <1>5. CompleteUnlessCancelled'
    BY DEF CompleteUnlessCancelled
  <1> QED
    BY <1>2, <1>3, <1>4, <1>5

(* The buffer is empty and closed: with a live context every worker, and   *)
(* so the feeder, ran to its end, and nothing is left but the counted.     *)
LEMMA ReturnStep ==
    ASSUME PoolInv, TypeInv', Return
    PROVE  PoolInv'
  <1> USE Domains DEF PoolInv, TypeInv, TypeOK, Busy, Resting, Return, workerVars
  <1>1. EntryInv' /\ StartedInv' /\ ExitInv' /\ ClosedInv'
    BY DEF EntryInv, StartedInv, ExitInv, ClosedInv
  <1>2. Buffered' = Buffered /\ Buffered = {}
    BY DEF Buffered, CandidatesIn
  <1>3. HeldInv' /\ NothingLost'
    BY <1>2 DEF HeldInv, NothingLost
  <1>4. CompleteUnlessCancelled'
    <2> SUFFICES ASSUME ~ctxErr PROVE reported = 1..total
      BY DEF CompleteUnlessCancelled
    <2>1. \A v \in Worker : worker[v] \in {"unborn", "exited"}
      BY DEF ClosedInv
    <2>2. worker[1] = "exited"
      BY <2>1 DEF StartedInv
    <2>3. next = total + 1
      BY <2>2 DEF ExitInv
    <2>4. \A c \in 1..total : c \in reported
      BY <1>2, <2>1, <2>3 DEF NothingLost
    <2>5. \A c \in reported : c \in 1..total
      <3>1. next - 1 = total
        BY <2>3
      <3> QED
        BY <3>1 DEF HeldInv
    <2> QED
      BY <2>4, <2>5
  <1> QED
    BY <1>1, <1>3, <1>4

LEMMA NextPool == PoolInv /\ [Next]_vars => PoolInv'
  <1> SUFFICES ASSUME PoolInv, [Next]_vars PROVE PoolInv'
    OBVIOUS
  <1>1. TypeInv'
    BY NextType DEF PoolInv
  <1>2. CASE UNCHANGED vars
    BY <1>1, <1>2 DEF vars, PoolInv, Busy, Resting, Buffered, EntryInv,
       StartedInv, ExitInv, HeldInv, ClosedInv, NothingLost,
       CompleteUnlessCancelled
  <1>3. CASE Cancel \/ ReturnEmpty \/ FeederExit \/ CloseResults
    BY <1>1, <1>3, QuietSteps
  <1>4. CASE Spawn \/ Collect \/ Return
    BY <1>1, <1>4, SpawnStep, CollectStep, ReturnStep
  <1>5. ASSUME NEW w \in Worker, WorkerStep(w) PROVE PoolInv'
    BY <1>1, <1>5, WorkerSteps, SendStep DEF WorkerStep
  <1> QED
    BY <1>2, <1>3, <1>4, <1>5 DEF Next, CallerStep, Terminated

LEMMA PoolInvariant == Spec => []PoolInv
  BY InitPool, NextPool, PTL DEF Spec

(* Whatever the sizes and the interleaving, verifyMany returns a nil error *)
(* only when it has counted a verdict for every candidate (find.go:268).   *)
THEOREM Completeness == Spec => []CompleteUnlessCancelled
  <1>1. PoolInv => CompleteUnlessCancelled
    BY DEF PoolInv
  <1> QED
    BY <1>1, PoolInvariant, PTL

(* No worker ever sends on the closed results channel (find.go:244-247).   *)
THEOREM NoPanic == Spec => []NoSendAfterClose
  <1>1. PoolInv => NoSendAfterClose
    BY DEF PoolInv, ClosedInv, NoSendAfterClose
  <1> QED
    BY <1>1, PoolInvariant, PTL

(* While the context lives no candidate and no verdict gets lost on its    *)
(* way through the two channels (find.go:212-243).                         *)
THEOREM LossOnlyByCancel == Spec => []NothingLost
  <1>1. PoolInv => NothingLost
    BY DEF PoolInv
  <1> QED
    BY <1>1, PoolInvariant, PTL

-----------------------------------------------------------------------------
(***************************************************************************)
(* No candidate is checked or counted twice. CheckedOnce is inductive      *)
(* beside PoolInv, whose HeldInv says that the next candidate of the       *)
(* feeder has not been seen anywhere yet.                                  *)
(***************************************************************************)
OnceInv == PoolInv /\ CheckedOnce

Distinct(s) == \A i, k \in DOMAIN s : s[i].candidate = s[k].candidate => i = k

LEMMA DistinctAppend ==
    ASSUME NEW s \in Seq(Result), NEW r \in Result, Distinct(s),
           r.candidate \notin CandidatesIn(s)
    PROVE  Distinct(Append(s, r))
  <1>1. DOMAIN Append(s, r) = (DOMAIN s) \union {Len(s) + 1}
    OBVIOUS
  <1>2. \A i \in DOMAIN s : Append(s, r)[i] = s[i]
    OBVIOUS
  <1>3. Append(s, r)[Len(s) + 1] = r
    OBVIOUS
  <1>4. \A i \in DOMAIN s : s[i].candidate # r.candidate
    BY DEF CandidatesIn
  <1> QED
    BY <1>1, <1>2, <1>3, <1>4 DEF Distinct

LEMMA DistinctTail ==
    ASSUME NEW s \in Seq(Result), s # <<>>, Distinct(s)
    PROVE  /\ Distinct(Tail(s))
           /\ Head(s).candidate \notin CandidatesIn(Tail(s))
  <1>1. /\ Len(s) \in Nat \ {0}
        /\ DOMAIN s = 1..Len(s)
        /\ DOMAIN Tail(s) = 1..(Len(s) - 1)
    OBVIOUS
  <1>2. Head(s) = s[1] /\ \A i \in 1..(Len(s) - 1) : Tail(s)[i] = s[i + 1]
    OBVIOUS
  <1>3. \A i \in DOMAIN Tail(s) :
            i \in Nat /\ i # 0 /\ i + 1 \in DOMAIN s /\ Tail(s)[i] = s[i + 1]
    BY <1>1, <1>2
  <1>4. Distinct(Tail(s))
    <2> SUFFICES ASSUME NEW i \in DOMAIN Tail(s), NEW k \in DOMAIN Tail(s),
                        Tail(s)[i].candidate = Tail(s)[k].candidate
                 PROVE  i = k
      BY DEF Distinct
    <2>1. i + 1 = k + 1
      BY <1>3 DEF Distinct
    <2> QED
      BY <2>1, <1>3
  <1>5. Head(s).candidate \notin CandidatesIn(Tail(s))
    <2> SUFFICES ASSUME NEW i \in DOMAIN Tail(s),
                        Tail(s)[i].candidate = Head(s).candidate
                 PROVE  FALSE
      BY DEF CandidatesIn
    <2>1. 1 \in DOMAIN s
      BY <1>1
    <2>2. i + 1 = 1
      BY <1>2, <1>3, <2>1 DEF Distinct
    <2> QED
      BY <2>2, <1>3
  <1> QED
    BY <1>4, <1>5

(* The caller counts finitely many candidates. *)
LEMMA ReportedFinite == TypeOK => IsFiniteSet(reported)
  <1>1. IsFiniteSet(Candidate)
    BY Domains, FS_Interval DEF Candidate
  <1> QED
    BY <1>1, FS_Subset DEF TypeOK

LEMMA OnceDef ==
    CheckedOnce <=>
      /\ checked = Cardinality(reported)
      /\ \A v, w \in Worker : Busy(v) /\ Busy(w) /\ held[v] = held[w] => v = w
      /\ \A w \in Worker : Busy(w) => held[w] \notin reported \union Buffered
      /\ Buffered \intersect reported = {}
      /\ Distinct(results)
  BY DEF CheckedOnce, Distinct

LEMMA InitOnce == Init => CheckedOnce
  <1> SUFFICES ASSUME Init PROVE CheckedOnce
    OBVIOUS
  <1>1. Cardinality(reported) = 0
    BY FS_EmptySet DEF Init
  <1> QED
    BY <1>1 DEF Init, CheckedOnce, Busy, Buffered, CandidatesIn

(* What holds of the pieces of CheckedOnce is kept by every step that      *)
(* leaves results and the counted alone and makes no worker busy.          *)
LEMMA OnceKept ==
    ASSUME CheckedOnce,
           UNCHANGED <<results, checked, reported>>,
           \A w \in Worker : Busy(w)' => Busy(w) /\ held'[w] = held[w]
    PROVE  CheckedOnce'
  BY DEF CheckedOnce, Buffered, CandidatesIn

LEMMA HandOverOnce ==
    ASSUME PoolInv, CheckedOnce, NEW w \in Worker, HandOver(w)
    PROVE  CheckedOnce'
  <1> USE Domains DEF PoolInv, TypeInv, TypeOK, HandOver, callerVars, Busy
  <1>1. /\ \A v \in Worker : Busy(v) => held[v] # next
        /\ next \notin Buffered
        /\ next \notin reported
    BY DEF HeldInv
  <1>2. /\ held' = [held EXCEPT ![w] = next]
        /\ \A v \in Worker : Busy(v)' => v = w \/ Busy(v)
        /\ Buffered' = Buffered
    BY DEF Buffered, CandidatesIn
  <1> QED
    BY <1>1, <1>2, OnceDef DEF CheckedOnce

LEMMA SendOnce ==
    ASSUME PoolInv, CheckedOnce, NEW w \in Worker, Send(w)
    PROVE  CheckedOnce'
  <1> DEFINE r == [candidate |-> held[w], verified |-> verdict[w]]
  <1> USE Domains DEF PoolInv, TypeInv, TypeOK, Send, WorkerMoves, callerVars,
          Busy
  <1>1. r \in Result /\ Busy(w)
    BY DEF Result, Candidate
  <1>2. Buffered' = Buffered \union {held[w]}
    BY <1>1, CandidatesInAppend DEF Buffered
  <1>3. held[w] \notin Buffered /\ held[w] \notin reported
    BY <1>1 DEF CheckedOnce
  <1>4. Distinct(results)
    BY OnceDef
  <1>5. Distinct(results)'
    <2>1. Distinct(Append(results, r))
      BY <1>1, <1>3, <1>4, DistinctAppend DEF Buffered
    <2> QED
      BY <2>1 DEF Distinct
  <1>6. \A v \in Worker : Busy(v)' => v # w /\ Busy(v) /\ held'[v] = held[v]
    OBVIOUS
  <1>7. \A v \in Worker : Busy(v)' => held'[v] # held[w]
    BY <1>1, <1>6 DEF CheckedOnce
  <1> QED
    BY <1>2, <1>3, <1>5, <1>6, <1>7 DEF CheckedOnce, Distinct

LEMMA CollectOnce ==
    ASSUME PoolInv, CheckedOnce, Collect
    PROVE  CheckedOnce'
  <1> DEFINE c == Head(results).candidate
  <1> USE DEF PoolInv, TypeInv, TypeOK, Collect, workerVars, Busy
  <1>1. Buffered = {c} \union Buffered'
    BY CandidatesInTail DEF Buffered
  <1>2. Distinct(results)
    BY OnceDef
  <1>3. Distinct(Tail(results)) /\ c \notin Buffered'
    BY <1>2, DistinctTail DEF Buffered
  <1>4. Distinct(results)'
    BY <1>3 DEF Distinct
  <1>5. c \notin reported /\ c \in Buffered
    BY <1>1 DEF CheckedOnce
  <1>6. Cardinality(reported') = Cardinality(reported) + 1
    BY <1>5, ReportedFinite, FS_AddElement
  <1>7. checked' = Cardinality(reported')
    BY <1>6 DEF CheckedOnce
  <1>8. \A w \in Worker : Busy(w)' => held[w] \notin reported' \union Buffered'
    BY <1>1, <1>5 DEF CheckedOnce
  <1>9. Buffered' \intersect reported' = {}
    BY <1>1, <1>3 DEF CheckedOnce
  <1> QED
    BY <1>4, <1>7, <1>8, <1>9 DEF CheckedOnce, Distinct

LEMMA NextOnce == PoolInv /\ CheckedOnce /\ [Next]_vars => CheckedOnce'
  <1> SUFFICES ASSUME PoolInv, CheckedOnce, [Next]_vars PROVE CheckedOnce'
    OBVIOUS
  <1>1. CASE Collect
    BY <1>1, CollectOnce
  <1>2. CASE UNCHANGED vars
    BY <1>2, OnceKept DEF vars, Busy
  <1>3. CASE Cancel \/ ReturnEmpty \/ Return \/ FeederExit \/ CloseResults
    BY <1>3, OnceKept DEF Cancel, ReturnEmpty, Return, FeederExit,
       CloseResults, workerVars, callerVars, Busy
  <1>4. CASE Spawn
    BY <1>4, OnceKept DEF Spawn, Busy
  <1>5. ASSUME NEW w \in Worker, WorkerStep(w) PROVE CheckedOnce'
    <2>1. CASE HandOver(w)
      BY <2>1, HandOverOnce
    <2>2. CASE Send(w)
      BY <2>2, SendOnce
    <2>3. CASE WorkerExit(w) \/ Verify(w) \/ Drop(w)
      BY <2>3, OnceKept DEF WorkerExit, Verify, Drop, WorkerMoves, callerVars,
         Busy, PoolInv, TypeInv, TypeOK
    <2> QED
      BY <1>5, <2>1, <2>2, <2>3 DEF WorkerStep
  <1> QED
    BY <1>1, <1>2, <1>3, <1>4, <1>5 DEF Next, CallerStep, Terminated

LEMMA OnceInvariant == Spec => []OnceInv
  <1>1. Init => OnceInv
    BY InitPool, InitOnce DEF OnceInv
  <1>2. OnceInv /\ [Next]_vars => OnceInv'
    BY NextPool, NextOnce DEF OnceInv
  <1> QED
    BY <1>1, <1>2, PTL DEF Spec

(* No candidate is verified by two workers or counted twice, and Checked   *)
(* is the number of candidates counted (find.go:223-231, 255).             *)
THEOREM Once == Spec => []CheckedOnce
  <1>1. OnceInv => CheckedOnce
    BY DEF OnceInv
  <1> QED
    BY <1>1, OnceInvariant, PTL

-----------------------------------------------------------------------------
LEMMA CountTo ==
    ASSUME NEW n \in Nat
    PROVE  IsFiniteSet(1..n) /\ Cardinality(1..n) = n
  <1>1. IsFiniteSet(1..n) /\ Cardinality(1..n) = IF 1 > n THEN 0 ELSE n - 1 + 1
    BY FS_Interval
  <1> QED
    BY <1>1

(* The buffer has a place for the result of every candidate: what is       *)
(* buffered and what the sender holds are different candidates of the      *)
(* batch, so there are at most total - 1 results when it sends.            *)
LEMMA RoomForResult == OnceInv => SendNeverBlocks
  <1> SUFFICES ASSUME OnceInv, NEW w \in Worker, worker[w] = "sending"
               PROVE  Len(results) < total
    BY DEF SendNeverBlocks, Capacity
  <1> USE DEF OnceInv, PoolInv, TypeInv, TypeOK
  <1> DEFINE T == (1..total) \ {held[w]}
             f == [i \in 1..Len(results) |-> results[i].candidate]
  <1>1. held[w] \in 1..total /\ Busy(w)
    BY DEF Busy
  <1>2. total \in Nat /\ IsFiniteSet(1..total) /\ Cardinality(1..total) = total
    BY Domains, CountTo
  <1>3. IsFiniteSet(T) /\ Cardinality(T) = total - 1
    <2>1. /\ IsFiniteSet((1..total) \ {held[w]})
          /\ held[w] \in 1..total =>
                Cardinality((1..total) \ {held[w]}) = Cardinality(1..total) - 1
      BY ONLY <1>2, FS_RemoveElement
    <2> QED
      BY <1>1, <1>2, <2>1
  <1>4. \A i \in 1..Len(results) : results[i].candidate \in T
    <2> SUFFICES ASSUME NEW i \in 1..Len(results)
                 PROVE  results[i].candidate \in T
      OBVIOUS
    <2>1. results[i].candidate \in Buffered
      BY DEF Buffered, CandidatesIn
    <2>2. results[i].candidate \in 1..(next - 1)
      BY <2>1 DEF HeldInv
    <2>3. results[i].candidate # held[w]
      BY <1>1, <2>1 DEF CheckedOnce
    <2> QED
      BY <2>2, <2>3, Domains
  <1>5. f \in Injection(1..Len(results), T)
    <2>1. Distinct(results)
      BY OnceDef
    <2>2. f \in [1..Len(results) -> T]
      BY <1>4
    <2>3. \A i, k \in 1..Len(results) : f[i] = f[k] => i = k
      BY <2>1 DEF Distinct
    <2> QED
      BY <2>2, <2>3 DEF Injection, IsInjective
  <1>6. Cardinality(1..Len(results)) <= Cardinality(T)
    BY <1>3, <1>5, FS_Injection
  <1>7. Len(results) \in Nat /\ Cardinality(1..Len(results)) = Len(results)
    <2>1. Len(results) \in Nat
      OBVIOUS
    <2> QED
      BY <2>1, CountTo
  <1> QED
    BY <1>2, <1>3, <1>6, <1>7

(* No worker ever waits for room in results, so none waits for the         *)
(* progress callback of the caller (find.go:209, 225-229).                 *)
THEOREM NoBackPressure == Spec => []SendNeverBlocks
  BY RoomForResult, OnceInvariant, PTL

-----------------------------------------------------------------------------
(***************************************************************************)
(* The pool implements VerifyBatch: a receive of the caller is a report,   *)
(* its return is the return of the batch, the rest is invisible.           *)
(***************************************************************************)
LEMMA RangeAppend ==
    ASSUME NEW S, NEW s \in Seq(S), NEW e \in S
    PROVE  Range(Append(s, e)) = Range(s) \union {e}
  <1>1. DOMAIN Append(s, e) = (DOMAIN s) \union {Len(s) + 1}
    OBVIOUS
  <1>2. \A i \in DOMAIN s : Append(s, e)[i] = s[i]
    OBVIOUS
  <1>3. Append(s, e)[Len(s) + 1] = e
    OBVIOUS
  <1> QED
    BY <1>1, <1>2, <1>3 DEF Range

LEMMA InitBatch == Init => Batch!BatchInit
  <1> SUFFICES ASSUME Init PROVE Batch!BatchInit
    OBVIOUS
  <1>1. Range(verified) = {}
    BY DEF Init, Range
  <1>2. 1..total \in SUBSET Candidate
    BY Domains DEF Init, Candidate
  <1> QED
    BY <1>1, <1>2 DEF Init, Batch!BatchInit

LEMMA CollectIsReport ==
    ASSUME OnceInv, Collect
    PROVE  Batch!ReportSome
  <1> DEFINE r == Head(results)
  <1> USE DEF OnceInv, PoolInv, TypeInv, TypeOK, Collect
  <1>1. r \in Result
    OBVIOUS
  <1>2. r.candidate \in Candidate /\ r.verified \in BOOLEAN
    BY <1>1 DEF Result
  <1>3. r.candidate \in Buffered
    BY CandidatesInTail DEF Buffered
  <1>4. r.candidate \in 1..total /\ r.candidate \notin reported
    <2>1. r.candidate \in 1..(next - 1)
      BY <1>3 DEF HeldInv
    <2>2. r.candidate \notin reported
      BY <1>3 DEF CheckedOnce
    <2> QED
      BY <2>1, <2>2, Domains
  <1>5. Range(verified') = IF r.verified THEN Range(verified) \union {r.candidate}
                           ELSE Range(verified)
    <2>1. verified \in Seq(Candidate)
      OBVIOUS
    <2>2. Range(Append(verified, r.candidate))
              = Range(verified) \union {r.candidate}
      BY <1>2, <2>1, RangeAppend
    <2> QED
      BY <2>2
  <1>6. Batch!Report(r.candidate, r.verified)
    BY <1>4, <1>5 DEF Batch!Report
  <1> QED
    BY <1>2, <1>6 DEF Batch!ReportSome

LEMMA ReturnIsReturn ==
    ASSUME OnceInv, OnceInv', ReturnEmpty \/ Return
    PROVE  Batch!ReturnBatch
  <1> USE DEF OnceInv, PoolInv
  <1>1. caller # "returned" /\ caller' = "returned" /\ err' = ctxErr
    BY DEF ReturnEmpty, Return
  <1>2. reported = 1..total \/ ctxErr
    BY <1>1 DEF ReturnEmpty, Return, CompleteUnlessCancelled
  <1>3. UNCHANGED <<total, reported, verified, ctxErr>>
    BY DEF ReturnEmpty, Return
  <1> QED
    BY <1>1, <1>2, <1>3 DEF Batch!ReturnBatch

LEMMA StepImplements ==
    ASSUME OnceInv, OnceInv', [Next]_vars
    PROVE  [Batch!BatchNext]_(Batch!batchVars)
  <1> USE DEF Batch!BatchNext, Batch!batchVars
  <1>1. CASE Cancel
    BY <1>1 DEF Cancel, callerVars, Batch!Cancel
  <1>2. CASE Collect
    BY <1>2, CollectIsReport
  <1>3. CASE ReturnEmpty \/ Return
    BY <1>3, ReturnIsReturn
  <1>4. CASE Spawn
    BY <1>4 DEF Spawn
  <1>5. CASE FeederExit \/ CloseResults
    BY <1>5 DEF FeederExit, CloseResults, callerVars
  <1>6. ASSUME NEW w \in Worker, WorkerStep(w)
        PROVE  UNCHANGED Batch!batchVars
    BY <1>6 DEF WorkerStep, HandOver, WorkerExit, Verify, Send, Drop, callerVars
  <1>7. CASE UNCHANGED vars
    BY <1>7 DEF vars
  <1> QED
    BY <1>1, <1>2, <1>3, <1>4, <1>5, <1>6, <1>7
    DEF Next, CallerStep, Terminated

(* verifyMany keeps the promise of VerifyBatch, for every number of        *)
(* candidates and workers (find.go:192-269); that it returns is checked by *)
(* TLC as ImplementsBatch.                                                 *)
THEOREM Refinement == Spec => Batch!BatchSafety
  BY InitBatch, StepImplements, OnceInvariant, PTL DEF Spec, Batch!BatchSafety
=============================================================================
