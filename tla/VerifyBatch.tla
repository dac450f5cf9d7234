---------------------------- MODULE VerifyBatch ----------------------------
(***************************************************************************)
(* What one call of finderConfig.verifyMany promises its caller            *)
(* (src/internal/proxy/find.go), with no goroutine and no channel in sight: *)
(* every candidate of the batch gets at most one verdict, the call returns *)
(* a nil error only when all of them have one, and it returns early only   *)
(* when the context has ended.                                             *)
(*                                                                         *)
(* VerifyPool implements this module; Resolver is built on top of it.      *)
(***************************************************************************)
EXTENDS Naturals, FiniteSets

CONSTANT Candidate          \* every endpoint a batch may hold

VARIABLES
    batch,                  \* the candidates of the current call
    reported,               \* those whose verdict the caller has counted
    passed,                 \* the reported ones that passed every check
    ctxErr,                 \* TRUE once ctx.Err() # nil
    outcome                 \* "running", or how the call returned

batchVars == <<batch, reported, passed, ctxErr, outcome>>

Outcome == {"running", "complete", "cancelled"}

BatchTypeOK ==
    /\ batch \in SUBSET Candidate
    /\ reported \in SUBSET batch
    /\ passed \in SUBSET reported
    /\ ctxErr \in BOOLEAN
    /\ outcome \in Outcome

BatchInit ==
    /\ batch \in SUBSET Candidate
    /\ reported = {}
    /\ passed = {}
    /\ ctxErr = FALSE
    /\ outcome = "running"

(* The deadline passes or the caller cancels. *)
Cancel ==
    /\ ~ctxErr
    /\ ctxErr' = TRUE
    /\ UNCHANGED <<batch, reported, passed, outcome>>

(* The caller counts the verdict of c, which it had not counted before. *)
Report(c, ok) ==
    /\ outcome = "running"
    /\ c \in batch \ reported
    /\ reported' = reported \union {c}
    /\ passed' = IF ok THEN passed \union {c} ELSE passed
    /\ UNCHANGED <<batch, ctxErr, outcome>>

(* The call returns. Only an ended context excuses a missing verdict. *)
ReturnBatch ==
    /\ outcome = "running"
    /\ reported = batch \/ ctxErr
    /\ outcome' = IF ctxErr THEN "cancelled" ELSE "complete"
    /\ UNCHANGED <<batch, reported, passed, ctxErr>>

ReportSome == \E c \in Candidate, ok \in BOOLEAN : Report(c, ok)

BatchNext == Cancel \/ ReportSome \/ ReturnBatch

BatchSafety == BatchInit /\ [][BatchNext]_batchVars

BatchSpec == BatchSafety /\ WF_batchVars(ReportSome \/ ReturnBatch)
=============================================================================
