--------------------------- MODULE DiscordClient ---------------------------
(***************************************************************************)
(* discord.Client on Windows (src/internal/discord): RunningProcesses,     *)
(* LaunchWithProxy and LaunchDirect, among Discord Stable processes that   *)
(* the user starts and that end whenever they like.                        *)
(*                                                                         *)
(* One call is under way at a time: Call starts it, "at" is where it       *)
(* stands, and at = "returned" hands its answer over. A pid is used once,  *)
(* so Pid bounds how many Discord processes a behaviour sees.              *)
(***************************************************************************)
EXTENDS Naturals, Sequences, FiniteSets

CONSTANTS
    Pid,                    \* bound: the processes of one behaviour
    CtxMayEnd               \* FALSE for main's context.Background()

NoPid == 0

ASSUME PidAssumption == Pid \subseteq Nat \ {NoPid}
ASSUME CtxMayEndAssumption == CtxMayEnd \in BOOLEAN

VARIABLES
    procs,                  \* the Discord Stable processes that run
    origin,                 \* who started each pid, "none" when unused
    updater,                \* Update.exe runs and has not started Discord yet
    ctxErr,                 \* ctx.Err() # nil
    timerFired,             \* the bootstrap timer has fired
    survived,               \* history: the child ran when it fired
    op,                     \* the call: "look", "proxy" or "direct"
    at,                     \* where the call stands
    snap,                   \* the processes its snapshot found
    child,                  \* the process LaunchWithProxy started
    answer,                 \* what the call returned
    starts                  \* history: what the launcher started, in order

envVars == <<procs, origin, updater, ctxErr, timerFired, survived>>
clientVars == <<op, at, snap, child, answer, starts>>
discordVars == <<envVars, clientVars>>

Op == {"none", "look", "proxy", "direct"}
Location == {"idle", "begin", "query", "start", "open", "poll", "select",
             "final", "returned"}
Answer == {"none", "empty", "running", "failed", "started"}
Origin == {"none", "user", "proxied", "direct"}

DiscordInit ==
    /\ procs \in {{}} \union {{p} : p \in Pid}
    /\ \A p \in procs, q \in Pid : p <= q
    /\ origin = [p \in Pid |-> IF p \in procs THEN "user" ELSE "none"]
    /\ updater = FALSE
    /\ ctxErr = FALSE
    /\ timerFired = FALSE /\ survived = FALSE
    /\ op = "none" /\ at = "idle"
    /\ snap = {} /\ child = NoPid
    /\ answer = "none"
    /\ starts = <<>>

-----------------------------------------------------------------------------
(* The environment. Pids are only ever compared for equality, so they may  *)
(* be handed out in order.                                                 *)
Spawn(p, who) ==
    /\ origin[p] = "none"
    /\ \A q \in Pid : q < p => origin[q] # "none"
    /\ procs' = procs \union {p}
    /\ origin' = [origin EXCEPT ![p] = who]

(* The user, or an autostart entry, opens Discord without the launcher. *)
UserStarts ==
    /\ \E p \in Pid : Spawn(p, "user")
    /\ UNCHANGED <<updater, ctxErr, timerFired, survived, clientVars>>

(* A Discord process ends: closed, crashed, or a second instance.  *)
Exits ==
    /\ \E p \in procs : procs' = procs \ {p}
    /\ UNCHANGED <<origin, updater, ctxErr, timerFired, survived, clientVars>>

(* Update.exe starts Discord.exe, or ends without it. *)
UpdaterEnds ==
    /\ updater
    /\ updater' = FALSE
    /\ \/ \E p \in Pid : Spawn(p, "direct")
       \/ UNCHANGED <<procs, origin>>
    /\ UNCHANGED <<ctxErr, timerFired, survived, clientVars>>

CtxEnds ==
    /\ CtxMayEnd /\ ~ctxErr
    /\ ctxErr' = TRUE
    /\ UNCHANGED <<procs, origin, updater, timerFired, survived, clientVars>>

TimerFires ==
    /\ at \in {"poll", "select"}
    /\ ~timerFired
    /\ timerFired' = TRUE
    /\ survived' = (child \in procs)
    /\ UNCHANGED <<procs, origin, updater, ctxErr, clientVars>>

EnvStep == UserStarts \/ Exits \/ UpdaterEnds \/ CtxEnds \/ TimerFires

-----------------------------------------------------------------------------
Call(o) ==
    /\ op' = o
    /\ at' = "begin"
    /\ answer' = "none"

Give(a) == at' = "returned" /\ answer' = a

(* LaunchWithProxy and LaunchDirect refuse an ended context. *)
RefuseEndedCtx ==
    /\ at = "begin" /\ op \in {"proxy", "direct"}
    /\ ctxErr
    /\ Give("failed")
    /\ UNCHANGED <<envVars, op, snap, child, starts>>

MayBegin == op = "look" \/ ~ctxErr

(* RunningProcesses: the snapshot, or the error of it or of the session.   *)
TrustRecheck ==             \* mutant: only RunningProcesses looks
    /\ at = "begin" /\ op \in {"look", "proxy"} /\ MayBegin
    /\ \/ op = "look" /\ snap' = procs /\ at' = "query" /\ UNCHANGED answer
       \/ op = "look" /\ Give("failed") /\ UNCHANGED snap
       \/ op = "proxy" /\ at' = "start" /\ UNCHANGED <<snap, answer>>
    /\ UNCHANGED <<envVars, op, child, starts>>

TakeSnapshot ==
    /\ at = "begin" /\ op \in {"look", "proxy"} /\ MayBegin
    /\ \/ snap' = procs /\ at' = "query" /\ UNCHANGED answer
       \/ Give("failed") /\ UNCHANGED snap
    /\ UNCHANGED <<envVars, op, child, starts>>

(* Each process of the snapshot is then queried: one that has gone is left *)
(* out, one that cannot be queried makes the whole look fail. One that     *)
(* goes meanwhile is found or not, as its own query came first or last.    *)
Looked == at = "query" /\ snap' = {} /\ UNCHANGED <<envVars, op, child, starts>>

QueryFails == Looked /\ snap # {} /\ Give("failed")

FoundSome ==
    /\ Looked
    /\ snap # {}
    /\ Give(IF op = "look" THEN "running" ELSE "failed")   \* ErrDiscordRunning

FoundNone ==
    /\ Looked
    /\ snap \intersect procs = {}
    /\ \/ op = "look" /\ Give("empty")
       \/ op = "proxy" /\ at' = "start" /\ UNCHANGED answer

(* exec.Command(DiscordExe, arguments...).Start() *)
StartProxied ==
    /\ at = "start"
    /\ \/ /\ \E p \in Pid : Spawn(p, "proxied") /\ child' = p
          /\ starts' = Append(starts, "proxied")
          /\ timerFired' = FALSE
          /\ at' = "open" /\ UNCHANGED answer
       \/ Give("failed")
          /\ UNCHANGED <<procs, origin, timerFired, child, starts>>
    /\ UNCHANGED <<updater, ctxErr, survived, op, snap>>

(* OpenProcess for the monitor; on failure the child is killed. *)
OpenChild ==
    /\ at = "open"
    /\ at' = "poll"
    /\ UNCHANGED <<envVars, op, snap, child, answer, starts>>

KillChild ==
    /\ at = "open"
    /\ procs' = procs \ {child}
    /\ Give("failed")
    /\ UNCHANGED <<origin, updater, ctxErr, timerFired, survived, op, snap,
                   child, starts>>

(* processExitState at the head of the loop: it fails, and the child is    *)
(* let go; or the child has ended; or it lives.                            *)
Poll ==
    /\ at = "poll"
    /\ \/ Give("failed")
       \/ child \in procs /\ at' = "select" /\ UNCHANGED answer
    /\ UNCHANGED <<envVars, op, snap, child, starts>>

(* The three cases of the select. *)
SelectCtx ==
    /\ at = "select" /\ ctxErr
    /\ Give("failed")
    /\ UNCHANGED <<envVars, op, snap, child, starts>>

SelectTick ==
    /\ at = "select"
    /\ at' = "poll"
    /\ UNCHANGED <<envVars, op, snap, child, answer, starts>>

SelectTimer ==
    /\ at = "select" /\ timerFired
    /\ at' = "final"
    /\ UNCHANGED <<envVars, op, snap, child, answer, starts>>

(* The check after the timer: success only for a child that still lives.   *)
FinalContinues ==           \* mutant: the timer case goes back to the loop
    /\ at = "final"
    /\ \/ child \in procs /\ at' = "poll" /\ UNCHANGED answer
       \/ child \notin procs /\ Give("failed")
    /\ UNCHANGED <<envVars, op, snap, child, starts>>

FinalTakesAny ==            \* mutant: no check after the timer
    /\ at = "final"
    /\ Give("started") \/ Give("failed")
    /\ UNCHANGED <<envVars, op, snap, child, starts>>

FinalCheck ==
    /\ at = "final"
    /\ \/ child \in procs /\ Give("started")
       \/ Give("failed")
    /\ UNCHANGED <<envVars, op, snap, child, starts>>

(* LaunchDirect: Update.exe when it is there, else Discord.exe; either may *)
(* fail to start, and releasing the handle may fail after the start.       *)
StartDirect ==
    /\ at = "begin" /\ op = "direct" /\ MayBegin
    /\ \/ /\ \/ updater' = TRUE /\ UNCHANGED <<procs, origin>>
             \/ (\E p \in Pid : Spawn(p, "direct")) /\ UNCHANGED updater
          /\ starts' = Append(starts, "direct")
          /\ Give("started") \/ Give("failed")
       \/ Give("failed") /\ UNCHANGED <<procs, origin, updater, starts>>
    /\ UNCHANGED <<ctxErr, timerFired, survived, op, snap, child>>

ClientStep ==
    \/ RefuseEndedCtx
    \/ TakeSnapshot \/ QueryFails \/ FoundSome \/ FoundNone
    \/ StartProxied \/ OpenChild \/ KillChild
    \/ Poll \/ SelectCtx \/ SelectTick \/ SelectTimer \/ FinalCheck
    \/ StartDirect

DiscordTypeOK ==
    /\ procs \in SUBSET Pid
    /\ origin \in [Pid -> Origin]
    /\ updater \in BOOLEAN
    /\ ctxErr \in BOOLEAN
    /\ timerFired \in BOOLEAN
    /\ survived \in BOOLEAN
    /\ op \in Op
    /\ at \in Location
    /\ snap \in SUBSET Pid
    /\ child \in Pid \union {NoPid}
    /\ answer \in Answer
    /\ starts \in Seq({"proxied", "direct"})
=============================================================================
