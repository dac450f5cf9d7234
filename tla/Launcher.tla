------------------------------ MODULE Launcher ------------------------------
(***************************************************************************)
(* application.Runner.Run (src/internal/application/application.go), one   *)
(* activation of the launcher, on top of DiscordClient. The resolver is    *)
(* any value of the Resolver interface: what proxy.Resolver promises is in *)
(* module Resolver, and Run does not rely on it.                           *)
(***************************************************************************)
EXTENDS DiscordClient

CONSTANT MaxSelected        \* 3: more proxies than this are refused

ASSUME MaxSelectedAssumption == MaxSelected \in Nat \ {0}

VARIABLES
    pc,                     \* where Run stands
    checkOnly,              \* its argument
    cacheErr,               \* cache.Load failed
    found,                  \* how many proxies the resolver returned
    resolveErr,             \* and whether it returned an error with them
    saved,                  \* cache.Save has replaced the cache
    processErr,             \* the look of directOrPreserve failed
    mode, reason, failed,   \* what Run returns
    looks,                  \* history: the calls of RunningProcesses by Run
    elder                   \* history: the processes that ran when Run last
                            \* had Discord looked for

runVars == <<pc, checkOnly, cacheErr, found, resolveErr, saved, processErr,
             mode, reason, failed, looks, elder>>
lookVars == <<looks, elder>>
resultVars == <<mode, reason, failed>>
prepareVars == <<cacheErr, found, resolveErr, saved>>
restVars == <<prepareVars, processErr>>
vars == <<discordVars, runVars>>

Mode == {"none", "checked", "proxied", "direct", "already-running",
         "existing-untouched"}
Reason == {"none", "processes", "prepare", "bootstrap", "partial"}
Pc == {"entry", "entryLook", "paths", "load", "resolve", "select", "save",
       "recheckLook", "launch", "fallbackLook", "direct", "returned"}

Init ==
    /\ DiscordInit
    /\ pc = "entry"
    /\ checkOnly \in BOOLEAN
    /\ cacheErr = FALSE /\ found = 0 /\ resolveErr = FALSE /\ saved = FALSE
    /\ processErr = FALSE
    /\ mode = "none" /\ reason = "none" /\ failed = FALSE
    /\ looks = 0 /\ elder = {}

-----------------------------------------------------------------------------
Unchanged(rest) == UNCHANGED <<envVars, snap, child, starts, checkOnly, rest>>

(* Run calls RunningProcesses and goes on at "where" with its answer. *)
Look(where) ==
    /\ Call("look")
    /\ pc' = where
    /\ looks' = looks + 1
    /\ elder' = procs

Hears(where) == pc = where /\ at = "returned"
HangUp == at' = "idle" /\ UNCHANGED <<op, answer>>

ReturnMode(m, r) ==
    /\ pc' = "returned"
    /\ mode' = m
    /\ reason' = r
    /\ UNCHANGED failed

ReturnError ==
    /\ pc' = "returned"
    /\ failed' = TRUE
    /\ UNCHANGED <<mode, reason>>

(* directOrPreserve(ctx, cause) *)
FallBack(cause) ==
    /\ Look("fallbackLook")
    /\ reason' = cause
    /\ UNCHANGED <<mode, failed>>

Begin ==
    /\ pc = "entry"
    /\ IF checkOnly
       THEN pc' = "paths" /\ UNCHANGED <<op, at, answer, lookVars>>
       ELSE Look("entryLook")
    /\ Unchanged(<<restVars, resultVars>>)

(* The answer of a look at the start, and of the recheck after discovery.  *)
LookFailsAgain(where) ==    \* mutant: a failed look is repeated
    /\ Hears(where) /\ answer = "failed"
    /\ Look(where)
    /\ Unchanged(<<restVars, resultVars>>)

LookFails(where) ==
    /\ Hears(where) /\ answer = "failed"
    /\ FallBack("processes")
    /\ Unchanged(restVars)

LookFinds(where) ==
    /\ Hears(where) /\ answer = "running"
    /\ HangUp
    /\ ReturnMode("already-running", "none")
    /\ Unchanged(<<restVars, lookVars>>)

EntryClear ==
    /\ Hears("entryLook") /\ answer = "empty"
    /\ HangUp
    /\ pc' = "paths"
    /\ Unchanged(<<restVars, resultVars, lookVars>>)

LaunchIfClear ==
    /\ Hears("recheckLook") /\ answer = "empty"
    /\ Call("proxy")
    /\ elder' = procs       \* LaunchWithProxy looks again before it starts
    /\ pc' = "launch"
    /\ Unchanged(<<restVars, resultVars, looks>>)

-----------------------------------------------------------------------------
(* prepare. Its errors end a check, and make an activation fall back.      *)
PrepareFailsAnyhow ==       \* mutant: a check falls back as well
    FallBack("prepare")

PrepareFails ==
    IF checkOnly
    THEN ReturnError /\ UNCHANGED <<op, at, answer, lookVars>>
    ELSE FallBack("prepare")

PathsFail ==
    /\ pc = "paths"
    /\ PrepareFails
    /\ Unchanged(restVars)

PathsReady ==
    /\ pc = "paths"
    /\ pc' = "load"
    /\ UNCHANGED <<op, at, answer, lookVars>>
    /\ Unchanged(<<restVars, resultVars>>)

(* cache.Load: its error is logged and the cache taken for empty. *)
LoadCache ==
    /\ pc = "load"
    /\ cacheErr' \in BOOLEAN
    /\ pc' = "resolve"
    /\ UNCHANGED <<op, at, answer, lookVars, found, resolveErr, saved>>
    /\ Unchanged(<<resultVars, processErr>>)

(* Resolver.Resolve under the discovery timeout. *)
Resolve ==
    /\ pc = "resolve"
    /\ found' \in 0..(MaxSelected + 1)
    /\ resolveErr' \in BOOLEAN
    /\ pc' = "select"
    /\ UNCHANGED <<op, at, answer, lookVars, cacheErr, saved>>
    /\ Unchanged(<<resultVars, processErr>>)

(* The context has ended, or the result is empty, too long or not valid.   *)
SelectionRefused ==
    /\ pc = "select"
    /\ PrepareFails
    /\ Unchanged(restVars)

SelectionKept ==
    /\ pc = "select"
    /\ ~ctxErr /\ found \in 1..MaxSelected
    /\ pc' = "save"
    /\ UNCHANGED <<op, at, answer, lookVars>>
    /\ Unchanged(<<restVars, resultVars>>)

SaveFails ==
    /\ pc = "save"
    /\ PrepareFails
    /\ Unchanged(restVars)

Warning == IF resolveErr THEN "partial" ELSE "none"

SaveCache ==
    /\ pc = "save"
    /\ saved' = TRUE
    /\ IF checkOnly
       THEN ReturnMode("checked", Warning) /\ UNCHANGED <<op, at, answer, lookVars>>
       ELSE Look("recheckLook") /\ UNCHANGED resultVars
    /\ Unchanged(<<cacheErr, found, resolveErr, processErr>>)

-----------------------------------------------------------------------------
LaunchSucceeds ==
    /\ Hears("launch") /\ answer = "started"
    /\ HangUp
    /\ ReturnMode("proxied", Warning)
    /\ Unchanged(<<restVars, lookVars>>)

LaunchFailsForGood ==       \* mutant: a failed bootstrap ends the activation
    /\ Hears("launch") /\ answer = "failed"
    /\ HangUp
    /\ ReturnMode("direct", "bootstrap")
    /\ Unchanged(<<restVars, lookVars>>)

LaunchFails ==
    /\ Hears("launch") /\ answer = "failed"
    /\ FallBack("bootstrap")
    /\ Unchanged(restVars)

(* directOrPreserve: what runs is left alone; a failed look opens Discord. *)
Preserve ==
    /\ Hears("fallbackLook") /\ answer = "running"
    /\ HangUp
    /\ ReturnMode("existing-untouched", reason)
    /\ Unchanged(<<restVars, lookVars>>)

OpenAnyway ==               \* mutant: the look of the fallback is ignored
    /\ Hears("fallbackLook")
    /\ Call("direct")
    /\ processErr' = (answer = "failed")
    /\ pc' = "direct"
    /\ Unchanged(<<prepareVars, resultVars, lookVars>>)

OpenDirect ==
    /\ Hears("fallbackLook") /\ answer \in {"empty", "failed"}
    /\ Call("direct")
    /\ processErr' = (answer = "failed")
    /\ pc' = "direct"
    /\ Unchanged(<<prepareVars, resultVars, lookVars>>)

DirectOpened ==
    /\ Hears("direct") /\ answer = "started"
    /\ HangUp
    /\ ReturnMode("direct", reason)
    /\ Unchanged(<<restVars, lookVars>>)

DirectFails ==
    /\ Hears("direct") /\ answer = "failed"
    /\ HangUp
    /\ ReturnError
    /\ Unchanged(<<restVars, lookVars>>)

Terminated == pc = "returned" /\ UNCHANGED vars

RunStep ==
    \/ Begin
    \/ \E where \in {"entryLook", "recheckLook"} :
          LookFails(where) \/ LookFinds(where)
    \/ EntryClear \/ LaunchIfClear
    \/ PathsFail \/ PathsReady \/ LoadCache \/ Resolve
    \/ SelectionRefused \/ SelectionKept \/ SaveFails \/ SaveCache
    \/ LaunchSucceeds \/ LaunchFails
    \/ Preserve \/ OpenDirect \/ DirectOpened \/ DirectFails

CallStep == ClientStep /\ UNCHANGED runVars

Next ==
    \/ RunStep
    \/ CallStep
    \/ EnvStep /\ UNCHANGED runVars
    \/ Terminated

(***************************************************************************)
(* Run is one goroutine: it goes on as long as it can. The timer fires. A  *)
(* select picks at random among its ready cases, so a timer that has fired *)
(* is not passed over by the ticker for ever: strong fairness.             *)
(***************************************************************************)
Spec == Init /\ [][Next]_vars
FairSpec ==
    /\ Spec
    /\ WF_vars(RunStep \/ CallStep)
    /\ WF_vars(TimerFires /\ UNCHANGED runVars)
    /\ SF_vars(SelectTimer /\ UNCHANGED runVars)

-----------------------------------------------------------------------------
(* Every variable keeps to its domain; Run looks for Discord three times   *)
(* at most (application.go:97, 116, 214).                                  *)
TypeOK ==
    /\ DiscordTypeOK
    /\ pc \in Pc
    /\ checkOnly \in BOOLEAN
    /\ cacheErr \in BOOLEAN
    /\ found \in 0..(MaxSelected + 1)
    /\ resolveErr \in BOOLEAN
    /\ saved \in BOOLEAN
    /\ processErr \in BOOLEAN
    /\ mode \in Mode
    /\ reason \in Reason
    /\ failed \in BOOLEAN
    /\ looks \in 0..3
    /\ elder \in SUBSET Pid

(* "Proxied" is only said of an activation that saved its selection and    *)
(* started Discord once, with the route and nothing else, in a process     *)
(* that outlived the bootstrap window, however its end and the timer fall  *)
(* together; "checked" only of a saved selection (application.go:81, 136,  *)
(* 206-210, launch_windows.go:143-165).                                    *)
ProxiedIsEarned ==
    /\ mode = "proxied" =>
           saved /\ starts = <<"proxied">> /\ child # NoPid /\ survived
    /\ mode = "checked" => saved /\ starts = <<>>

(* No failure before the last leaves the user without Discord: Run returns *)
(* an error only when the direct opening itself failed, and otherwise it   *)
(* opened what its mode says or its last look saw a Discord that ran. That *)
(* holds whatever failed: the network, the cache, the process list, the    *)
(* bootstrap (application.go:97-135, 213-228).                             *)
NoDeadEnd ==
    pc = "returned" /\ ~checkOnly =>
        /\ failed => op = "direct" /\ answer = "failed"
        /\ mode \in {"proxied", "direct"} =>
               starts # <<>> /\ starts[Len(starts)] = mode
        /\ mode \in {"already-running", "existing-untouched"} =>
               op = "look" /\ answer = "running"
        /\ failed \/ mode # "none"

(* In checkOnly mode Discord is neither inspected nor started, on any path *)
(* (application.go:74-75).                                                 *)
CheckNeverTouchesDiscord ==
    checkOnly => looks = 0 /\ starts = <<>> /\ op = "none"

(* Run never opens a Discord beside one that ran when it last had Discord  *)
(* looked for and that still runs, unless that last look failed: however   *)
(* processes come and go between a look, its queries and the start, a      *)
(* Discord that was there is found (application.go:114-130, 213-223,       *)
(* launch_windows.go:33-34, 53-63).                                        *)
OpensBesideNoElder ==
    [][Len(starts') > Len(starts)
           => elder \intersect procs = {} \/ processErr]_vars

(* The direct fallback is not opened beside the proxied process of the     *)
(* same activation, unless that process could not be looked for: a second  *)
(* bootstrap with other flags needs a failed look (application.go:114-115, *)
(* 213-223).                                                               *)
NoSecondBootstrap ==
    [][Len(starts') > Len(starts) /\ child \in procs
           => processErr]_vars

(* Every activation ends: a child that neither ends nor settles cannot     *)
(* hold the launcher beyond the bootstrap window (launch_windows.go:105).  *)
RunEnds == <>(pc = "returned")

-----------------------------------------------------------------------------
(* "Discord já estava aberto e foi mantido intacto; o modo liberado não    *)
(* foi aplicado." (application.go:298): an untouched Discord runs without  *)
(* the route of this activation.                                           *)
UntouchedHasNoRoute ==
    mode = "existing-untouched" => \A p \in procs : origin[p] # "proxied"
=============================================================================
