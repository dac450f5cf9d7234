--------------------------- MODULE LauncherProofs ---------------------------
(***************************************************************************)
(* Theorems about Launcher for any number of Discord processes that start  *)
(* and end at any moment, any context and any answer of the resolver.      *)
(***************************************************************************)
EXTENDS Launcher, TLAPS

Quiet == {"entry", "paths", "load", "resolve", "select", "save", "returned"}
Looking == {"entryLook", "recheckLook", "fallbackLook"}
BeforeLaunch ==
    {"entry", "entryLook", "paths", "load", "resolve", "select", "save",
     "recheckLook"}
Watching == {"open", "poll", "select", "final"}

(* Run waits exactly while a call is under way, and for the call it made.  *)
PlaceInv ==
    /\ at = "idle" <=> pc \in Quiet
    /\ pc \in Looking => op = "look" /\ at \in {"begin", "query", "returned"}
    /\ pc = "launch" => op = "proxy"
    /\ pc = "direct" => op = "direct" /\ at \in {"begin", "returned"}
    /\ at = "returned" =>
           answer \in IF op = "look" THEN {"empty", "running", "failed"}
                                     ELSE {"started", "failed"}
    /\ pc \in {"recheckLook", "launch"} => saved

(* What has been started, place by place.                                  *)
StartsInv ==
    /\ pc \in BeforeLaunch => child = NoPid /\ starts = <<>>
    /\ pc = "launch" =>
           /\ at \in {"begin", "query", "start"} =>
                  child = NoPid /\ starts = <<>>
           /\ at \in Watching => child # NoPid /\ starts = <<"proxied">>
           /\ at = "returned" => starts \in {<<>>, <<"proxied">>}
           /\ at = "returned" /\ answer = "started" =>
                  child # NoPid /\ starts = <<"proxied">> /\ survived
    /\ pc = "fallbackLook" \/ (pc = "direct" /\ at = "begin") =>
           starts \in {<<>>, <<"proxied">>}
    /\ pc = "direct" /\ at = "returned" /\ answer = "started" =>
           starts # <<>> /\ starts[Len(starts)] = "direct"

(* The child's pid is not used again, so a child that was dead when the    *)
(* timer fired, or when a look found nothing, stays dead.                  *)
ChildInv ==
    /\ child # NoPid => origin[child] # "none"
    /\ at \in Watching /\ timerFired /\ child \in procs => survived
    /\ at = "final" => timerFired
    /\ pc = "fallbackLook" /\ at = "query" /\ child \in procs => child \in snap
    /\ pc = "fallbackLook" /\ at = "returned" /\ answer = "empty" =>
           child \notin procs
    /\ pc = "direct" /\ at = "begin" /\ ~processErr => child \notin procs

(* A process that ran when Run asked either has gone or is in the snapshot *)
(* of the answer, because no pid is used again.                            *)
ElderInv ==
    /\ \A p \in procs \union elder : origin[p] # "none"
    /\ at = "query" => elder \intersect procs \subseteq snap
    /\ at = "start" => elder \intersect procs = {}
    /\ op = "look" /\ at = "returned" /\ answer = "empty" =>
           elder \intersect procs = {}
    /\ pc = "direct" /\ at = "begin" =>
           elder \intersect procs = {} \/ processErr

(* A check makes no call at all; each look has its place.                  *)
LooksInv ==
    /\ checkOnly => pc \in Quiet /\ op = "none" /\ looks = 0 /\ starts = <<>>
    /\ looks \in 0..3
    /\ pc = "entry" => looks = 0
    /\ pc \in BeforeLaunch \ {"recheckLook"} => looks \in 0..1
    /\ pc \in {"recheckLook", "launch"} => looks \in 0..2

EndInv ==
    /\ pc # "returned" => mode = "none" /\ ~failed
    /\ ProxiedIsEarned
    /\ NoDeadEnd

IInv ==
    /\ TypeOK /\ PlaceInv /\ StartsInv
    /\ ChildInv /\ ElderInv /\ LooksInv /\ EndInv

-----------------------------------------------------------------------------
(* The history of starts, as far as it grows in one activation.            *)
LEMMA OneStart ==
    /\ Append(<<>>, "proxied") = <<"proxied">>
    /\ <<"proxied">> # <<>> /\ <<"proxied">>[Len(<<"proxied">>)] = "proxied"
  <1>1. Append(<<>>, "proxied") = <<"proxied">>
    OBVIOUS
  <1>2. <<"proxied">> # <<>> /\ <<"proxied">>[Len(<<"proxied">>)] = "proxied"
    OBVIOUS
  <1> QED
    BY <1>1, <1>2

LEMMA MoreStarts ==
    ASSUME NEW s \in Seq({"proxied", "direct"}),
           NEW who \in {"proxied", "direct"}
    PROVE  /\ Append(s, who) \in Seq({"proxied", "direct"})
           /\ Append(s, who) # <<>>
           /\ Append(s, who)[Len(Append(s, who))] = who
  OBVIOUS

(* An error of prepare ends a check and makes an activation look again.    *)
LEMMA PrepareFailsTypes ==
    ASSUME IInv, pc \in {"paths", "select", "save"}, PrepareFails,
           Unchanged(restVars)
    PROVE  TypeOK'
  <1> USE DEF PrepareFails, Unchanged, ReturnError, FallBack, Look, Call,
              envVars, restVars, prepareVars, IInv, TypeOK, DiscordTypeOK,
              LooksInv, BeforeLaunch, Op, Location, Answer, Mode, Reason, Pc,
              lookVars
  <1>1. CASE checkOnly
    BY <1>1
  <1>2. CASE ~checkOnly
    <2>1. DiscordTypeOK'
      BY <1>2
    <2> QED
      BY <1>2, <2>1
  <1> QED
    BY <1>1, <1>2

LEMMA InitEstablishes == Init => IInv
  <1> SUFFICES ASSUME Init PROVE IInv
    OBVIOUS
  <1> USE DEF Init, DiscordInit
  <1>1. TypeOK
    <2>1. procs \in SUBSET Pid /\ origin \in [Pid -> Origin]
      BY DEF Origin
    <2>2. starts \in Seq({"proxied", "direct"}) /\ snap \in SUBSET Pid
      OBVIOUS
    <2>3. op \in Op /\ at \in Location /\ answer \in Answer
      BY DEF Op, Location, Answer
    <2>4. found \in 0..(MaxSelected + 1) /\ looks \in 0..3
      BY MaxSelectedAssumption
    <2>5. pc \in Pc /\ mode \in Mode /\ reason \in Reason
      BY DEF Pc, Mode, Reason
    <2> QED
      BY <2>1, <2>2, <2>3, <2>4, <2>5 DEF TypeOK, DiscordTypeOK
  <1>2. PlaceInv /\ StartsInv /\ ChildInv /\ ElderInv
    BY DEF PlaceInv, StartsInv, ChildInv, ElderInv, Quiet, Looking
  <1>3. LooksInv /\ EndInv
    BY DEF LooksInv, EndInv, ProxiedIsEarned, NoDeadEnd, Quiet
  <1> QED
    BY <1>1, <1>2, <1>3 DEF IInv

-----------------------------------------------------------------------------
(* The steps of Run. *)
LEMMA BeginKeeps ==
    ASSUME IInv, Begin
    PROVE  IInv'
  <1> USE DEF Begin, Look, Call, Unchanged, envVars, resultVars, restVars,
          prepareVars, lookVars
  <1>1. TypeOK'
    BY DEF IInv, TypeOK, DiscordTypeOK, LooksInv, Op, Location, Answer, Pc
  <1>2. PlaceInv'
    BY DEF IInv, PlaceInv, Quiet, Looking
  <1>3. StartsInv'
    BY DEF IInv, StartsInv, BeforeLaunch
  <1>4. ChildInv'
    BY DEF IInv, ChildInv, Watching
  <1>5. LooksInv'
    BY DEF IInv, LooksInv, Quiet
  <1>6. EndInv'
    BY DEF IInv, EndInv, ProxiedIsEarned, NoDeadEnd
  <1>7. ElderInv'
    BY DEF IInv, PlaceInv, ElderInv, Quiet, Looking
  <1> QED
    BY <1>1, <1>2, <1>3, <1>4, <1>5, <1>6, <1>7 DEF IInv

LEMMA EntryClearKeeps ==
    ASSUME IInv, EntryClear
    PROVE  IInv'
  <1> USE DEF EntryClear, Hears, HangUp, Unchanged, envVars, resultVars,
          restVars, prepareVars, lookVars
  <1>1. TypeOK'
    BY DEF IInv, TypeOK, DiscordTypeOK, Location, Pc
  <1>2. PlaceInv'
    BY DEF PlaceInv, Quiet, Looking
  <1>3. StartsInv'
    BY DEF IInv, StartsInv, BeforeLaunch
  <1>4. ChildInv'
    BY DEF IInv, ChildInv, Watching
  <1>5. LooksInv'
    BY DEF IInv, LooksInv, Quiet, BeforeLaunch
  <1>6. EndInv'
    BY DEF IInv, EndInv, ProxiedIsEarned, NoDeadEnd
  <1>7. ElderInv'
    BY DEF IInv, PlaceInv, ElderInv, Quiet, Looking
  <1> QED
    BY <1>1, <1>2, <1>3, <1>4, <1>5, <1>6, <1>7 DEF IInv

LEMMA LaunchIfClearKeeps ==
    ASSUME IInv, LaunchIfClear
    PROVE  IInv'
  <1> USE DEF LaunchIfClear, Call, Hears, Unchanged, envVars, resultVars,
          restVars, prepareVars, lookVars
  <1>1. TypeOK'
    BY DEF IInv, TypeOK, DiscordTypeOK, Op, Location, Answer, Pc
  <1>2. PlaceInv'
    BY DEF IInv, PlaceInv, Quiet, Looking
  <1>3. StartsInv'
    BY DEF IInv, StartsInv, BeforeLaunch, Watching
  <1>4. ChildInv'
    BY DEF IInv, ChildInv, Watching
  <1>5. LooksInv'
    BY DEF IInv, LooksInv, Quiet, BeforeLaunch
  <1>6. EndInv'
    BY DEF IInv, EndInv, ProxiedIsEarned, NoDeadEnd
  <1>7. ElderInv'
    BY DEF IInv, PlaceInv, ElderInv, Quiet, Looking
  <1> QED
    BY <1>1, <1>2, <1>3, <1>4, <1>5, <1>6, <1>7 DEF IInv

LEMMA PathsFailKeeps ==
    ASSUME IInv, PathsFail
    PROVE  IInv'
  <1> USE DEF PathsFail, PrepareFails, FallBack, Look, Call, ReturnError,
          Unchanged, envVars, restVars, prepareVars, lookVars
  <1>1. TypeOK'
    BY PrepareFailsTypes
  <1>2. PlaceInv'
    BY DEF IInv, PlaceInv, Quiet, Looking
  <1>3. StartsInv'
    BY DEF IInv, StartsInv, BeforeLaunch
  <1>4. ChildInv'
    BY DEF IInv, ChildInv, Watching
  <1>5. LooksInv'
    BY DEF IInv, LooksInv, Quiet, BeforeLaunch
  <1>6. EndInv'
    BY DEF IInv, EndInv, ProxiedIsEarned, NoDeadEnd
  <1>7. ElderInv'
    BY DEF IInv, PlaceInv, ElderInv, Quiet, Looking
  <1> QED
    BY <1>1, <1>2, <1>3, <1>4, <1>5, <1>6, <1>7 DEF IInv

LEMMA PathsReadyKeeps ==
    ASSUME IInv, PathsReady
    PROVE  IInv'
  <1> USE DEF PathsReady, Unchanged, envVars, resultVars, restVars,
          prepareVars, lookVars
  <1>1. TypeOK'
    BY DEF IInv, TypeOK, DiscordTypeOK, Pc
  <1>2. PlaceInv'
    BY DEF IInv, PlaceInv, Quiet, Looking
  <1>3. StartsInv'
    BY DEF IInv, StartsInv, BeforeLaunch
  <1>4. ChildInv'
    BY DEF IInv, ChildInv
  <1>5. LooksInv'
    BY DEF IInv, LooksInv, Quiet, BeforeLaunch
  <1>6. EndInv'
    BY DEF IInv, EndInv, ProxiedIsEarned, NoDeadEnd
  <1>7. ElderInv'
    BY DEF IInv, PlaceInv, ElderInv, Quiet, Looking
  <1> QED
    BY <1>1, <1>2, <1>3, <1>4, <1>5, <1>6, <1>7 DEF IInv

LEMMA LoadCacheKeeps ==
    ASSUME IInv, LoadCache
    PROVE  IInv'
  <1> USE DEF LoadCache, Unchanged, envVars, resultVars, lookVars
  <1>1. TypeOK'
    BY DEF IInv, TypeOK, DiscordTypeOK, Pc
  <1>2. PlaceInv'
    BY DEF IInv, PlaceInv, Quiet, Looking
  <1>3. StartsInv'
    BY DEF IInv, StartsInv, BeforeLaunch
  <1>4. ChildInv'
    BY DEF IInv, ChildInv
  <1>5. LooksInv'
    BY DEF IInv, LooksInv, Quiet, BeforeLaunch
  <1>6. EndInv'
    BY DEF IInv, EndInv, ProxiedIsEarned, NoDeadEnd
  <1>7. ElderInv'
    BY DEF IInv, PlaceInv, ElderInv, Quiet, Looking
  <1> QED
    BY <1>1, <1>2, <1>3, <1>4, <1>5, <1>6, <1>7 DEF IInv

LEMMA ResolveKeeps ==
    ASSUME IInv, Resolve
    PROVE  IInv'
  <1> USE DEF Resolve, Unchanged, envVars, resultVars, lookVars
  <1>1. TypeOK'
    BY DEF IInv, TypeOK, DiscordTypeOK, Pc
  <1>2. PlaceInv'
    BY DEF IInv, PlaceInv, Quiet, Looking
  <1>3. StartsInv'
    BY DEF IInv, StartsInv, BeforeLaunch
  <1>4. ChildInv'
    BY DEF IInv, ChildInv
  <1>5. LooksInv'
    BY DEF IInv, LooksInv, Quiet, BeforeLaunch
  <1>6. EndInv'
    BY DEF IInv, EndInv, ProxiedIsEarned, NoDeadEnd
  <1>7. ElderInv'
    BY DEF IInv, PlaceInv, ElderInv, Quiet, Looking
  <1> QED
    BY <1>1, <1>2, <1>3, <1>4, <1>5, <1>6, <1>7 DEF IInv

LEMMA SelectionRefusedKeeps ==
    ASSUME IInv, SelectionRefused
    PROVE  IInv'
  <1> USE DEF SelectionRefused, PrepareFails, FallBack, Look, Call,
          ReturnError, Unchanged, envVars, restVars, prepareVars, lookVars
  <1>1. TypeOK'
    BY PrepareFailsTypes
  <1>2. PlaceInv'
    BY DEF IInv, PlaceInv, Quiet, Looking
  <1>3. StartsInv'
    BY DEF IInv, StartsInv, BeforeLaunch
  <1>4. ChildInv'
    BY DEF IInv, ChildInv, Watching
  <1>5. LooksInv'
    BY DEF IInv, LooksInv, Quiet, BeforeLaunch
  <1>6. EndInv'
    BY DEF IInv, EndInv, ProxiedIsEarned, NoDeadEnd
  <1>7. ElderInv'
    BY DEF IInv, PlaceInv, ElderInv, Quiet, Looking
  <1> QED
    BY <1>1, <1>2, <1>3, <1>4, <1>5, <1>6, <1>7 DEF IInv

LEMMA SelectionKeptKeeps ==
    ASSUME IInv, SelectionKept
    PROVE  IInv'
  <1> USE DEF SelectionKept, Unchanged, envVars, resultVars, restVars,
          prepareVars, lookVars
  <1>1. TypeOK'
    BY DEF IInv, TypeOK, DiscordTypeOK, Pc
  <1>2. PlaceInv'
    BY DEF IInv, PlaceInv, Quiet, Looking
  <1>3. StartsInv'
    BY DEF IInv, StartsInv, BeforeLaunch
  <1>4. ChildInv'
    BY DEF IInv, ChildInv
  <1>5. LooksInv'
    BY DEF IInv, LooksInv, Quiet, BeforeLaunch
  <1>6. EndInv'
    BY DEF IInv, EndInv, ProxiedIsEarned, NoDeadEnd
  <1>7. ElderInv'
    BY DEF IInv, PlaceInv, ElderInv, Quiet, Looking
  <1> QED
    BY <1>1, <1>2, <1>3, <1>4, <1>5, <1>6, <1>7 DEF IInv

LEMMA SaveFailsKeeps ==
    ASSUME IInv, SaveFails
    PROVE  IInv'
  <1> USE DEF SaveFails, PrepareFails, FallBack, Look, Call, ReturnError,
          Unchanged, envVars, restVars, prepareVars, lookVars
  <1>1. TypeOK'
    BY PrepareFailsTypes
  <1>2. PlaceInv'
    BY DEF IInv, PlaceInv, Quiet, Looking
  <1>3. StartsInv'
    BY DEF IInv, StartsInv, BeforeLaunch
  <1>4. ChildInv'
    BY DEF IInv, ChildInv, Watching
  <1>5. LooksInv'
    BY DEF IInv, LooksInv, Quiet, BeforeLaunch
  <1>6. EndInv'
    BY DEF IInv, EndInv, ProxiedIsEarned, NoDeadEnd
  <1>7. ElderInv'
    BY DEF IInv, PlaceInv, ElderInv, Quiet, Looking
  <1> QED
    BY <1>1, <1>2, <1>3, <1>4, <1>5, <1>6, <1>7 DEF IInv

LEMMA SaveCacheKeeps ==
    ASSUME IInv, SaveCache
    PROVE  IInv'
  <1> USE DEF SaveCache, Look, Call, ReturnMode, Unchanged, envVars, Warning,
          resultVars, lookVars
  <1>1. TypeOK'
    BY DEF IInv, TypeOK, DiscordTypeOK, LooksInv, BeforeLaunch, Op, Location,
           Answer, Mode, Reason, Pc
  <1>2. PlaceInv'
    BY DEF IInv, PlaceInv, Quiet, Looking
  <1>3. StartsInv'
    BY DEF IInv, StartsInv, BeforeLaunch
  <1>4. ChildInv'
    BY DEF IInv, ChildInv, Watching
  <1>5. LooksInv'
    BY DEF IInv, LooksInv, Quiet, BeforeLaunch
  <1>6. EndInv'
    BY DEF IInv, LooksInv, EndInv, ProxiedIsEarned, NoDeadEnd
  <1>7. ElderInv'
    BY DEF IInv, PlaceInv, ElderInv, Quiet, Looking
  <1> QED
    BY <1>1, <1>2, <1>3, <1>4, <1>5, <1>6, <1>7 DEF IInv

LEMMA LaunchSucceedsKeeps ==
    ASSUME IInv, LaunchSucceeds
    PROVE  IInv'
  <1> USE DEF LaunchSucceeds, Hears, HangUp, ReturnMode, Unchanged, envVars,
          Warning, restVars, prepareVars, lookVars
  <1>1. TypeOK'
    BY DEF IInv, TypeOK, DiscordTypeOK, Location, Mode, Reason, Pc
  <1>2. PlaceInv'
    BY DEF PlaceInv, Quiet, Looking
  <1>3. StartsInv'
    BY DEF StartsInv, BeforeLaunch
  <1>4. ChildInv'
    BY DEF IInv, ChildInv, Watching
  <1>5. LooksInv'
    BY DEF IInv, LooksInv, Quiet, BeforeLaunch
  <1>6. EndInv'
    BY OneStart
       DEF IInv, PlaceInv, StartsInv, EndInv, ProxiedIsEarned, NoDeadEnd
  <1>7. ElderInv'
    BY DEF IInv, PlaceInv, ElderInv, Quiet, Looking
  <1> QED
    BY <1>1, <1>2, <1>3, <1>4, <1>5, <1>6, <1>7 DEF IInv

LEMMA LaunchFailsKeeps ==
    ASSUME IInv, LaunchFails
    PROVE  IInv'
  <1> USE DEF LaunchFails, Hears, FallBack, Look, Call, Unchanged, envVars,
          restVars, prepareVars, lookVars
  <1>1. TypeOK'
    BY DEF IInv, TypeOK, DiscordTypeOK, LooksInv, Op, Location, Answer, Reason,
           Pc
  <1>2. PlaceInv'
    BY DEF PlaceInv, Quiet
  <1>3. StartsInv'
    BY DEF IInv, StartsInv, BeforeLaunch
  <1>4. ChildInv'
    BY DEF IInv, ChildInv, Watching
  <1>5. LooksInv'
    BY DEF IInv, LooksInv, Quiet, BeforeLaunch
  <1>6. EndInv'
    BY DEF IInv, EndInv, ProxiedIsEarned, NoDeadEnd
  <1>7. ElderInv'
    BY DEF IInv, PlaceInv, ElderInv, Quiet, Looking
  <1> QED
    BY <1>1, <1>2, <1>3, <1>4, <1>5, <1>6, <1>7 DEF IInv

LEMMA PreserveKeeps ==
    ASSUME IInv, Preserve
    PROVE  IInv'
  <1> USE DEF Preserve, Hears, HangUp, ReturnMode, Unchanged, envVars,
          restVars, prepareVars, lookVars
  <1>1. TypeOK'
    BY DEF IInv, TypeOK, DiscordTypeOK, Location, Mode, Pc
  <1>2. PlaceInv'
    BY DEF PlaceInv, Quiet, Looking
  <1>3. StartsInv'
    BY DEF StartsInv, BeforeLaunch
  <1>4. ChildInv'
    BY DEF IInv, ChildInv, Watching
  <1>5. LooksInv'
    BY DEF IInv, LooksInv, Quiet, BeforeLaunch
  <1>6. EndInv'
    BY DEF IInv, PlaceInv, EndInv, ProxiedIsEarned, NoDeadEnd
  <1>7. ElderInv'
    BY DEF IInv, PlaceInv, ElderInv, Quiet, Looking
  <1> QED
    BY <1>1, <1>2, <1>3, <1>4, <1>5, <1>6, <1>7 DEF IInv

LEMMA OpenDirectKeeps ==
    ASSUME IInv, OpenDirect
    PROVE  IInv'
  <1> USE DEF OpenDirect, Call, Hears, Unchanged, envVars, resultVars,
          prepareVars, lookVars
  <1>1. TypeOK'
    BY DEF IInv, TypeOK, DiscordTypeOK, Op, Location, Answer, Pc
  <1>2. PlaceInv'
    BY DEF PlaceInv, Quiet, Looking
  <1>3. StartsInv'
    BY DEF IInv, StartsInv, BeforeLaunch
  <1>4. ChildInv'
    BY DEF IInv, ChildInv, Watching
  <1>5. LooksInv'
    BY DEF IInv, LooksInv, Quiet, BeforeLaunch
  <1>6. EndInv'
    BY DEF IInv, EndInv, ProxiedIsEarned, NoDeadEnd
  <1>7. ElderInv'
    BY DEF IInv, PlaceInv, ElderInv, Quiet, Looking
  <1> QED
    BY <1>1, <1>2, <1>3, <1>4, <1>5, <1>6, <1>7 DEF IInv

LEMMA DirectOpenedKeeps ==
    ASSUME IInv, DirectOpened
    PROVE  IInv'
  <1> USE DEF DirectOpened, Hears, HangUp, ReturnMode, Unchanged, envVars,
          restVars, prepareVars, lookVars
  <1>1. TypeOK'
    BY DEF IInv, TypeOK, DiscordTypeOK, Location, Mode, Pc
  <1>2. PlaceInv'
    BY DEF PlaceInv, Quiet, Looking
  <1>3. StartsInv'
    BY DEF StartsInv, BeforeLaunch
  <1>4. ChildInv'
    BY DEF IInv, ChildInv, Watching
  <1>5. LooksInv'
    BY DEF IInv, LooksInv, Quiet, BeforeLaunch
  <1>6. EndInv'
    BY DEF IInv, StartsInv, EndInv, ProxiedIsEarned, NoDeadEnd
  <1>7. ElderInv'
    BY DEF IInv, PlaceInv, ElderInv, Quiet, Looking
  <1> QED
    BY <1>1, <1>2, <1>3, <1>4, <1>5, <1>6, <1>7 DEF IInv

LEMMA DirectFailsKeeps ==
    ASSUME IInv, DirectFails
    PROVE  IInv'
  <1> USE DEF DirectFails, Hears, HangUp, ReturnError, Unchanged, envVars,
          restVars, prepareVars, lookVars
  <1>1. TypeOK'
    BY DEF IInv, TypeOK, DiscordTypeOK, Location, Pc
  <1>2. PlaceInv'
    BY DEF PlaceInv, Quiet, Looking
  <1>3. StartsInv'
    BY DEF StartsInv, BeforeLaunch
  <1>4. ChildInv'
    BY DEF IInv, ChildInv, Watching
  <1>5. LooksInv'
    BY DEF IInv, LooksInv, Quiet, BeforeLaunch
  <1>6. EndInv'
    BY DEF IInv, PlaceInv, EndInv, ProxiedIsEarned, NoDeadEnd
  <1>7. ElderInv'
    BY DEF IInv, PlaceInv, ElderInv, Quiet, Looking
  <1> QED
    BY <1>1, <1>2, <1>3, <1>4, <1>5, <1>6, <1>7 DEF IInv

LEMMA LookFailsKeeps ==
    ASSUME IInv, NEW where \in {"entryLook", "recheckLook"}, LookFails(where)
    PROVE  IInv'
  <1> USE DEF LookFails, Hears, FallBack, Look, Call, Unchanged, envVars,
          restVars, prepareVars, lookVars
  <1>1. TypeOK'
    BY DEF IInv, TypeOK, DiscordTypeOK, LooksInv, BeforeLaunch, Op, Location,
           Answer, Reason, Pc
  <1>2. PlaceInv'
    BY DEF PlaceInv, Quiet
  <1>3. StartsInv'
    BY DEF IInv, StartsInv, BeforeLaunch
  <1>4. ChildInv'
    BY DEF IInv, ChildInv, Watching
  <1>5. LooksInv'
    BY DEF IInv, LooksInv, Quiet, BeforeLaunch
  <1>6. EndInv'
    BY DEF IInv, EndInv, ProxiedIsEarned, NoDeadEnd
  <1>7. ElderInv'
    BY DEF IInv, PlaceInv, ElderInv, Quiet, Looking
  <1> QED
    BY <1>1, <1>2, <1>3, <1>4, <1>5, <1>6, <1>7 DEF IInv

LEMMA LookFindsKeeps ==
    ASSUME IInv, NEW where \in {"entryLook", "recheckLook"}, LookFinds(where)
    PROVE  IInv'
  <1> USE DEF LookFinds, Hears, HangUp, ReturnMode, Unchanged, envVars,
          restVars, prepareVars, lookVars
  <1>1. TypeOK'
    BY DEF IInv, TypeOK, DiscordTypeOK, Location, Mode, Reason, Pc
  <1>2. PlaceInv'
    BY DEF PlaceInv, Quiet, Looking
  <1>3. StartsInv'
    BY DEF StartsInv, BeforeLaunch
  <1>4. ChildInv'
    BY DEF IInv, ChildInv, Watching
  <1>5. LooksInv'
    BY DEF IInv, LooksInv, Quiet, BeforeLaunch
  <1>6. EndInv'
    BY DEF IInv, PlaceInv, EndInv, ProxiedIsEarned, NoDeadEnd
  <1>7. ElderInv'
    BY DEF IInv, PlaceInv, ElderInv, Quiet, Looking
  <1> QED
    BY <1>1, <1>2, <1>3, <1>4, <1>5, <1>6, <1>7 DEF IInv

-----------------------------------------------------------------------------
(* The steps of a call. *)
LEMMA RefuseEndedCtxKeeps ==
    ASSUME IInv, RefuseEndedCtx, UNCHANGED runVars
    PROVE  IInv'
  <1> USE DEF RefuseEndedCtx, Give, envVars, runVars
  <1>1. TypeOK'
    BY DEF IInv, TypeOK, DiscordTypeOK, Location, Answer
  <1>2. PlaceInv'
    BY DEF IInv, PlaceInv
  <1>3. StartsInv'
    BY DEF IInv, StartsInv, Watching
  <1>4. ChildInv'
    BY DEF IInv, ChildInv, Watching
  <1>5. LooksInv'
    BY DEF IInv, LooksInv
  <1>6. EndInv'
    BY DEF IInv, EndInv, ProxiedIsEarned, NoDeadEnd
  <1>7. ElderInv'
    BY DEF IInv, ElderInv
  <1> QED
    BY <1>1, <1>2, <1>3, <1>4, <1>5, <1>6, <1>7 DEF IInv

LEMMA TakeSnapshotKeeps ==
    ASSUME IInv, TakeSnapshot, UNCHANGED runVars
    PROVE  IInv'
  <1> USE DEF TakeSnapshot, Give, MayBegin, envVars, runVars
  <1>1. TypeOK'
    BY DEF IInv, TypeOK, DiscordTypeOK, Location, Answer
  <1>2. PlaceInv'
    BY DEF IInv, PlaceInv
  <1>3. StartsInv'
    BY DEF IInv, StartsInv, Watching
  <1>4. ChildInv'
    BY DEF IInv, ChildInv, Watching
  <1>5. LooksInv'
    BY DEF IInv, LooksInv
  <1>6. EndInv'
    BY DEF IInv, PlaceInv, EndInv, ProxiedIsEarned, NoDeadEnd, Quiet
  <1>7. ElderInv'
    BY DEF IInv, TypeOK, DiscordTypeOK, ElderInv
  <1> QED
    BY <1>1, <1>2, <1>3, <1>4, <1>5, <1>6, <1>7 DEF IInv

LEMMA QueryFailsKeeps ==
    ASSUME IInv, QueryFails, UNCHANGED runVars
    PROVE  IInv'
  <1> USE DEF QueryFails, Give, Looked, envVars, runVars
  <1>1. TypeOK'
    BY DEF IInv, TypeOK, DiscordTypeOK, Location, Answer
  <1>2. PlaceInv'
    BY DEF IInv, PlaceInv
  <1>3. StartsInv'
    BY DEF IInv, StartsInv, Watching
  <1>4. ChildInv'
    BY DEF IInv, ChildInv, Watching
  <1>5. LooksInv'
    BY DEF IInv, LooksInv
  <1>6. EndInv'
    BY DEF IInv, PlaceInv, EndInv, ProxiedIsEarned, NoDeadEnd, Quiet
  <1>7. ElderInv'
    BY DEF IInv, ElderInv
  <1> QED
    BY <1>1, <1>2, <1>3, <1>4, <1>5, <1>6, <1>7 DEF IInv

LEMMA FoundSomeKeeps ==
    ASSUME IInv, FoundSome, UNCHANGED runVars
    PROVE  IInv'
  <1> USE DEF FoundSome, Give, Looked, envVars, runVars
  <1>1. TypeOK'
    BY DEF IInv, TypeOK, DiscordTypeOK, Location, Answer
  <1>2. PlaceInv'
    BY DEF IInv, PlaceInv
  <1>3. StartsInv'
    BY DEF IInv, StartsInv, Watching
  <1>4. ChildInv'
    BY DEF IInv, ChildInv, Watching
  <1>5. LooksInv'
    BY DEF IInv, LooksInv
  <1>6. EndInv'
    BY DEF IInv, EndInv, ProxiedIsEarned, NoDeadEnd
  <1>7. ElderInv'
    BY DEF IInv, ElderInv
  <1> QED
    BY <1>1, <1>2, <1>3, <1>4, <1>5, <1>6, <1>7 DEF IInv

LEMMA FoundNoneKeeps ==
    ASSUME IInv, FoundNone, UNCHANGED runVars
    PROVE  IInv'
  <1> USE DEF FoundNone, Give, Looked, envVars, runVars
  <1>1. TypeOK'
    BY DEF IInv, TypeOK, DiscordTypeOK, Location, Answer
  <1>2. PlaceInv'
    BY DEF IInv, PlaceInv
  <1>3. StartsInv'
    BY DEF IInv, StartsInv, Watching
  <1>4. ChildInv'
    BY DEF IInv, ChildInv, Watching
  <1>5. LooksInv'
    BY DEF IInv, LooksInv
  <1>6. EndInv'
    BY DEF IInv, PlaceInv, EndInv, ProxiedIsEarned, NoDeadEnd, Quiet
  <1>7. ElderInv'
    BY DEF IInv, ElderInv
  <1> QED
    BY <1>1, <1>2, <1>3, <1>4, <1>5, <1>6, <1>7 DEF IInv

LEMMA StartProxiedKeeps ==
    ASSUME IInv, StartProxied, UNCHANGED runVars
    PROVE  IInv'
  <1> USE DEF StartProxied, Give, Spawn, runVars
  <1>1. TypeOK'
    <2>1. procs' \in SUBSET Pid /\ origin' \in [Pid -> Origin]
      BY DEF IInv, TypeOK, DiscordTypeOK, Origin
    <2>2. /\ starts' \in Seq({"proxied", "direct"})
          /\ child' \in Pid \union {NoPid}
      BY MoreStarts DEF IInv, TypeOK, DiscordTypeOK
    <2>3. /\ timerFired' \in BOOLEAN /\ at' \in Location
          /\ answer' \in Answer
          /\ UNCHANGED <<updater, ctxErr, survived, op, snap>>
      BY DEF IInv, TypeOK, DiscordTypeOK, Location, Answer
    <2> HIDE DEF StartProxied
    <2> QED
      BY <2>1, <2>2, <2>3 DEF IInv, TypeOK, DiscordTypeOK
  <1>2. PlaceInv'
    BY DEF IInv, PlaceInv
  <1>3. StartsInv'
    BY OneStart, PidAssumption
       DEF IInv, PlaceInv, StartsInv, Quiet, Looking, BeforeLaunch, Watching
  <1>4. ChildInv'
    BY DEF IInv, ChildInv, TypeOK, DiscordTypeOK, Watching
  <1>5. LooksInv'
    BY DEF IInv, PlaceInv, LooksInv
  <1>6. EndInv'
    BY DEF IInv, PlaceInv, EndInv, ProxiedIsEarned, NoDeadEnd, Quiet
  <1>7. ElderInv'
    BY DEF IInv, TypeOK, DiscordTypeOK, ElderInv
  <1> QED
    BY <1>1, <1>2, <1>3, <1>4, <1>5, <1>6, <1>7 DEF IInv

LEMMA OpenChildKeeps ==
    ASSUME IInv, OpenChild, UNCHANGED runVars
    PROVE  IInv'
  <1> USE DEF OpenChild, envVars, runVars
  <1>1. TypeOK'
    BY DEF IInv, TypeOK, DiscordTypeOK, Location
  <1>2. PlaceInv'
    BY DEF IInv, PlaceInv
  <1>3. StartsInv'
    BY DEF IInv, StartsInv, Watching
  <1>4. ChildInv'
    BY DEF IInv, ChildInv, Watching
  <1>5. LooksInv'
    BY DEF IInv, LooksInv
  <1>6. EndInv'
    BY DEF IInv, EndInv, ProxiedIsEarned, NoDeadEnd
  <1>7. ElderInv'
    BY DEF IInv, ElderInv
  <1> QED
    BY <1>1, <1>2, <1>3, <1>4, <1>5, <1>6, <1>7 DEF IInv

LEMMA KillChildKeeps ==
    ASSUME IInv, KillChild, UNCHANGED runVars
    PROVE  IInv'
  <1> USE DEF KillChild, Give, runVars
  <1>1. TypeOK'
    BY DEF IInv, TypeOK, DiscordTypeOK, Location, Answer
  <1>2. PlaceInv'
    BY DEF IInv, PlaceInv
  <1>3. StartsInv'
    BY DEF IInv, StartsInv, Watching
  <1>4. ChildInv'
    BY DEF IInv, ChildInv
  <1>5. LooksInv'
    BY DEF IInv, LooksInv
  <1>6. EndInv'
    BY DEF IInv, PlaceInv, EndInv, ProxiedIsEarned, NoDeadEnd, Quiet
  <1>7. ElderInv'
    BY DEF IInv, ElderInv
  <1> QED
    BY <1>1, <1>2, <1>3, <1>4, <1>5, <1>6, <1>7 DEF IInv

LEMMA PollKeeps ==
    ASSUME IInv, Poll, UNCHANGED runVars
    PROVE  IInv'
  <1> USE DEF Poll, Give, envVars, runVars
  <1>1. TypeOK'
    BY DEF IInv, TypeOK, DiscordTypeOK, Location, Answer
  <1>2. PlaceInv'
    BY DEF IInv, PlaceInv
  <1>3. StartsInv'
    BY DEF IInv, StartsInv, Watching
  <1>4. ChildInv'
    BY DEF IInv, ChildInv, Watching
  <1>5. LooksInv'
    BY DEF IInv, LooksInv
  <1>6. EndInv'
    BY DEF IInv, PlaceInv, EndInv, ProxiedIsEarned, NoDeadEnd, Quiet
  <1>7. ElderInv'
    BY DEF IInv, ElderInv
  <1> QED
    BY <1>1, <1>2, <1>3, <1>4, <1>5, <1>6, <1>7 DEF IInv

LEMMA SelectCtxKeeps ==
    ASSUME IInv, SelectCtx, UNCHANGED runVars
    PROVE  IInv'
  <1> USE DEF SelectCtx, Give, envVars, runVars
  <1>1. TypeOK'
    BY DEF IInv, TypeOK, DiscordTypeOK, Location, Answer
  <1>2. PlaceInv'
    BY DEF IInv, PlaceInv
  <1>3. StartsInv'
    BY DEF IInv, StartsInv, Watching
  <1>4. ChildInv'
    BY DEF IInv, ChildInv, Watching
  <1>5. LooksInv'
    BY DEF IInv, LooksInv
  <1>6. EndInv'
    BY DEF IInv, PlaceInv, EndInv, ProxiedIsEarned, NoDeadEnd, Quiet
  <1>7. ElderInv'
    BY DEF IInv, ElderInv
  <1> QED
    BY <1>1, <1>2, <1>3, <1>4, <1>5, <1>6, <1>7 DEF IInv

LEMMA SelectTickKeeps ==
    ASSUME IInv, SelectTick, UNCHANGED runVars
    PROVE  IInv'
  <1> USE DEF SelectTick, envVars, runVars
  <1>1. TypeOK'
    BY DEF IInv, TypeOK, DiscordTypeOK, Location
  <1>2. PlaceInv'
    BY DEF IInv, PlaceInv
  <1>3. StartsInv'
    BY DEF IInv, StartsInv, Watching
  <1>4. ChildInv'
    BY DEF IInv, ChildInv, Watching
  <1>5. LooksInv'
    BY DEF IInv, LooksInv
  <1>6. EndInv'
    BY DEF IInv, EndInv, ProxiedIsEarned, NoDeadEnd
  <1>7. ElderInv'
    BY DEF IInv, ElderInv
  <1> QED
    BY <1>1, <1>2, <1>3, <1>4, <1>5, <1>6, <1>7 DEF IInv

LEMMA SelectTimerKeeps ==
    ASSUME IInv, SelectTimer, UNCHANGED runVars
    PROVE  IInv'
  <1> USE DEF SelectTimer, envVars, runVars
  <1>1. TypeOK'
    BY DEF IInv, TypeOK, DiscordTypeOK, Location
  <1>2. PlaceInv'
    BY DEF IInv, PlaceInv
  <1>3. StartsInv'
    BY DEF IInv, StartsInv, Watching
  <1>4. ChildInv'
    BY DEF IInv, ChildInv, Watching
  <1>5. LooksInv'
    BY DEF IInv, LooksInv
  <1>6. EndInv'
    BY DEF IInv, EndInv, ProxiedIsEarned, NoDeadEnd
  <1>7. ElderInv'
    BY DEF IInv, ElderInv
  <1> QED
    BY <1>1, <1>2, <1>3, <1>4, <1>5, <1>6, <1>7 DEF IInv

LEMMA FinalCheckKeeps ==
    ASSUME IInv, FinalCheck, UNCHANGED runVars
    PROVE  IInv'
  <1> USE DEF FinalCheck, Give, envVars, runVars
  <1>1. TypeOK'
    BY DEF IInv, TypeOK, DiscordTypeOK, Location, Answer
  <1>2. PlaceInv'
    BY DEF IInv, PlaceInv, TypeOK, Quiet, Looking, Pc
  <1>3. StartsInv'
    BY DEF IInv, PlaceInv, StartsInv, ChildInv, Watching
  <1>4. ChildInv'
    BY DEF IInv, ChildInv, Watching
  <1>5. LooksInv'
    BY DEF IInv, LooksInv
  <1>6. EndInv'
    BY DEF IInv, PlaceInv, EndInv, ProxiedIsEarned, NoDeadEnd, Quiet
  <1>7. ElderInv'
    BY DEF IInv, ElderInv
  <1> QED
    BY <1>1, <1>2, <1>3, <1>4, <1>5, <1>6, <1>7 DEF IInv

LEMMA StartDirectKeeps ==
    ASSUME IInv, StartDirect, UNCHANGED runVars
    PROVE  IInv'
  <1> USE DEF StartDirect, Give, MayBegin, Spawn, runVars
  <1>1. TypeOK'
    <2>1. procs' \in SUBSET Pid /\ origin' \in [Pid -> Origin]
      BY DEF IInv, TypeOK, DiscordTypeOK, Origin
    <2>2. starts' \in Seq({"proxied", "direct"})
      BY DEF IInv, TypeOK, DiscordTypeOK
    <2>3. /\ updater' \in BOOLEAN /\ at' \in Location /\ answer' \in Answer
          /\ UNCHANGED <<ctxErr, timerFired, survived, op, snap, child>>
      BY DEF IInv, TypeOK, DiscordTypeOK, Location, Answer
    <2> HIDE DEF StartDirect
    <2> QED
      BY <2>1, <2>2, <2>3 DEF IInv, TypeOK, DiscordTypeOK
  <1>2. PlaceInv'
    BY DEF IInv, PlaceInv
  <1>3. StartsInv'
    BY DEF IInv, PlaceInv, StartsInv, Quiet, Looking, BeforeLaunch
  <1>4. ChildInv'
    BY DEF IInv, ChildInv, TypeOK, DiscordTypeOK, Watching
  <1>5. LooksInv'
    BY DEF IInv, LooksInv
  <1>6. EndInv'
    BY DEF IInv, PlaceInv, EndInv, ProxiedIsEarned, NoDeadEnd, Quiet
  <1>7. ElderInv'
    BY DEF IInv, TypeOK, DiscordTypeOK, ElderInv
  <1> QED
    BY <1>1, <1>2, <1>3, <1>4, <1>5, <1>6, <1>7 DEF IInv

-----------------------------------------------------------------------------
(* The environment. *)
LEMMA UserStartsKeeps ==
    ASSUME IInv, UserStarts, UNCHANGED runVars
    PROVE  IInv'
  <1> USE DEF UserStarts, Spawn, clientVars, runVars
  <1>1. TypeOK'
    BY DEF IInv, TypeOK, DiscordTypeOK, Origin
  <1>2. PlaceInv'
    BY DEF IInv, PlaceInv
  <1>3. StartsInv'
    BY DEF IInv, StartsInv
  <1>4. ChildInv'
    BY DEF IInv, ChildInv, TypeOK, DiscordTypeOK, NoPid
  <1>5. LooksInv'
    BY DEF IInv, LooksInv
  <1>6. EndInv'
    BY DEF IInv, EndInv, ProxiedIsEarned, NoDeadEnd
  <1>7. ElderInv'
    BY DEF IInv, TypeOK, DiscordTypeOK, ElderInv
  <1> QED
    BY <1>1, <1>2, <1>3, <1>4, <1>5, <1>6, <1>7 DEF IInv

LEMMA ExitsKeeps ==
    ASSUME IInv, Exits, UNCHANGED runVars
    PROVE  IInv'
  <1> USE DEF Exits, clientVars, runVars
  <1>1. TypeOK'
    BY DEF IInv, TypeOK, DiscordTypeOK
  <1>2. PlaceInv'
    BY DEF IInv, PlaceInv
  <1>3. StartsInv'
    BY DEF IInv, StartsInv
  <1>4. ChildInv'
    BY DEF IInv, ChildInv
  <1>5. LooksInv'
    BY DEF IInv, LooksInv
  <1>6. EndInv'
    BY DEF IInv, EndInv, ProxiedIsEarned, NoDeadEnd
  <1>7. ElderInv'
    BY DEF IInv, TypeOK, DiscordTypeOK, ElderInv
  <1> QED
    BY <1>1, <1>2, <1>3, <1>4, <1>5, <1>6, <1>7 DEF IInv

LEMMA UpdaterEndsKeeps ==
    ASSUME IInv, UpdaterEnds, UNCHANGED runVars
    PROVE  IInv'
  <1> USE DEF UpdaterEnds, Spawn, clientVars, runVars
  <1>1. TypeOK'
    <2>1. procs' \in SUBSET Pid /\ origin' \in [Pid -> Origin]
      BY DEF IInv, TypeOK, DiscordTypeOK, Origin
    <2>2. /\ updater' \in BOOLEAN
          /\ UNCHANGED <<ctxErr, timerFired, survived, clientVars>>
      OBVIOUS
    <2> HIDE DEF UpdaterEnds
    <2> QED
      BY <2>1, <2>2 DEF IInv, TypeOK, DiscordTypeOK
  <1>2. PlaceInv'
    BY DEF IInv, PlaceInv
  <1>3. StartsInv'
    BY DEF IInv, StartsInv
  <1>4. ChildInv'
    BY DEF IInv, ChildInv, TypeOK, DiscordTypeOK, NoPid
  <1>5. LooksInv'
    BY DEF IInv, LooksInv
  <1>6. EndInv'
    BY DEF IInv, EndInv, ProxiedIsEarned, NoDeadEnd
  <1>7. ElderInv'
    BY DEF IInv, TypeOK, DiscordTypeOK, ElderInv
  <1> QED
    BY <1>1, <1>2, <1>3, <1>4, <1>5, <1>6, <1>7 DEF IInv

LEMMA CtxEndsKeeps ==
    ASSUME IInv, CtxEnds, UNCHANGED runVars
    PROVE  IInv'
  <1> USE DEF CtxEnds, clientVars, runVars
  <1>1. TypeOK'
    BY DEF IInv, TypeOK, DiscordTypeOK
  <1>2. PlaceInv'
    BY DEF IInv, PlaceInv
  <1>3. StartsInv'
    BY DEF IInv, StartsInv
  <1>4. ChildInv'
    BY DEF IInv, ChildInv
  <1>5. LooksInv'
    BY DEF IInv, LooksInv
  <1>6. EndInv'
    BY DEF IInv, EndInv, ProxiedIsEarned, NoDeadEnd
  <1>7. ElderInv'
    BY DEF IInv, ElderInv
  <1> QED
    BY <1>1, <1>2, <1>3, <1>4, <1>5, <1>6, <1>7 DEF IInv

LEMMA TimerFiresKeeps ==
    ASSUME IInv, TimerFires, UNCHANGED runVars
    PROVE  IInv'
  <1> USE DEF TimerFires, clientVars, runVars
  <1>1. TypeOK'
    BY DEF IInv, TypeOK, DiscordTypeOK
  <1>2. PlaceInv'
    BY DEF IInv, PlaceInv
  <1>3. StartsInv'
    BY DEF IInv, StartsInv
  <1>4. ChildInv'
    BY DEF IInv, ChildInv
  <1>5. LooksInv'
    BY DEF IInv, LooksInv
  <1>6. EndInv'
    BY DEF IInv, PlaceInv, EndInv, ProxiedIsEarned, NoDeadEnd, Quiet
  <1>7. ElderInv'
    BY DEF IInv, ElderInv
  <1> QED
    BY <1>1, <1>2, <1>3, <1>4, <1>5, <1>6, <1>7 DEF IInv

-----------------------------------------------------------------------------
LEMMA StutterKeeps ==
    ASSUME IInv, UNCHANGED vars
    PROVE  IInv'
  <1> USE DEF vars, discordVars, envVars, clientVars, runVars
  <1>1. TypeOK'
    BY DEF IInv, TypeOK, DiscordTypeOK
  <1>2. PlaceInv' /\ StartsInv' /\ ChildInv' /\ ElderInv'
    BY DEF IInv, PlaceInv, StartsInv, ChildInv, ElderInv
  <1>3. LooksInv' /\ EndInv'
    BY DEF IInv, LooksInv, EndInv, ProxiedIsEarned, NoDeadEnd
  <1> QED
    BY <1>1, <1>2, <1>3 DEF IInv

LEMMA NextKeeps ==
    ASSUME IInv, [Next]_vars
    PROVE  IInv'
  <1>1. CASE RunStep
    BY <1>1, BeginKeeps, LookFailsKeeps, LookFindsKeeps, EntryClearKeeps,
       LaunchIfClearKeeps, PathsFailKeeps, PathsReadyKeeps, LoadCacheKeeps,
       ResolveKeeps, SelectionRefusedKeeps, SelectionKeptKeeps, SaveFailsKeeps,
       SaveCacheKeeps, LaunchSucceedsKeeps, LaunchFailsKeeps, PreserveKeeps,
       OpenDirectKeeps, DirectOpenedKeeps, DirectFailsKeeps
       DEF RunStep
  <1>2. CASE CallStep
    BY <1>2, RefuseEndedCtxKeeps, TakeSnapshotKeeps, QueryFailsKeeps,
       FoundSomeKeeps, FoundNoneKeeps, StartProxiedKeeps, OpenChildKeeps,
       KillChildKeeps, PollKeeps, SelectCtxKeeps, SelectTickKeeps,
       SelectTimerKeeps, FinalCheckKeeps, StartDirectKeeps
       DEF CallStep, ClientStep
  <1>3. CASE EnvStep /\ UNCHANGED runVars
    BY <1>3, UserStartsKeeps, ExitsKeeps, UpdaterEndsKeeps, CtxEndsKeeps,
       TimerFiresKeeps
       DEF EnvStep
  <1>4. CASE Terminated \/ UNCHANGED vars
    BY <1>4, StutterKeeps DEF Terminated
  <1> QED
    BY <1>1, <1>2, <1>3, <1>4 DEF Next

(* The strengthened invariant holds in every reachable state. *)
THEOREM Inductive == Spec => []IInv
  BY InitEstablishes, NextKeeps, PTL DEF Spec

-----------------------------------------------------------------------------
(* Every variable keeps to its domain; Run looks three times at most.      *)
THEOREM TypeCorrect == Spec => []TypeOK
  <1>1. IInv => TypeOK
    BY DEF IInv
  <1> QED
    BY Inductive, <1>1, PTL

(* "Proxied" and "checked" are only said of what has happened, however the *)
(* end of the child, the timer and the failures fall together.             *)
THEOREM Earned == Spec => []ProxiedIsEarned
  <1>1. IInv => ProxiedIsEarned
    BY DEF IInv, EndInv
  <1> QED
    BY Inductive, <1>1, PTL

(* No failure but that of the last resort leaves the user without Discord. *)
THEOREM AlwaysDiscord == Spec => []NoDeadEnd
  <1>1. IInv => NoDeadEnd
    BY DEF IInv, EndInv
  <1> QED
    BY Inductive, <1>1, PTL

(* A check neither inspects nor starts Discord.                            *)
THEOREM CheckOnly == Spec => []CheckNeverTouchesDiscord
  <1>1. IInv => CheckNeverTouchesDiscord
    BY DEF IInv, LooksInv, CheckNeverTouchesDiscord
  <1> QED
    BY Inductive, <1>1, PTL

(* Only two steps of the program open a Discord. *)
LEMMA OnlyStarts ==
    ASSUME [Next]_vars, ~StartProxied, ~StartDirect
    PROVE  starts' = starts
  <1>1. CASE RunStep \/ EnvStep \/ UNCHANGED vars
    BY <1>1
       DEF RunStep, Begin, LookFails, LookFinds, EntryClear, LaunchIfClear,
           PathsFail, PathsReady, LoadCache, Resolve, SelectionRefused,
           SelectionKept, SaveFails, SaveCache, LaunchSucceeds, LaunchFails,
           Preserve, OpenDirect, DirectOpened, DirectFails, Unchanged, EnvStep,
           UserStarts, Exits, UpdaterEnds, CtxEnds, TimerFires, clientVars,
           discordVars, vars
  <1>2. CASE ClientStep
    BY <1>2
       DEF ClientStep, RefuseEndedCtx, TakeSnapshot, QueryFails, FoundSome,
           FoundNone, Looked, OpenChild, KillChild, Poll, SelectCtx,
           SelectTick, SelectTimer, FinalCheck
  <1> QED
    BY <1>1, <1>2 DEF Next, CallStep, Terminated

LEMMA DirectPlace ==
    ASSUME IInv, StartDirect
    PROVE  pc = "direct" /\ at = "begin"
  BY DEF StartDirect, IInv, PlaceInv, Quiet, Looking, TypeOK, Pc

(* A Discord that ran when Run last had Discord looked for is joined by    *)
(* another one only when that look failed, whatever comes and goes         *)
(* between the snapshot, its queries and the start.                        *)
THEOREM NoElderJoined == Spec => OpensBesideNoElder
  <1> DEFINE Alone == Len(starts') > Len(starts)
                          => elder \intersect procs = {} \/ processErr
  <1>1. ASSUME IInv, [Next]_vars
        PROVE  Alone
    <2>1. CASE StartProxied
      BY <1>1, <2>1 DEF StartProxied, IInv, ElderInv
    <2>2. CASE StartDirect
      BY <1>1, <2>2, DirectPlace DEF IInv, ElderInv
    <2>3. CASE ~StartProxied /\ ~StartDirect
      BY <1>1, <2>3, OnlyStarts DEF IInv, TypeOK, DiscordTypeOK
    <2> QED
      BY <2>1, <2>2, <2>3
  <1>2. IInv /\ [Next]_vars => [Alone]_vars
    BY <1>1
  <1> QED
    BY Inductive, <1>2, PTL DEF Spec, OpensBesideNoElder

(* Discord is not opened a second time beside the living child of the same *)
(* activation, unless the process list could not be read.                  *)
THEOREM OneBootstrap == Spec => NoSecondBootstrap
  <1> DEFINE Again ==
          Len(starts') > Len(starts) /\ child \in procs => processErr
  <1>1. ASSUME IInv, [Next]_vars
        PROVE  Again
    <2>1. CASE StartProxied
      <3>1. child = NoPid
        BY <1>1, <2>1
           DEF StartProxied, IInv, PlaceInv, StartsInv, Quiet, Looking, TypeOK,
               Pc
      <3> QED
        BY <1>1, <3>1, PidAssumption DEF IInv, TypeOK, DiscordTypeOK
    <2>2. CASE StartDirect
      BY <1>1, <2>2, DirectPlace DEF IInv, ChildInv
    <2>3. CASE ~StartProxied /\ ~StartDirect
      BY <1>1, <2>3, OnlyStarts DEF IInv, TypeOK, DiscordTypeOK
    <2> QED
      BY <2>1, <2>2, <2>3
  <1>2. IInv /\ [Next]_vars => [Again]_vars
    BY <1>1
  <1> QED
    BY Inductive, <1>2, PTL DEF Spec, NoSecondBootstrap
=============================================================================
