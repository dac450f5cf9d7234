----------------------------- MODULE Activation -----------------------------
(***************************************************************************)
(* run of cmd/discord-unlocker/main.go, in launchers of one session that   *)
(* are started at any moment: each opens the log, which may rotate it      *)
(* (internal/logging), then asks for the named mutex (internal/winutil).   *)
(* What the launcher that gets it does is module Launcher.                 *)
(*                                                                         *)
(* The log is rotated before the mutex is held. On Windows Go opens a file *)
(* without FILE_SHARE_DELETE: a log that some launcher has open cannot be  *)
(* renamed. The mutex object lives as long as any handle of it, those of   *)
(* refused launchers included.                                             *)
(*                                                                         *)
(* A log file is its number in the order of creation, 0 where there is     *)
(* none.                                                                   *)
(***************************************************************************)
EXTENDS Naturals

CONSTANTS
    Starter,                \* the launchers that are started
    LogBackups              \* logBackups, 3 in the program

ASSUME BackupsAssumption == LogBackups \in Nat \ {0}

VARIABLES
    pc,                     \* where run stands in each launcher
    k,                      \* the loop variable of rotateIfNeeded
    dir,                    \* the log, at 0, and its backups
    oversized,              \* the log has reached maxLogBytes
    open,                   \* the launchers that have the log open
    handles,                \* those that hold a handle of the mutex
    created,                \* history: log files so far
    rotated,                \* history: the log each has moved aside
    served, faulty          \* history: who came to Run, and who left
                            \* early or was let down by the system

logVars == <<dir, oversized, created, rotated>>
historyVars == <<served, faulty>>
vars == <<pc, k, logVars, open, handles, historyVars>>

Log == 0
NoFile == 0
Slot == 0..LogBackups
Rotating == {"remove", "rename"}
Holding == {"work", "release"}
Place == {"new", "stat", "open", "create", "refused", "close", "ended"}
             \union Rotating \union Holding

(* The number of a file that was there before: the older, the lower. *)
Earlier(slot) == LogBackups + 1 - slot

Init ==
    /\ pc = [s \in Starter |-> "new"]
    /\ k = [s \in Starter |-> LogBackups]
    /\ \E present \in SUBSET Slot :
          dir = [x \in Slot |-> IF x \in present THEN Earlier(x) ELSE NoFile]
    /\ oversized \in BOOLEAN /\ (oversized => dir[Log] # NoFile)
    /\ open = {} /\ handles = {}
    /\ created = LogBackups + 1
    /\ rotated = [s \in Starter |-> NoFile]
    /\ served = {} /\ faulty = {}

-----------------------------------------------------------------------------
Goto(s, place) == pc' = [pc EXCEPT ![s] = place]
Step(s, from, to) == pc[s] = from /\ Goto(s, to)

(* A launcher that ends gives back whatever it holds. *)
End(s) ==
    /\ Goto(s, "ended")
    /\ open' = open \ {s}
    /\ handles' = handles \ {s}
    /\ UNCHANGED <<k, logVars, served>>

(* --help, --version, wrong arguments, no console, no paths: run returns   *)
(* before it touches anything.                                             *)
LeaveEarly(s) ==
    /\ pc[s] = "new"
    /\ End(s)
    /\ faulty' = faulty \union {s}

Begin(s) ==
    /\ Step(s, "new", "stat")
    /\ UNCHANGED <<k, logVars, open, handles, historyVars>>

(* Any of the system calls fails, or the process is killed. *)
SystemFails(s) ==
    /\ pc[s] \notin {"new", "ended"}
    /\ End(s)
    /\ faulty' = faulty \union {s}

(* rotateIfNeeded *)
Stat(s) ==
    /\ pc[s] = "stat"
    /\ IF oversized
       THEN Goto(s, "remove") /\ k' = [k EXCEPT ![s] = LogBackups]
       ELSE Goto(s, "open") /\ UNCHANGED k
    /\ UNCHANGED <<logVars, open, handles, historyVars>>

(* The result of Remove is not looked at. *)
Remove(s) ==
    /\ Step(s, "remove", "rename")
    /\ dir' \in {dir, [dir EXCEPT ![k[s]] = NoFile]}
    /\ UNCHANGED <<k, oversized, created, rotated, open, handles, historyVars>>

RenameBackupOrFail(s) ==    \* mutant: a missing backup is an error
    /\ pc[s] = "rename" /\ k[s] > 1
    /\ IF dir[k[s] - 1] = NoFile
       THEN End(s) /\ UNCHANGED faulty
       ELSE /\ dir' = [dir EXCEPT ![k[s]] = dir[k[s] - 1],
                                  ![k[s] - 1] = NoFile]
            /\ k' = [k EXCEPT ![s] = @ - 1]
            /\ Goto(s, "remove")
            /\ UNCHANGED <<oversized, created, rotated, open, handles,
                           historyVars>>

RenameBackupBefore(s) ==    \* mutant: off by one, a backup is passed over
    /\ Step(s, "rename", "remove") /\ k[s] > 1
    /\ IF k[s] = 2 \/ dir[k[s] - 2] = NoFile
       THEN UNCHANGED dir
       ELSE dir' = [dir EXCEPT ![k[s]] = dir[k[s] - 2], ![k[s] - 2] = NoFile]
    /\ k' = [k EXCEPT ![s] = @ - 1]
    /\ UNCHANGED <<oversized, created, rotated, open, handles, historyVars>>

RenameBackup(s) ==
    /\ Step(s, "rename", "remove") /\ k[s] > 1
    /\ IF dir[k[s] - 1] = NoFile
       THEN UNCHANGED dir
       ELSE dir' = [dir EXCEPT ![k[s]] = dir[k[s] - 1], ![k[s] - 1] = NoFile]
    /\ k' = [k EXCEPT ![s] = @ - 1]
    /\ UNCHANGED <<oversized, created, rotated, open, handles, historyVars>>

MayRenameOpenLog ==         \* mutant: files are shared for deletion
    dir[Log] # NoFile

MayRenameLog == dir[Log] # NoFile /\ open = {}

RenameLog(s) ==
    /\ Step(s, "rename", "open") /\ k[s] = 1 /\ MayRenameLog
    /\ dir' = [dir EXCEPT ![1] = dir[Log], ![Log] = NoFile]
    /\ rotated' = [rotated EXCEPT ![s] = dir[Log]]
    /\ oversized' = FALSE
    /\ UNCHANGED <<k, created, open, handles, historyVars>>

(* The log is gone, or a launcher has it open. *)
RenameLogFails(s) ==
    /\ pc[s] = "rename" /\ k[s] = 1 /\ ~MayRenameLog
    /\ End(s)
    /\ UNCHANGED faulty

OpenLog(s) ==
    /\ Step(s, "open", "create")
    /\ IF dir[Log] # NoFile
       THEN UNCHANGED <<dir, created>>
       ELSE /\ created' = created + 1
            /\ dir' = [dir EXCEPT ![Log] = created + 1]
    /\ open' = open \union {s}
    /\ UNCHANGED <<k, oversized, rotated, handles, historyVars>>

(* Any line written at work, or by a refused launcher, may fill the log. *)
Printf(s) ==
    /\ pc[s] = "work" \/ (pc[s] = "close" /\ s \notin served)
    /\ ~oversized /\ oversized' = TRUE
    /\ UNCHANGED <<pc, k, dir, created, rotated, open, handles, historyVars>>

-----------------------------------------------------------------------------
AcquireBriefly(s) ==        \* mutant: the handle is not kept
    /\ pc[s] = "create" /\ handles = {}
    /\ Goto(s, "work")
    /\ served' = served \union {s}
    /\ UNCHANGED <<k, logVars, open, handles, faulty>>

(* CreateMutexW makes the object or opens the one that exists. *)
Acquire(s) ==
    /\ pc[s] = "create" /\ handles = {}
    /\ Goto(s, "work")
    /\ handles' = {s}
    /\ served' = served \union {s}
    /\ UNCHANGED <<k, logVars, open, faulty>>

FindTaken(s) ==
    /\ Step(s, "create", "refused") /\ handles # {}
    /\ handles' = handles \union {s}
    /\ UNCHANGED <<k, logVars, open, historyVars>>

CloseRefused(s) ==
    /\ Step(s, "refused", "close")
    /\ handles' = handles \ {s}
    /\ UNCHANGED <<k, logVars, open, historyVars>>

(* Discord is not found, or Run has returned. *)
WorkEnds(s) ==
    /\ Step(s, "work", "release")
    /\ UNCHANGED <<k, logVars, open, handles, historyVars>>

(* The deferred calls: the mutex first, then the log. *)
Release(s) ==
    /\ Step(s, "release", "close")
    /\ handles' = handles \ {s}
    /\ UNCHANGED <<k, logVars, open, historyVars>>

CloseLog(s) ==
    /\ pc[s] = "close"
    /\ End(s)
    /\ UNCHANGED faulty

Next ==
    \E s \in Starter :
        \/ LeaveEarly(s) \/ Begin(s) \/ SystemFails(s)
        \/ Stat(s) \/ Remove(s) \/ RenameBackup(s)
        \/ RenameLog(s) \/ RenameLogFails(s) \/ OpenLog(s) \/ Printf(s)
        \/ Acquire(s) \/ FindTaken(s) \/ CloseRefused(s)
        \/ WorkEnds(s) \/ Release(s) \/ CloseLog(s)

Spec == Init /\ [][Next]_vars

-----------------------------------------------------------------------------
(* Every variable keeps to its domain, and only a log that exists is open  *)
(* or oversized (logging.go:25-90).                                        *)
TypeOK ==
    /\ pc \in [Starter -> Place]
    /\ k \in [Starter -> 1..LogBackups]
    /\ dir \in [Slot -> Nat]
    /\ oversized \in BOOLEAN
    /\ open \subseteq Starter /\ handles \subseteq Starter
    /\ created \in Nat
    /\ rotated \in [Starter -> Nat]
    /\ served \subseteq Starter /\ faulty \subseteq Starter
    /\ open # {} \/ oversized => dir[Log] # NoFile

(* No two launchers of a session are at work at once, although the owner   *)
(* never owns the mutex but only keeps a handle, and refused launchers     *)
(* come and go with handles of their own (mutex_windows.go:35-74).         *)
OneWorks ==
    \A s, t \in Starter : pc[s] \in Holding /\ pc[t] \in Holding => s = t

(* However many launchers rotate at once, the logs stay in order of age,   *)
(* the youngest first, and none is there twice (logging.go:63-90).         *)
LogsInOrder ==
    \A x, y \in Slot :
        x < y /\ dir[x] # NoFile /\ dir[y] # NoFile => dir[x] > dir[y]

(* Launchers may turn each other away, by the log that one has open or     *)
(* moved and by the mutex, but never all of them: unless one left early or *)
(* the system let it down, some launcher came to Run (main.go:57-99).      *)
SomeoneServes ==
    (\A s \in Starter : pc[s] = "ended") /\ faulty = {} /\ Starter # {} =>
        served # {}

-----------------------------------------------------------------------------
(* "conteúdo antigo não foi preservado no primeiro backup": a log that     *)
(* Open has moved aside is the first backup when it returns                *)
(* (logging_test.go:33-36).                                                *)
RotatedIsKept ==
    [][\A s \in Starter :
           pc[s] = "open" /\ pc'[s] = "create" /\ rotated[s] # NoFile =>
               dir[1] = rotated[s]]_vars
=============================================================================
