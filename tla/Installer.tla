----------------------------- MODULE Installer -----------------------------
(***************************************************************************)
(* The [Code] section of installer/discord-unlocker.iss: setup saves the   *)
(* Discord shortcuts and the autostart entry, then makes them start the    *)
(* launcher; uninstall gives them back.                                    *)
(*                                                                         *)
(* Everything lasting is on disk or in the registry, so a crash, a power   *)
(* loss and an exception that ends setup are the same step: Abort. Setup   *)
(* and uninstall can then be started again. Between any two of their steps *)
(* the user, or an update of Discord, may change a shortcut or the entry.  *)
(*                                                                         *)
(* A shortcut is what the code tells apart: absent, one that starts the    *)
(* launcher, or some other content. Its temporary file, which the next     *)
(* attempt deletes unread, is left out.                                    *)
(***************************************************************************)
EXTENDS Naturals

CONSTANTS
    N,                      \* the managed shortcuts, 1..N: 4 in the program
    CreateAlways,           \* those created when there was none
    Foreign,                \* contents that do not start the launcher
    EditsWhileRunning,      \* TRUE: also while setup or uninstall runs
    InspectMayFail          \* TRUE: WScript.Shell may refuse a shortcut

Absent == "absent"
Launcher == "launcher"
Torn == "torn"              \* a copy that was interrupted
Any == "any"

ASSUME NAssumption == N \in Nat \ {0}
ASSUME CreateAssumption == CreateAlways \subseteq 1..N
ASSUME ForeignAssumption ==
    \A f \in Foreign : f \notin {Absent, Launcher, Torn, Any}
ASSUME SwitchAssumption ==
    EditsWhileRunning \in BOOLEAN /\ InspectMayFail \in BOOLEAN

VARIABLES
    at,                     \* where setup or uninstall stands
    i,                      \* the shortcut it works on
    ok,                     \* the Result of RestoreManagedShortcuts
    installed,              \* the files and the uninstaller are there
    link,                   \* the shortcuts
    backup,                 \* their copies under installer-state\shortcuts
    known,                  \* Shortcut.<Id>.OriginalExists in the registry
    run,                    \* the autostart entry of Discord
    runBackup,              \* OriginalDiscordRun
    runKnown,               \* OriginalDiscordRunExists
    owed, owedRun           \* history: what uninstall owes the user, Any
                            \* once the user has changed it

linkVars == <<link, owed>>
stateVars == <<backup, known>>
runVars == <<run, owedRun, runBackup, runKnown>>
vars == <<at, i, ok, installed, linkVars, stateVars, runVars>>

Id == 1..N
Resting == {"idle", "refused", "removed"}
Place == Resting \union
    {"backup", "record", "files", "install", "replace", "run", "runRecord",
     "runSet", "restoreRun", "restore", "undo", "decide", "tree", "key",
     "finish"}
Own == Foreign \union {Absent}
Known == {"unset", "0", "1"}

Init ==
    /\ at = "idle" /\ i = 1 /\ ok = TRUE
    /\ installed = FALSE
    /\ link \in [Id -> Own]
    /\ backup = [s \in Id |-> Absent]
    /\ known = [s \in Id |-> "unset"]
    /\ run \in Own
    /\ runBackup = Absent /\ runKnown = "unset"
    /\ owed = [s \in Id |-> Any] /\ owedRun = Any

-----------------------------------------------------------------------------
(* The environment. *)
MayEdit == EditsWhileRunning \/ at \in Resting

EditLink ==
    /\ MayEdit
    /\ \E s \in Id : \E new \in Own \ {link[s]} :
          /\ link' = [link EXCEPT ![s] = new]
          /\ owed' = [owed EXCEPT ![s] = Any]
    /\ UNCHANGED <<at, i, ok, installed, stateVars, runVars>>

EditRun ==
    /\ MayEdit
    /\ run' \in Own \ {run}
    /\ owedRun' = Any
    /\ UNCHANGED <<at, i, ok, installed, linkVars, stateVars, runBackup,
                   runKnown>>

(* A crash, or an exception that ends the run where it is. *)
Abort ==
    /\ at \notin Resting
    /\ at' = "idle"
    /\ UNCHANGED <<i, ok, installed, linkVars, stateVars, runVars>>

-----------------------------------------------------------------------------
Advance(place, after) ==
    IF i < N THEN at' = place /\ i' = i + 1 ELSE at' = after /\ i' = 1

Goto(place) == at' = place /\ UNCHANGED i

StartSetup ==
    /\ at \in Resting
    /\ at' = "backup" /\ i' = 1
    /\ UNCHANGED <<ok, installed, linkVars, stateVars, runVars>>

(* BackupShortcut: the state of an earlier setup is kept. *)
BackupKnown ==
    /\ at = "backup" /\ known[i] # "unset"
    /\ known[i] = "1" => backup[i] # Absent
    /\ Advance("backup", "files")
    /\ UNCHANGED <<ok, installed, linkVars, stateVars, runVars>>

BackupCopyAgain ==          \* mutant: the saved state is not asked for
    /\ at = "backup" /\ link[i] # Absent
    /\ backup' = [backup EXCEPT ![i] = link[i]]
    /\ owed' = [owed EXCEPT ![i] = link[i]]
    /\ Goto("record")
    /\ UNCHANGED <<ok, installed, link, known, runVars>>

BackupCopy ==
    /\ at = "backup" /\ known[i] = "unset" /\ link[i] # Absent
    /\ backup' = [backup EXCEPT ![i] = link[i]]
    /\ owed' = [owed EXCEPT ![i] = link[i]]
    /\ Goto("record")
    /\ UNCHANGED <<ok, installed, link, known, runVars>>

(* CopyFile fails or is interrupted, with part of the file written. *)
BackupTornRecorded ==       \* mutant: the state goes before the copy
    /\ at = "backup" /\ known[i] = "unset" /\ link[i] # Absent
    /\ backup' = [backup EXCEPT ![i] = Torn]
    /\ known' = [known EXCEPT ![i] = "1"]
    /\ Goto("idle")
    /\ UNCHANGED <<ok, installed, linkVars, runVars>>

BackupTorn ==
    /\ at = "backup" /\ known[i] = "unset" /\ link[i] # Absent
    /\ backup' = [backup EXCEPT ![i] = Torn]
    /\ Goto("idle")
    /\ UNCHANGED <<ok, installed, linkVars, known, runVars>>

BackupRecord ==
    /\ at = "record"
    /\ known' = [known EXCEPT ![i] = "1"]
    /\ Advance("backup", "files")
    /\ UNCHANGED <<ok, installed, linkVars, backup, runVars>>

BackupAbsent ==
    /\ at = "backup" /\ known[i] = "unset" /\ link[i] = Absent
    /\ known' = [known EXCEPT ![i] = "0"]
    /\ owed' = [owed EXCEPT ![i] = Absent]
    /\ Advance("backup", "files")
    /\ UNCHANGED <<ok, installed, link, backup, runVars>>

(* Inno Setup copies the files and registers the uninstaller. *)
CopyFiles ==
    /\ at = "files"
    /\ installed' = TRUE
    /\ Goto("install")
    /\ UNCHANGED <<ok, linkVars, stateVars, runVars>>

(* InstallManagedShortcut *)
CreateWhenMissing == i \in CreateAlways \/ known[i] = "1"

InstallSkips ==
    /\ at = "install" /\ link[i] = Absent /\ ~CreateWhenMissing
    /\ Advance("install", "run")
    /\ UNCHANGED <<ok, installed, linkVars, stateVars, runVars>>

InstallPrepares ==
    /\ at = "install" /\ (link[i] # Absent \/ CreateWhenMissing)
    /\ Goto("replace")
    /\ UNCHANGED <<ok, installed, linkVars, stateVars, runVars>>

InstallReplaces ==
    /\ at = "replace"
    /\ link' = [link EXCEPT ![i] = Launcher]
    /\ Advance("install", "run")
    /\ UNCHANGED <<ok, installed, owed, stateVars, runVars>>

(* BackupAndSetDiscordAutostart *)
RunIsKnown ==
    /\ at = "run" /\ runKnown # "unset"
    /\ runKnown = "1" => runBackup # Absent
    /\ Goto("runSet")
    /\ UNCHANGED <<ok, installed, linkVars, stateVars, runVars>>

RunBackup ==
    /\ at = "run" /\ runKnown = "unset"
    /\ owedRun' = run
    /\ IF run = Absent
       THEN runKnown' = "0" /\ Goto("runSet") /\ UNCHANGED runBackup
       ELSE runBackup' = run /\ Goto("runRecord") /\ UNCHANGED runKnown
    /\ UNCHANGED <<ok, installed, linkVars, stateVars, run>>

RunRecord ==
    /\ at = "runRecord"
    /\ runKnown' = "1"
    /\ Goto("runSet")
    /\ UNCHANGED <<ok, installed, linkVars, stateVars, run, owedRun, runBackup>>

RunSet ==
    /\ at = "runSet"
    /\ run' = Launcher
    /\ Goto("idle")
    /\ UNCHANGED <<ok, installed, linkVars, stateVars, owedRun, runBackup,
                   runKnown>>

-----------------------------------------------------------------------------
StartUninstall ==
    /\ at \in Resting /\ installed
    /\ at' = "restoreRun" /\ i' = 1 /\ ok' = TRUE
    /\ UNCHANGED <<installed, linkVars, stateVars, runVars>>

(* RestoreDiscordAutostart: what no longer starts the launcher is left.    *)
RunRestored ==
    IF run # Launcher THEN {run}
    ELSE CASE runKnown = "0" -> {Absent}
           [] runKnown = "1" /\ runBackup # Absent -> {runBackup}
           [] OTHER -> {}

RestoreRun ==
    /\ at = "restoreRun"
    /\ run' \in RunRestored
    /\ Goto("restore")
    /\ UNCHANGED <<ok, installed, linkVars, stateVars, owedRun, runBackup,
                   runKnown>>

RestoreRunFails ==
    /\ at = "restoreRun" /\ run = Launcher
    /\ Goto("refused")
    /\ UNCHANGED <<ok, installed, linkVars, stateVars, runVars>>

(* RestoreManagedShortcut: the recorded state, or the copy it promises, is *)
(* missing.                                                                *)
StateMissing ==
    \/ known[i] = "unset"
    \/ known[i] = "1" /\ link[i] = Launcher /\ backup[i] = Absent

RestoreCannot ==
    /\ at = "restore" /\ StateMissing
    /\ ok' = FALSE
    /\ Advance("restore", "decide")
    /\ UNCHANGED <<installed, linkVars, stateVars, runVars>>

(* ShortcutPointsToLauncher also answers no when it cannot tell. *)
RestoreKeeps ==
    /\ at = "restore" /\ known[i] # "unset"
    /\ link[i] # Launcher \/ InspectMayFail
    /\ Advance("restore", "decide")
    /\ UNCHANGED <<ok, installed, linkVars, stateVars, runVars>>

RestoreBegins ==
    /\ at = "restore" /\ link[i] = Launcher /\ ~StateMissing
    /\ Goto("undo")
    /\ UNCHANGED <<ok, installed, linkVars, stateVars, runVars>>

(* DeleteFile of a shortcut setup had made, or ReplaceShortcutAtomically.  *)
Undo ==
    /\ at = "undo"
    /\ link' = [link EXCEPT ![i] = IF known[i] = "0" THEN Absent ELSE backup[i]]
    /\ Advance("restore", "decide")
    /\ UNCHANGED <<ok, installed, owed, stateVars, runVars>>

UndoFails ==
    /\ at = "undo"
    /\ ok' = FALSE
    /\ Advance("restore", "decide")
    /\ UNCHANGED <<installed, linkVars, stateVars, runVars>>

DecideAnyway ==             \* mutant: the result of a restore is dropped
    /\ at = "decide"
    /\ Goto("tree")
    /\ UNCHANGED <<ok, installed, linkVars, stateVars, runVars>>

Decide ==
    /\ at = "decide"
    /\ Goto(IF ok THEN "tree" ELSE "refused")
    /\ UNCHANGED <<ok, installed, linkVars, stateVars, runVars>>

(* CleanupSavedState: neither failure is more than logged. DelTree may     *)
(* remove some of the backups.                                             *)
CleanTree ==
    /\ at = "tree"
    /\ \E gone \in SUBSET Id :
          backup' = [s \in Id |-> IF s \in gone THEN Absent ELSE backup[s]]
    /\ Goto("key")
    /\ UNCHANGED <<ok, installed, linkVars, known, runVars>>

CleanKey ==
    /\ at = "key"
    /\ \/ /\ known' = [s \in Id |-> "unset"]
          /\ runKnown' = "unset" /\ runBackup' = Absent
       \/ UNCHANGED <<known, runKnown, runBackup>>
    /\ Goto("finish")
    /\ UNCHANGED <<ok, installed, linkVars, backup, run, owedRun>>

(* Inno Setup removes the files and, last, the uninstaller. *)
Finish ==
    /\ at = "finish"
    /\ installed' = FALSE
    /\ Goto("removed")
    /\ UNCHANGED <<ok, linkVars, stateVars, runVars>>

Setup ==
    \/ StartSetup
    \/ BackupKnown \/ BackupCopy \/ BackupTorn \/ BackupRecord \/ BackupAbsent
    \/ CopyFiles
    \/ InstallSkips \/ InstallPrepares \/ InstallReplaces
    \/ RunIsKnown \/ RunBackup \/ RunRecord \/ RunSet

Uninstall ==
    \/ StartUninstall
    \/ RestoreRun \/ RestoreRunFails
    \/ RestoreCannot \/ RestoreKeeps \/ RestoreBegins
    \/ Undo \/ UndoFails
    \/ Decide \/ CleanTree \/ CleanKey \/ Finish

Next == EditLink \/ EditRun \/ Abort \/ Setup \/ Uninstall

Spec == Init /\ [][Next]_vars

-----------------------------------------------------------------------------
(* Every variable keeps to its domain; a saved copy is never one of the    *)
(* launcher's own shortcuts (iss:205-228).                                 *)
TypeOK ==
    /\ at \in Place
    /\ i \in Id
    /\ ok \in BOOLEAN
    /\ installed \in BOOLEAN
    /\ link \in [Id -> Own \union {Launcher}]
    /\ backup \in [Id -> Own \union {Torn}]
    /\ known \in [Id -> Known]
    /\ run \in Own \union {Launcher}
    /\ runBackup \in Own
    /\ runKnown \in Known
    /\ owed \in [Id -> Own \union {Any}]
    /\ owedRun \in Own \union {Any}

Restores(state, copy, promise) ==
    \/ state = "0" /\ promise \in {Absent, Any}
    \/ state = "1" /\ copy \in Foreign /\ promise \in {copy, Any}

(* Whatever starts the launcher can be given back, at every moment of      *)
(* setups and uninstalls that are repeated and interrupted anywhere: its   *)
(* state is recorded and the recorded copy is whole, not the launcher's    *)
(* own, and the one the user had ("Never replace the original unless a     *)
(* complete backup state exists", iss:184; 205-228, 430-438).              *)
Restorable ==
    /\ \A s \in Id :
           link[s] = Launcher => Restores(known[s], backup[s], owed[s])
    /\ run = Launcher => Restores(runKnown, runBackup, owedRun)

(* An uninstall that ends leaves nothing that starts the removed launcher, *)
(* and every shortcut and the entry as they were before the first setup,   *)
(* unless the user has changed them since (iss:450-459).                   *)
UninstallPaysBack ==
    at = "removed" =>
        /\ \A s \in Id :
               link[s] # Launcher /\ owed[s] \in {link[s], Any}
        /\ run # Launcher /\ owedRun \in {run, Any}

-----------------------------------------------------------------------------
(* "Antes de alterar qualquer atalho, o instalador salva uma cópia binária *)
(* do .lnk original." (README.md:17)                                       *)
NoChangeWithoutBackup ==
    [][\A s \in Id :
           link[s] \in Foreign /\ link'[s] = Launcher => backup[s] = link[s]]_vars

(* "Installer-state backups are deliberately excluded. [Code] removes them *)
(* only after every shortcut and autostart value has been restored         *)
(* successfully." (iss:78-79)                                              *)
BackupsOutliveManagedShortcuts ==
    [][\A s \in Id :
           backup[s] # Absent /\ backup'[s] = Absent => link[s] # Launcher]_vars
=============================================================================
