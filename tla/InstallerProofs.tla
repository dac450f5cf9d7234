-------------------------- MODULE InstallerProofs --------------------------
(***************************************************************************)
(* Theorems about Installer for any number of shortcuts, any contents and  *)
(* a user who edits whenever they like, as long as a shortcut can be       *)
(* inspected (installer_inspect shows that they do not hold otherwise).    *)
(***************************************************************************)
EXTENDS Installer, TLAPS

(***************************************************************************)
(* A recorded state is true: its copy is whole, or has been cleaned up,    *)
(* and is what the user is owed. Whatever does not start the launcher is   *)
(* already paid back.                                                      *)
(***************************************************************************)
Recorded(s) ==
    /\ known[s] = "0" => owed[s] \in {Absent, Any}
    /\ known[s] = "1" =>
           \/ backup[s] = Absent
           \/ backup[s] \in Foreign /\ owed[s] \in {backup[s], Any}

Paid(s) == link[s] # Launcher => owed[s] \in {link[s], Any}

Good(s) == known[s] # "unset" /\ (known[s] = "1" => backup[s] # Absent)

LinkInv ==
    \A s \in Id : Recorded(s) /\ Paid(s) /\ (link[s] = Launcher => Good(s))

RunInv ==
    /\ runKnown = "0" => owedRun \in {Absent, Any}
    /\ runKnown = "1" => runBackup \in Foreign /\ owedRun \in {runBackup, Any}
    /\ run # Launcher => owedRun \in {run, Any}
    /\ run = Launcher => runKnown # "unset"

(* What setup has reached before it changes anything. *)
SetupInv ==
    /\ at \in {"backup", "record"} => \A s \in Id : s < i => Good(s)
    /\ at = "record" =>
           backup[i] \in Foreign /\ owed[i] \in {backup[i], Any}
    /\ at \in {"files", "install", "replace"} => \A s \in Id : Good(s)
    /\ at = "runRecord" =>
           runBackup \in Foreign /\ owedRun \in {runBackup, Any}
    /\ at = "runSet" => runKnown # "unset"

(* What uninstall has reached before it cleans up. *)
UninstallInv ==
    /\ at \in {"restore", "undo"} /\ ok =>
           \A s \in Id : s < i => link[s] # Launcher
    /\ at = "restoreRun" => i = 1
    /\ at = "undo" => Good(i)
    /\ at = "decide" /\ ok => \A s \in Id : link[s] # Launcher
    /\ at \in {"tree", "key", "finish", "removed"} =>
           \A s \in Id : link[s] # Launcher
    /\ at \in {"restore", "undo", "decide", "tree", "key", "finish", "removed"}
           => run # Launcher

IInv == TypeOK /\ LinkInv /\ RunInv /\ SetupInv /\ UninstallInv

-----------------------------------------------------------------------------
(* The contents of shortcuts, the words of a state and the places differ.  *)
LEMMA Contents ==
    /\ Absent \in Own /\ Foreign \subseteq Own /\ Own = Foreign \union {Absent}
    /\ Launcher \notin Own /\ Torn \notin Own /\ Any \notin Own
    /\ Absent \notin Foreign
    /\ Launcher # Torn /\ Launcher # Any /\ Torn # Any
  BY ForeignAssumption DEF Own, Absent, Launcher, Torn, Any

(* A walk through the shortcuts stays among them. *)
LEMMA Walk ==
    ASSUME i \in Id, NEW place, NEW after, Advance(place, after)
    PROVE  /\ i' \in Id
           /\ \/ at' = place /\ i' = i + 1
              \/ at' = after /\ i' = 1 /\ i = N
  BY NAssumption DEF Advance, Id

LEMMA InitEstablishes == Init => IInv
  <1> SUFFICES ASSUME Init PROVE IInv
    OBVIOUS
  <1> USE DEF Init
  <1>1. TypeOK
    <2>1. i \in Id
      BY NAssumption DEF Id
    <2>2. /\ link \in [Id -> Own \union {Launcher}]
          /\ backup \in [Id -> Own \union {Torn}]
          /\ known \in [Id -> Known]
          /\ owed \in [Id -> Own \union {Any}]
      BY Contents DEF Known
    <2> QED
      BY <2>1, <2>2, Contents DEF TypeOK, Place, Resting
  <1>2. LinkInv /\ RunInv
    BY Contents DEF LinkInv, Recorded, Paid, RunInv
  <1>3. SetupInv /\ UninstallInv
    BY DEF SetupInv, UninstallInv
  <1> QED
    BY <1>1, <1>2, <1>3 DEF IInv

(* A step that changes neither shortcuts nor what is saved of them. *)
LEMMA SameLinks ==
    ASSUME LinkInv, UNCHANGED <<linkVars, stateVars>>
    PROVE  LinkInv'
  BY DEF LinkInv, Recorded, Paid, Good, linkVars, stateVars

LEMMA SameRun ==
    ASSUME RunInv, UNCHANGED runVars
    PROVE  RunInv'
  BY DEF RunInv, runVars

(* A step that only moves on. *)
LEMMA SameTypes ==
    ASSUME TypeOK, UNCHANGED <<linkVars, stateVars, runVars>>,
           at' \in Place, i' \in Id, ok' \in BOOLEAN, installed' \in BOOLEAN
    PROVE  TypeOK'
  BY DEF TypeOK, linkVars, stateVars, runVars

-----------------------------------------------------------------------------
(* The steps that only move on. *)
LEMMA AbortKeeps ==
    ASSUME IInv, Abort
    PROVE  IInv'
  <1> USE DEF Abort, Goto
  <1>1. TypeOK'
    BY SameTypes DEF IInv, TypeOK, Place, Resting
  <1>2. LinkInv'
    BY SameLinks DEF IInv
  <1>3. RunInv'
    BY SameRun DEF IInv
  <1>4. SetupInv'
    BY DEF SetupInv
  <1>5. UninstallInv'
    BY DEF UninstallInv
  <1> QED
    BY <1>1, <1>2, <1>3, <1>4, <1>5 DEF IInv

LEMMA StartSetupKeeps ==
    ASSUME IInv, StartSetup
    PROVE  IInv'
  <1> USE DEF StartSetup, Goto
  <1>1. TypeOK'
    BY SameTypes, NAssumption DEF IInv, TypeOK, Place, Id
  <1>2. LinkInv'
    BY SameLinks DEF IInv
  <1>3. RunInv'
    BY SameRun DEF IInv
  <1>4. SetupInv'
    BY DEF SetupInv, Id
  <1>5. UninstallInv'
    BY DEF UninstallInv
  <1> QED
    BY <1>1, <1>2, <1>3, <1>4, <1>5 DEF IInv

LEMMA BackupKnownKeeps ==
    ASSUME IInv, BackupKnown
    PROVE  IInv'
  <1> USE DEF BackupKnown
  <1>1. TypeOK'
    BY SameTypes, Walk DEF IInv, TypeOK, Place
  <1>2. LinkInv'
    BY SameLinks DEF IInv
  <1>3. RunInv'
    BY SameRun DEF IInv
  <1>4. SetupInv'
    BY Walk DEF IInv, SetupInv, Good, TypeOK, Id, stateVars
  <1>5. UninstallInv'
    BY Walk DEF IInv, UninstallInv, TypeOK
  <1> QED
    BY <1>1, <1>2, <1>3, <1>4, <1>5 DEF IInv

LEMMA CopyFilesKeeps ==
    ASSUME IInv, CopyFiles
    PROVE  IInv'
  <1> USE DEF CopyFiles, Goto
  <1>1. TypeOK'
    BY SameTypes DEF IInv, TypeOK, Place
  <1>2. LinkInv'
    BY SameLinks DEF IInv
  <1>3. RunInv'
    BY SameRun DEF IInv
  <1>4. SetupInv'
    BY DEF IInv, SetupInv, Good, stateVars
  <1>5. UninstallInv'
    BY DEF UninstallInv
  <1> QED
    BY <1>1, <1>2, <1>3, <1>4, <1>5 DEF IInv

LEMMA InstallSkipsKeeps ==
    ASSUME IInv, InstallSkips
    PROVE  IInv'
  <1> USE DEF InstallSkips
  <1>1. TypeOK'
    BY SameTypes, Walk DEF IInv, TypeOK, Place
  <1>2. LinkInv'
    BY SameLinks DEF IInv
  <1>3. RunInv'
    BY SameRun DEF IInv
  <1>4. SetupInv'
    BY Walk DEF IInv, SetupInv, Good, TypeOK, stateVars
  <1>5. UninstallInv'
    BY Walk DEF IInv, UninstallInv, TypeOK
  <1> QED
    BY <1>1, <1>2, <1>3, <1>4, <1>5 DEF IInv

LEMMA InstallPreparesKeeps ==
    ASSUME IInv, InstallPrepares
    PROVE  IInv'
  <1> USE DEF InstallPrepares, Goto
  <1>1. TypeOK'
    BY SameTypes DEF IInv, TypeOK, Place
  <1>2. LinkInv'
    BY SameLinks DEF IInv
  <1>3. RunInv'
    BY SameRun DEF IInv
  <1>4. SetupInv'
    BY DEF IInv, SetupInv, Good, stateVars
  <1>5. UninstallInv'
    BY DEF UninstallInv
  <1> QED
    BY <1>1, <1>2, <1>3, <1>4, <1>5 DEF IInv

LEMMA RunIsKnownKeeps ==
    ASSUME IInv, RunIsKnown
    PROVE  IInv'
  <1> USE DEF RunIsKnown, Goto
  <1>1. TypeOK'
    BY SameTypes DEF IInv, TypeOK, Place
  <1>2. LinkInv'
    BY SameLinks DEF IInv
  <1>3. RunInv'
    BY SameRun DEF IInv
  <1>4. SetupInv'
    BY DEF SetupInv, runVars
  <1>5. UninstallInv'
    BY DEF UninstallInv
  <1> QED
    BY <1>1, <1>2, <1>3, <1>4, <1>5 DEF IInv

LEMMA StartUninstallKeeps ==
    ASSUME IInv, StartUninstall
    PROVE  IInv'
  <1> USE DEF StartUninstall, Goto
  <1>1. TypeOK'
    BY SameTypes, NAssumption DEF IInv, Place, Id
  <1>2. LinkInv'
    BY SameLinks DEF IInv
  <1>3. RunInv'
    BY SameRun DEF IInv
  <1>4. SetupInv'
    BY DEF SetupInv
  <1>5. UninstallInv'
    BY DEF UninstallInv
  <1> QED
    BY <1>1, <1>2, <1>3, <1>4, <1>5 DEF IInv

LEMMA RestoreRunFailsKeeps ==
    ASSUME IInv, RestoreRunFails
    PROVE  IInv'
  <1> USE DEF RestoreRunFails, Goto
  <1>1. TypeOK'
    BY SameTypes DEF IInv, TypeOK, Place, Resting
  <1>2. LinkInv'
    BY SameLinks DEF IInv
  <1>3. RunInv'
    BY SameRun DEF IInv
  <1>4. SetupInv'
    BY DEF SetupInv
  <1>5. UninstallInv'
    BY DEF UninstallInv
  <1> QED
    BY <1>1, <1>2, <1>3, <1>4, <1>5 DEF IInv

LEMMA RestoreCannotKeeps ==
    ASSUME IInv, RestoreCannot
    PROVE  IInv'
  <1> USE DEF RestoreCannot
  <1>1. TypeOK'
    BY SameTypes, Walk DEF IInv, TypeOK, Place
  <1>2. LinkInv'
    BY SameLinks DEF IInv
  <1>3. RunInv'
    BY SameRun DEF IInv
  <1>4. SetupInv'
    BY Walk DEF IInv, SetupInv, TypeOK
  <1>5. UninstallInv'
    BY Walk DEF IInv, UninstallInv, TypeOK, runVars
  <1> QED
    BY <1>1, <1>2, <1>3, <1>4, <1>5 DEF IInv

LEMMA RestoreKeepsKeeps ==
    ASSUME IInv, RestoreKeeps, ~InspectMayFail
    PROVE  IInv'
  <1> USE DEF RestoreKeeps
  <1>1. TypeOK'
    BY SameTypes, Walk DEF IInv, TypeOK, Place
  <1>2. LinkInv'
    BY SameLinks DEF IInv
  <1>3. RunInv'
    BY SameRun DEF IInv
  <1>4. SetupInv'
    BY Walk DEF IInv, SetupInv, TypeOK
  <1>5. UninstallInv'
    BY Walk DEF IInv, UninstallInv, TypeOK, Id, linkVars, runVars
  <1> QED
    BY <1>1, <1>2, <1>3, <1>4, <1>5 DEF IInv

LEMMA RestoreBeginsKeeps ==
    ASSUME IInv, RestoreBegins
    PROVE  IInv'
  <1> USE DEF RestoreBegins, Goto
  <1>1. TypeOK'
    BY SameTypes DEF IInv, TypeOK, Place
  <1>2. LinkInv'
    BY SameLinks DEF IInv
  <1>3. RunInv'
    BY SameRun DEF IInv
  <1>4. SetupInv'
    BY DEF SetupInv
  <1>5. UninstallInv'
    BY DEF IInv, UninstallInv, Good, LinkInv, TypeOK, linkVars, stateVars,
           runVars
  <1> QED
    BY <1>1, <1>2, <1>3, <1>4, <1>5 DEF IInv

LEMMA UndoFailsKeeps ==
    ASSUME IInv, UndoFails
    PROVE  IInv'
  <1> USE DEF UndoFails
  <1>1. TypeOK'
    BY SameTypes, Walk DEF IInv, TypeOK, Place
  <1>2. LinkInv'
    BY SameLinks DEF IInv
  <1>3. RunInv'
    BY SameRun DEF IInv
  <1>4. SetupInv'
    BY Walk DEF IInv, SetupInv, TypeOK
  <1>5. UninstallInv'
    BY Walk DEF IInv, UninstallInv, TypeOK, runVars
  <1> QED
    BY <1>1, <1>2, <1>3, <1>4, <1>5 DEF IInv

LEMMA DecideKeeps ==
    ASSUME IInv, Decide
    PROVE  IInv'
  <1> USE DEF Decide, Goto
  <1>1. TypeOK'
    BY SameTypes DEF IInv, TypeOK, Place, Resting
  <1>2. LinkInv'
    BY SameLinks DEF IInv
  <1>3. RunInv'
    BY SameRun DEF IInv
  <1>4. SetupInv'
    BY DEF SetupInv
  <1>5. UninstallInv'
    BY DEF IInv, UninstallInv, linkVars, runVars
  <1> QED
    BY <1>1, <1>2, <1>3, <1>4, <1>5 DEF IInv

LEMMA FinishKeeps ==
    ASSUME IInv, Finish
    PROVE  IInv'
  <1> USE DEF Finish, Goto
  <1>1. TypeOK'
    BY SameTypes DEF IInv, TypeOK, Place, Resting
  <1>2. LinkInv'
    BY SameLinks DEF IInv
  <1>3. RunInv'
    BY SameRun DEF IInv
  <1>4. SetupInv'
    BY DEF SetupInv
  <1>5. UninstallInv'
    BY DEF IInv, UninstallInv, linkVars, runVars
  <1> QED
    BY <1>1, <1>2, <1>3, <1>4, <1>5 DEF IInv

-----------------------------------------------------------------------------
(* The steps that change a shortcut or what is saved of it. *)
LEMMA EditLinkKeeps ==
    ASSUME IInv, EditLink
    PROVE  IInv'
  <1> USE DEF EditLink, Goto
  <1>1. TypeOK'
    BY DEF IInv, TypeOK, stateVars, runVars
  <1>2. LinkInv'
    BY Contents DEF IInv, LinkInv, Recorded, Paid, Good, TypeOK, stateVars
  <1>3. RunInv'
    BY SameRun DEF IInv
  <1>4. SetupInv'
    BY DEF IInv, SetupInv, Good, stateVars, runVars
  <1>5. UninstallInv'
    BY Contents DEF IInv, UninstallInv, Good, stateVars, runVars
  <1> QED
    BY <1>1, <1>2, <1>3, <1>4, <1>5 DEF IInv

LEMMA BackupCopyKeeps ==
    ASSUME IInv, BackupCopy
    PROVE  IInv'
  <1> USE DEF BackupCopy, Goto
  <1>1. TypeOK'
    BY DEF IInv, TypeOK, Place, LinkInv, Good, runVars
  <1>2. LinkInv'
    BY DEF IInv, LinkInv, Recorded, Paid, Good
  <1>3. RunInv'
    BY SameRun DEF IInv
  <1>4. SetupInv'
    BY Contents DEF IInv, SetupInv, Good, LinkInv, TypeOK
  <1>5. UninstallInv'
    BY DEF UninstallInv
  <1> QED
    BY <1>1, <1>2, <1>3, <1>4, <1>5 DEF IInv

LEMMA BackupTornKeeps ==
    ASSUME IInv, BackupTorn
    PROVE  IInv'
  <1> USE DEF BackupTorn, Goto
  <1>1. TypeOK'
    BY DEF IInv, TypeOK, Place, Resting, linkVars, runVars
  <1>2. LinkInv'
    BY DEF IInv, LinkInv, Recorded, Paid, Good, linkVars
  <1>3. RunInv'
    BY SameRun DEF IInv
  <1>4. SetupInv'
    BY DEF SetupInv
  <1>5. UninstallInv'
    BY DEF UninstallInv
  <1> QED
    BY <1>1, <1>2, <1>3, <1>4, <1>5 DEF IInv

LEMMA BackupRecordKeeps ==
    ASSUME IInv, BackupRecord
    PROVE  IInv'
  <1> USE DEF BackupRecord
  <1>1. TypeOK'
    BY Walk DEF IInv, TypeOK, Place, Known, linkVars, runVars
  <1>2. LinkInv'
    BY Contents DEF IInv, LinkInv, Recorded, Paid, Good, SetupInv, linkVars
  <1>3. RunInv'
    BY SameRun DEF IInv
  <1>4. SetupInv'
    BY Contents, Walk DEF IInv, SetupInv, Good, TypeOK, Id
  <1>5. UninstallInv'
    BY Walk DEF IInv, UninstallInv, TypeOK
  <1> QED
    BY <1>1, <1>2, <1>3, <1>4, <1>5 DEF IInv

LEMMA BackupAbsentKeeps ==
    ASSUME IInv, BackupAbsent
    PROVE  IInv'
  <1> USE DEF BackupAbsent
  <1>1. TypeOK'
    BY Contents, Walk DEF IInv, TypeOK, Place, Known, runVars
  <1>2. LinkInv'
    BY DEF IInv, LinkInv, Recorded, Paid, Good
  <1>3. RunInv'
    BY SameRun DEF IInv
  <1>4. SetupInv'
    BY Walk DEF IInv, SetupInv, Good, TypeOK, Id
  <1>5. UninstallInv'
    BY Walk DEF IInv, UninstallInv, TypeOK
  <1> QED
    BY <1>1, <1>2, <1>3, <1>4, <1>5 DEF IInv

LEMMA InstallReplacesKeeps ==
    ASSUME IInv, InstallReplaces
    PROVE  IInv'
  <1> USE DEF InstallReplaces
  <1>1. TypeOK'
    BY Walk DEF IInv, TypeOK, Place, stateVars, runVars
  <1>2. LinkInv'
    BY DEF IInv, LinkInv, Recorded, Paid, Good, SetupInv, stateVars
  <1>3. RunInv'
    BY SameRun DEF IInv
  <1>4. SetupInv'
    BY Walk DEF IInv, SetupInv, Good, TypeOK, stateVars
  <1>5. UninstallInv'
    BY Walk DEF IInv, UninstallInv, TypeOK
  <1> QED
    BY <1>1, <1>2, <1>3, <1>4, <1>5 DEF IInv

LEMMA UndoKeeps ==
    ASSUME IInv, Undo
    PROVE  IInv'
  <1> USE DEF Undo
  <1>1. TypeOK'
    BY Contents, Walk
       DEF IInv, TypeOK, Recorded, Place, Known, LinkInv, Good, UninstallInv,
           stateVars, runVars
  <1>2. LinkInv'
    BY DEF IInv, LinkInv, Recorded, Paid, Good, UninstallInv, TypeOK, Known,
           stateVars
  <1>3. RunInv'
    BY SameRun DEF IInv
  <1>4. SetupInv'
    BY Walk DEF IInv, SetupInv, TypeOK
  <1>5. UninstallInv'
    BY Contents, Walk DEF IInv, UninstallInv, TypeOK, Id, runVars
  <1> QED
    BY <1>1, <1>2, <1>3, <1>4, <1>5 DEF IInv

LEMMA CleanTreeKeeps ==
    ASSUME IInv, CleanTree
    PROVE  IInv'
  <1> USE DEF CleanTree, Goto
  <1>1. TypeOK'
    BY Contents DEF IInv, TypeOK, Place, linkVars, runVars
  <1>2. LinkInv'
    BY DEF IInv, LinkInv, Recorded, Paid, UninstallInv, linkVars
  <1>3. RunInv'
    BY SameRun DEF IInv
  <1>4. SetupInv'
    BY DEF SetupInv
  <1>5. UninstallInv'
    BY DEF IInv, UninstallInv, linkVars, runVars
  <1> QED
    BY <1>1, <1>2, <1>3, <1>4, <1>5 DEF IInv

-----------------------------------------------------------------------------
(* The steps that change the autostart entry or what is saved of it. *)
LEMMA EditRunKeeps ==
    ASSUME IInv, EditRun
    PROVE  IInv'
  <1> USE DEF EditRun, Goto
  <1>1. TypeOK'
    BY DEF IInv, TypeOK, linkVars, stateVars
  <1>2. LinkInv'
    BY SameLinks DEF IInv
  <1>3. RunInv'
    BY Contents DEF IInv, RunInv
  <1>4. SetupInv'
    BY DEF IInv, SetupInv, Good, linkVars, stateVars
  <1>5. UninstallInv'
    BY Contents DEF IInv, UninstallInv, Good, linkVars, stateVars
  <1> QED
    BY <1>1, <1>2, <1>3, <1>4, <1>5 DEF IInv

LEMMA RunBackupKeeps ==
    ASSUME IInv, RunBackup
    PROVE  IInv'
  <1> USE DEF RunBackup, Goto
  <1>1. TypeOK'
    BY DEF IInv, TypeOK, Place, Known, RunInv, linkVars, stateVars
  <1>2. LinkInv'
    BY SameLinks DEF IInv
  <1>3. RunInv'
    BY DEF IInv, RunInv
  <1>4. SetupInv'
    BY Contents DEF IInv, SetupInv, RunInv, TypeOK
  <1>5. UninstallInv'
    BY DEF UninstallInv
  <1> QED
    BY <1>1, <1>2, <1>3, <1>4, <1>5 DEF IInv

LEMMA RunRecordKeeps ==
    ASSUME IInv, RunRecord
    PROVE  IInv'
  <1> USE DEF RunRecord, Goto
  <1>1. TypeOK'
    BY DEF IInv, TypeOK, Place, Known, linkVars, stateVars
  <1>2. LinkInv'
    BY SameLinks DEF IInv
  <1>3. RunInv'
    BY DEF IInv, RunInv, SetupInv
  <1>4. SetupInv'
    BY DEF SetupInv
  <1>5. UninstallInv'
    BY DEF UninstallInv
  <1> QED
    BY <1>1, <1>2, <1>3, <1>4, <1>5 DEF IInv

LEMMA RunSetKeeps ==
    ASSUME IInv, RunSet
    PROVE  IInv'
  <1> USE DEF RunSet, Goto
  <1>1. TypeOK'
    BY DEF IInv, TypeOK, Place, Resting, linkVars, stateVars
  <1>2. LinkInv'
    BY SameLinks DEF IInv
  <1>3. RunInv'
    BY DEF IInv, RunInv, SetupInv
  <1>4. SetupInv'
    BY DEF SetupInv
  <1>5. UninstallInv'
    BY DEF UninstallInv
  <1> QED
    BY <1>1, <1>2, <1>3, <1>4, <1>5 DEF IInv

(* What becomes of the autostart entry: it is left when it is not the      *)
(* launcher's, and is otherwise what its true record says.                 *)
LEMMA RunRestoredIs ==
    ASSUME IInv, NEW r \in RunRestored
    PROVE  /\ r \in Own
           /\ run # Launcher => r = run
           /\ run = Launcher => owedRun \in {r, Any}
  <1>1. CASE run # Launcher
    <2>1. RunRestored = {run}
      BY <1>1 DEF RunRestored
    <2> QED
      BY <1>1, <2>1 DEF IInv, TypeOK
  <1>2. CASE run = Launcher /\ runKnown = "0"
    BY <1>2, Contents DEF RunRestored, IInv, RunInv
  <1>3. CASE run = Launcher /\ runKnown # "0"
    <2>1. runKnown = "1" /\ runBackup # Absent
      BY <1>3, Contents DEF IInv, RunInv, TypeOK, Known
    <2>2. r = runBackup
      BY <1>3, <2>1 DEF RunRestored
    <2> QED
      BY <1>3, <2>1, <2>2, Contents DEF IInv, RunInv
  <1> QED
    BY <1>1, <1>2, <1>3

LEMMA RestoreRunKeeps ==
    ASSUME IInv, RestoreRun
    PROVE  IInv'
  <1> USE DEF RestoreRun, Goto
  <1>0. /\ run' \in Own
        /\ run # Launcher => run' = run
        /\ run = Launcher => owedRun \in {run', Any}
    BY RunRestoredIs
  <1>1. TypeOK'
    BY <1>0 DEF IInv, TypeOK, Place, linkVars, stateVars
  <1>2. LinkInv'
    BY SameLinks DEF IInv
  <1>3. RunInv'
    BY <1>0 DEF IInv, RunInv
  <1>4. SetupInv'
    BY DEF SetupInv
  <1>5. UninstallInv'
    BY <1>0, Contents DEF IInv, UninstallInv, Id
  <1> QED
    BY <1>1, <1>2, <1>3, <1>4, <1>5 DEF IInv

(* The registry's states go, those of the entry too, once nothing is owed. *)
LEMMA CleanKeyKeeps ==
    ASSUME IInv, CleanKey
    PROVE  IInv'
  <1> USE DEF CleanKey, Goto
  <1>1. TypeOK'
    BY Contents DEF IInv, TypeOK, Place, Known, linkVars
  <1>2. LinkInv'
    BY DEF IInv, LinkInv, Recorded, Paid, UninstallInv, linkVars
  <1>3. RunInv'
    BY DEF IInv, RunInv, UninstallInv
  <1>4. SetupInv'
    BY DEF SetupInv
  <1>5. UninstallInv'
    BY DEF IInv, UninstallInv, linkVars
  <1> QED
    BY <1>1, <1>2, <1>3, <1>4, <1>5 DEF IInv

-----------------------------------------------------------------------------
LEMMA SetupKeeps ==
    ASSUME IInv, Setup
    PROVE  IInv'
  BY StartSetupKeeps, BackupKnownKeeps, BackupCopyKeeps, BackupTornKeeps,
     BackupRecordKeeps, BackupAbsentKeeps, CopyFilesKeeps, InstallSkipsKeeps,
     InstallPreparesKeeps, InstallReplacesKeeps, RunIsKnownKeeps,
     RunBackupKeeps, RunRecordKeeps, RunSetKeeps
     DEF Setup

LEMMA UninstallKeeps ==
    ASSUME ~InspectMayFail, IInv, Uninstall
    PROVE  IInv'
  BY StartUninstallKeeps, RestoreRunKeeps, RestoreRunFailsKeeps,
     RestoreCannotKeeps, RestoreKeepsKeeps, RestoreBeginsKeeps, UndoKeeps,
     UndoFailsKeeps, DecideKeeps, CleanTreeKeeps, CleanKeyKeeps, FinishKeeps
     DEF Uninstall

LEMMA StutterKeeps ==
    ASSUME IInv, UNCHANGED vars
    PROVE  IInv'
  <1> USE DEF vars, linkVars, stateVars, runVars
  <1>1. TypeOK'
    BY DEF IInv, TypeOK
  <1>2. LinkInv' /\ RunInv'
    BY DEF IInv, LinkInv, Recorded, Paid, Good, RunInv
  <1>3. SetupInv' /\ UninstallInv'
    BY DEF IInv, SetupInv, UninstallInv, Good
  <1> QED
    BY <1>1, <1>2, <1>3 DEF IInv

(* The strengthened invariant holds in every reachable state. *)
THEOREM Inductive ==
    ASSUME ~InspectMayFail
    PROVE  Spec => []IInv
  <1>1. IInv /\ [Next]_vars => IInv'
    BY EditLinkKeeps, EditRunKeeps, AbortKeeps, SetupKeeps, UninstallKeeps,
       StutterKeeps
       DEF Next
  <1> QED
    BY InitEstablishes, <1>1, PTL DEF Spec

(* Every variable keeps to its domain; a saved copy is never one of the    *)
(* launcher's own shortcuts, however many setups come after the first.     *)
THEOREM TypeCorrect ==
    ASSUME ~InspectMayFail
    PROVE  Spec => []TypeOK
  <1>1. IInv => TypeOK
    BY DEF IInv
  <1> QED
    BY Inductive, <1>1, PTL

(* Whatever starts the launcher has a true record and a whole copy of what *)
(* the user had, wherever setups and uninstalls were interrupted.          *)
THEOREM GivesBack ==
    ASSUME ~InspectMayFail
    PROVE  Spec => []Restorable
  <1>1. ASSUME IInv PROVE Restorable
    <2>1. ASSUME NEW s \in Id, link[s] = Launcher
          PROVE  Restores(known[s], backup[s], owed[s])
      BY <1>1, <2>1 DEF IInv, LinkInv, Recorded, Good, TypeOK, Known, Restores
    <2>2. ASSUME run = Launcher
          PROVE  Restores(runKnown, runBackup, owedRun)
      BY <1>1, <2>2 DEF IInv, RunInv, TypeOK, Known, Restores
    <2> QED
      BY <2>1, <2>2 DEF Restorable
  <1> QED
    BY Inductive, <1>1, PTL

(* An uninstall that ends leaves nothing that starts the launcher, and     *)
(* everything else as it was owed to the user.                             *)
THEOREM PaysBack ==
    ASSUME ~InspectMayFail
    PROVE  Spec => []UninstallPaysBack
  <1>1. IInv => UninstallPaysBack
    BY DEF IInv, LinkInv, Paid, RunInv, UninstallInv, UninstallPaysBack
  <1> QED
    BY Inductive, <1>1, PTL
=============================================================================
