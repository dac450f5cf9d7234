-------------------------- MODULE ActivationProofs --------------------------
(***************************************************************************)
(* Theorems about Activation, for any launchers and any number of backups. *)
(*                                                                         *)
(* HoldInv ties what a launcher holds to where it stands. LogInv adds that *)
(* no file is younger than the last one created. ServeInv follows the      *)
(* argument that some launcher comes to Run: while none has, whoever is    *)
(* turned away by the log leaves another one behind that has moved it or   *)
(* has it open, and nobody is turned away by the mutex.                    *)
(***************************************************************************)
EXTENDS Activation, TLAPS

Opened == {"create", "refused", "close"} \union Holding

HoldInv ==
    /\ \A s \in Starter : s \in open <=> pc[s] \in Opened
    /\ \A s \in Starter : s \in handles <=> pc[s] \in Holding \union {"refused"}

LogInv == LogsInOrder /\ \A x \in Slot : dir[x] <= created

TurnedAway(s) ==
    pc[s] = "ended" \/ (pc[s] \in Rotating /\ dir[Log] = NoFile)

ServeInv ==
    /\ handles # {} => served # {}
    /\ \A s \in Starter : pc[s] = "close" => served # {}
    /\ served = {} /\ faulty = {} =>
           \A s \in Starter : TurnedAway(s) =>
               \E t \in Starter : pc[t] \in {"open", "create"}

StarterStep(s) ==
    \/ LeaveEarly(s) \/ Begin(s) \/ SystemFails(s)
    \/ Stat(s) \/ Remove(s) \/ RenameBackup(s)
    \/ RenameLog(s) \/ RenameLogFails(s) \/ OpenLog(s) \/ Printf(s)
    \/ Acquire(s) \/ FindTaken(s) \/ CloseRefused(s)
    \/ WorkEnds(s) \/ Release(s) \/ CloseLog(s)

-----------------------------------------------------------------------------
(* Before the first launcher is started.                                   *)
LEMMA InitHolds == Init => TypeOK /\ HoldInv /\ OneWorks /\ LogInv /\ ServeInv
<1> SUFFICES ASSUME Init
             PROVE  TypeOK /\ HoldInv /\ OneWorks /\ LogInv /\ ServeInv
  OBVIOUS
<1>1. PICK present \in SUBSET Slot :
         dir = [x \in Slot |-> IF x \in present THEN Earlier(x) ELSE NoFile]
  BY DEF Init
<1>2. /\ \A x \in Slot : Earlier(x) \in Nat /\ Earlier(x) <= LogBackups + 1
      /\ LogBackups \in 1..LogBackups /\ LogBackups + 1 \in Nat
  BY BackupsAssumption DEF Slot, Earlier
<1>3. dir \in [Slot -> Nat] /\ \A x \in Slot : dir[x] <= LogBackups + 1
  BY <1>1, <1>2 DEF NoFile
<1>4. TypeOK
  BY <1>2, <1>3 DEF Init, TypeOK, Place, NoFile
<1>5. LogsInOrder
  BY <1>1, BackupsAssumption DEF LogsInOrder, Slot, Earlier, NoFile
<1>6. HoldInv /\ OneWorks /\ ServeInv
  BY DEF Init, HoldInv, OneWorks, ServeInv, TurnedAway, Opened, Holding,
         Rotating
<1> QED
  BY <1>3, <1>4, <1>5, <1>6 DEF LogInv, Init

(* Where the log files go in one step (logging.go:63-90, 33).              *)
LEMMA LogMoves ==
    ASSUME TypeOK, NEW s \in Starter, StarterStep(s)
    PROVE  \/ UNCHANGED <<dir, created>>
           \/ /\ \E x \in Slot \ {Log} : dir' = [dir EXCEPT ![x] = NoFile]
              /\ UNCHANGED created
           \/ /\ \E x \in Slot : /\ x + 1 \in Slot /\ dir[x] # NoFile
                                 /\ x = Log => open = {}
                                 /\ dir' = [dir EXCEPT ![x + 1] = dir[x],
                                                       ![x] = NoFile]
              /\ UNCHANGED created
           \/ /\ dir[Log] = NoFile /\ created' = created + 1
              /\ dir' = [dir EXCEPT ![Log] = created + 1]
<1>1. k[s] \in 1..LogBackups /\ dir \in [Slot -> Nat]
  BY DEF TypeOK
<1>2. CASE Remove(s)
  BY <1>1, <1>2, BackupsAssumption DEF Remove, Slot, Log
<1>3. CASE RenameBackup(s)
  <2>1. k[s] - 1 \in Slot /\ (k[s] - 1) + 1 = k[s] /\ k[s] \in Slot
        /\ k[s] - 1 # Log
    BY <1>1, <1>3, BackupsAssumption DEF RenameBackup, Slot, Log
  <2>2. CASE dir[k[s] - 1] = NoFile
    BY <1>3, <2>2 DEF RenameBackup
  <2>3. CASE dir[k[s] - 1] # NoFile
    <3>1. dir' = [dir EXCEPT ![(k[s] - 1) + 1] = dir[k[s] - 1],
                             ![k[s] - 1] = NoFile]
      BY <1>3, <2>1, <2>3 DEF RenameBackup
    <3> QED
      BY <1>3, <2>1, <2>3, <3>1 DEF RenameBackup
  <2> QED
    BY <2>2, <2>3
<1>4. CASE RenameLog(s)
  <2>1. Log \in Slot /\ Log + 1 \in Slot /\ Log + 1 = 1
    BY BackupsAssumption DEF Slot, Log
  <2>2. dir' = [dir EXCEPT ![Log + 1] = dir[Log], ![Log] = NoFile]
    BY <1>4, <2>1 DEF RenameLog
  <2> QED
    BY <1>4, <2>1, <2>2 DEF RenameLog, MayRenameLog
<1>5. CASE OpenLog(s)
  BY <1>5 DEF OpenLog
<1>6. CASE \/ LeaveEarly(s) \/ Begin(s) \/ SystemFails(s) \/ Stat(s)
           \/ RenameLogFails(s) \/ Printf(s) \/ Acquire(s) \/ FindTaken(s)
           \/ CloseRefused(s) \/ WorkEnds(s) \/ Release(s) \/ CloseLog(s)
  BY <1>6 DEF LeaveEarly, Begin, SystemFails, Stat, RenameLogFails, Printf,
     Acquire, FindTaken, CloseRefused, WorkEnds, Release, CloseLog, End,
     logVars
<1> QED
  BY <1>2, <1>3, <1>4, <1>5, <1>6 DEF StarterStep

(* Removing and shifting backups leaves the log alone (logging.go:75-88).  *)
LEMMA LogKept ==
    ASSUME TypeOK, NEW s \in Starter, Remove(s) \/ RenameBackup(s)
    PROVE  dir'[Log] = dir[Log]
<1>1. k[s] \in 1..LogBackups /\ dir \in [Slot -> Nat] /\ Log \in Slot
  BY BackupsAssumption DEF TypeOK, Log, Slot
<1>2. CASE Remove(s)
  <2>1. k[s] # Log
    BY <1>1, BackupsAssumption DEF Log
  <2> QED
    BY <1>1, <1>2, <2>1 DEF Remove
<1>3. CASE RenameBackup(s)
  <2>1. k[s] \in Slot /\ k[s] - 1 \in Slot
    BY <1>1, <1>3, BackupsAssumption DEF RenameBackup, Slot
  <2>2. k[s] # Log /\ k[s] - 1 # Log
    BY <1>1, <1>3, BackupsAssumption DEF RenameBackup, Log
  <2>3. CASE dir[k[s] - 1] = NoFile
    BY <1>3, <2>3 DEF RenameBackup
  <2>4. CASE dir[k[s] - 1] # NoFile
    <3>1. dir' = [dir EXCEPT ![k[s]] = dir[k[s] - 1], ![k[s] - 1] = NoFile]
      BY <1>3, <2>4 DEF RenameBackup
    <3> QED
      BY <1>1, <2>1, <2>2, <3>1
  <2> QED
    BY <2>3, <2>4
<1> QED
  BY <1>2, <1>3

(* What a launcher holds follows from where it stands: an end gives back   *)
(* everything, and the deferred calls the rest (main.go:62-73).            *)
LEMMA HoldStep ==
    ASSUME TypeOK, HoldInv, NEW s \in Starter, StarterStep(s)
    PROVE  HoldInv'
<1> USE DEF HoldInv, TypeOK, Opened, Holding, Rotating, Goto, Step
<1>1. CASE LeaveEarly(s) \/ SystemFails(s) \/ RenameLogFails(s) \/ CloseLog(s)
  <2>1. /\ pc' = [pc EXCEPT ![s] = "ended"]
        /\ open' = open \ {s} /\ handles' = handles \ {s}
    BY <1>1 DEF LeaveEarly, SystemFails, RenameLogFails, CloseLog, End
  <2> QED
    BY <2>1
<1>2. CASE Begin(s)
  BY <1>2 DEF Begin
<1>3. CASE Stat(s)
  BY <1>3 DEF Stat
<1>4. CASE Remove(s)
  BY <1>4 DEF Remove
<1>5. CASE RenameBackup(s)
  BY <1>5 DEF RenameBackup
<1>6. CASE RenameLog(s)
  BY <1>6 DEF RenameLog
<1>7. CASE OpenLog(s)
  BY <1>7 DEF OpenLog
<1>8. CASE Printf(s)
  BY <1>8 DEF Printf
<1>9. CASE Acquire(s)
  BY <1>9 DEF Acquire
<1>10. CASE FindTaken(s)
  BY <1>10 DEF FindTaken
<1>11. CASE CloseRefused(s)
  BY <1>11 DEF CloseRefused
<1>12. CASE WorkEnds(s)
  BY <1>12 DEF WorkEnds
<1>13. CASE Release(s)
  BY <1>13 DEF Release
<1> QED
  BY <1>1, <1>2, <1>3, <1>4, <1>5, <1>6, <1>7, <1>8, <1>9, <1>10, <1>11,
     <1>12, <1>13 DEF StarterStep

(* Every variable keeps to its domain. The log that some launcher has open *)
(* is not renamed, and none is oversized when it is gone                   *)
(* (logging.go:63-90).                                                     *)
LEMMA TypeStep ==
    ASSUME TypeOK, HoldInv, NEW s \in Starter, StarterStep(s)
    PROVE  TypeOK'
<1> USE DEF TypeOK, Goto, Step, Place, Rotating, Holding
<1>0. /\ k[s] \in 1..LogBackups /\ LogBackups \in 1..LogBackups
      /\ k[s] > 1 => k[s] - 1 \in 1..LogBackups
      /\ Log \in Slot
  BY BackupsAssumption DEF Log, Slot
<1>1. dir' \in [Slot -> Nat] /\ created' \in Nat
  <2>1. NoFile \in Nat /\ created + 1 \in Nat
    BY DEF NoFile
  <2> QED
    BY <2>1, LogMoves
<1>2. CASE LeaveEarly(s) \/ SystemFails(s) \/ RenameLogFails(s) \/ CloseLog(s)
  <2>1. /\ pc' = [pc EXCEPT ![s] = "ended"]
        /\ open' = open \ {s} /\ handles' = handles \ {s}
        /\ UNCHANGED <<k, dir, oversized, created, rotated, served>>
        /\ faulty' \in {faulty, faulty \union {s}}
    BY <1>2 DEF LeaveEarly, SystemFails, RenameLogFails, CloseLog, End, logVars
  <2> QED
    BY <2>1
<1>3. CASE Begin(s)
  BY <1>3 DEF Begin, logVars, historyVars
<1>4. CASE Stat(s)
  BY <1>0, <1>4 DEF Stat, logVars, historyVars
<1>5. CASE Remove(s)
  <2>1. dir'[Log] = dir[Log]
    BY <1>5, LogKept
  <2> QED
    BY <1>1, <1>5, <2>1 DEF Remove, historyVars
<1>6. CASE RenameBackup(s)
  <2>1. dir'[Log] = dir[Log]
    BY <1>6, LogKept
  <2>2. k' \in [Starter -> 1..LogBackups]
    BY <1>0, <1>6 DEF RenameBackup
  <2> QED
    BY <1>0, <1>1, <1>6, <2>1, <2>2 DEF RenameBackup, historyVars
<1>7. CASE RenameLog(s)
  <2>1. rotated' \in [Starter -> Nat]
    BY <1>0, <1>7 DEF RenameLog
  <2> QED
    BY <1>1, <1>7, <2>1 DEF RenameLog, MayRenameLog, historyVars
<1>8. CASE OpenLog(s)
  <2>1. dir'[Log] # NoFile
    BY <1>0, <1>8 DEF OpenLog, NoFile
  <2> QED
    BY <1>1, <1>8, <2>1 DEF OpenLog, historyVars
<1>9. CASE Printf(s)
  <2>1. open # {}
    BY <1>9 DEF Printf, HoldInv, Opened
  <2> QED
    BY <1>9, <2>1 DEF Printf, historyVars
<1>10. CASE Acquire(s)
  BY <1>10 DEF Acquire, logVars
<1>11. CASE FindTaken(s)
  BY <1>11 DEF FindTaken, logVars, historyVars
<1>12. CASE CloseRefused(s)
  BY <1>12 DEF CloseRefused, logVars, historyVars
<1>13. CASE WorkEnds(s)
  BY <1>13 DEF WorkEnds, logVars, historyVars
<1>14. CASE Release(s)
  BY <1>14 DEF Release, logVars, historyVars
<1> QED
  BY <1>2, <1>3, <1>4, <1>5, <1>6, <1>7, <1>8, <1>9, <1>10, <1>11,
     <1>12, <1>13, <1>14 DEF StarterStep

(* Only Acquire brings a launcher to work, when nobody has a handle, and   *)
(* whoever works has one (mutex_windows.go:44-53).                         *)
LEMMA OneWorksStep ==
    ASSUME TypeOK, HoldInv, OneWorks, NEW s \in Starter, StarterStep(s)
    PROVE  OneWorks'
<1> USE DEF OneWorks, TypeOK, Goto, Step, Holding, Rotating
<1>1. CASE Acquire(s)
  <2>1. \A t \in Starter : pc[t] \notin Holding
    BY <1>1 DEF Acquire, HoldInv
  <2> QED
    BY <1>1, <2>1 DEF Acquire
<1>2. CASE ~Acquire(s)
  <2>1. \A t \in Starter : pc'[t] \in Holding => pc[t] \in Holding
    BY <1>2 DEF StarterStep, LeaveEarly, SystemFails, RenameLogFails, CloseLog,
       End, Begin, Stat, Remove, RenameBackup, RenameLog, OpenLog, Printf,
       FindTaken, CloseRefused, WorkEnds, Release
  <2> QED
    BY <2>1
<1> QED
  BY <1>1, <1>2

(* A file moves by one place, over a younger or an absent one at most, and *)
(* a new one is the youngest (logging.go:75-88).                           *)
LEMMA LogStep ==
    ASSUME TypeOK, LogInv, NEW s \in Starter, StarterStep(s)
    PROVE  LogInv'
<1> USE DEF LogInv, LogsInOrder, NoFile, Log
<1>0. dir \in [Slot -> Nat] /\ created \in Nat
  BY DEF TypeOK
<1>1. CASE UNCHANGED <<dir, created>>
  BY <1>1
<1>2. ASSUME NEW x \in Slot, dir' = [dir EXCEPT ![x] = NoFile],
             UNCHANGED created
      PROVE  LogInv'
  BY <1>0, <1>2
<1>3. ASSUME NEW x \in Slot, x + 1 \in Slot, UNCHANGED created,
             dir[x] # NoFile,
             dir' = [dir EXCEPT ![x + 1] = dir[x], ![x] = NoFile]
      PROVE  LogInv'
  <2>1. /\ dir'[x + 1] = dir[x] /\ dir'[x] = NoFile
        /\ \A y \in Slot : y # x /\ y # x + 1 => dir'[y] = dir[y]
    BY <1>0, <1>3 DEF Slot
  <2>2. ASSUME NEW y \in Slot, NEW z \in Slot, y < z,
               dir'[y] # NoFile, dir'[z] # NoFile
        PROVE  dir'[y] > dir'[z]
    <3>1. y # x /\ z # x
      BY <2>1, <2>2
    <3>2. CASE y = x + 1
      <4>1. dir'[z] = dir[z] /\ x < z
        BY <2>1, <2>2, <3>1, <3>2 DEF Slot
      <4> QED
        BY <1>3, <2>1, <2>2, <3>2, <4>1
    <3>3. CASE z = x + 1
      <4>1. dir'[y] = dir[y] /\ y < x
        BY <2>1, <2>2, <3>1, <3>3 DEF Slot
      <4> QED
        BY <1>3, <2>1, <2>2, <3>3, <4>1
    <3>4. CASE y # x + 1 /\ z # x + 1
      BY <2>1, <2>2, <3>1, <3>4
    <3> QED
      BY <3>2, <3>3, <3>4
  <2>3. \A y \in Slot : dir'[y] <= created'
    BY <1>0, <1>3, <2>1
  <2> QED
    BY <2>2, <2>3
<1>4. ASSUME dir[Log] = NoFile, created' = created + 1,
             dir' = [dir EXCEPT ![Log] = created + 1]
      PROVE  LogInv'
  <2>1. \A y \in Slot : y # Log => dir'[y] = dir[y]
    BY <1>0, <1>4
  <2>2. Log \in Slot => dir'[Log] = created + 1
    BY <1>0, <1>4
  <2>3. ASSUME NEW y \in Slot, NEW z \in Slot, y < z,
               dir'[y] # NoFile, dir'[z] # NoFile
        PROVE  dir'[y] > dir'[z]
    <3>1. z # Log /\ dir'[z] = dir[z] /\ dir[z] <= created
      BY <2>1, <2>3 DEF Slot
    <3> QED
      BY <1>0, <2>1, <2>2, <2>3, <3>1
  <2>4. \A y \in Slot : dir'[y] <= created'
    BY <1>0, <1>4, <2>1, <2>2
  <2> QED
    BY <2>3, <2>4
<1> QED
  BY <1>1, <1>2, <1>3, <1>4, LogMoves

(* While nobody has come to Run and nobody was let down, a launcher that   *)
(* finds the log gone or open leaves one behind that has renamed or opened *)
(* it and still goes for the mutex, which is free (main.go:57-74).         *)
LEMMA ServeStep ==
    ASSUME TypeOK, HoldInv, ServeInv, NEW s \in Starter, StarterStep(s)
    PROVE  ServeInv'
<1> USE DEF TypeOK, Goto, Step, Holding, Rotating, TurnedAway
<1>1. CASE LeaveEarly(s) \/ SystemFails(s)
  <2>1. /\ pc' = [pc EXCEPT ![s] = "ended"] /\ handles' = handles \ {s}
        /\ served' = served /\ faulty' = faulty \union {s}
    BY <1>1 DEF LeaveEarly, SystemFails, End
  <2> QED
    BY <2>1 DEF ServeInv
<1>2. CASE Begin(s)
  BY <1>2 DEF Begin, logVars, historyVars, ServeInv
<1>3. CASE Stat(s)
  BY <1>3 DEF Stat, logVars, historyVars, ServeInv
<1>4. CASE Remove(s) \/ RenameBackup(s)
  <2>1. dir'[Log] = dir[Log]
    BY <1>4, LogKept
  <2>2. /\ pc[s] \in Rotating /\ pc' \in [Starter -> Place]
        /\ pc'[s] \in Rotating /\ \A t \in Starter \ {s} : pc'[t] = pc[t]
        /\ UNCHANGED <<handles, served, faulty>>
    BY <1>4 DEF Remove, RenameBackup, historyVars, Place
  <2> QED
    BY <2>1, <2>2 DEF ServeInv
<1>5. CASE RenameLog(s)
  <2>1. /\ pc'[s] = "open" /\ \A t \in Starter \ {s} : pc'[t] = pc[t]
        /\ UNCHANGED <<handles, served, faulty>>
    BY <1>5 DEF RenameLog, historyVars
  <2> QED
    BY <2>1 DEF ServeInv
<1>6. CASE RenameLogFails(s)
  <2>1. /\ pc' = [pc EXCEPT ![s] = "ended"] /\ handles' = handles \ {s}
        /\ UNCHANGED <<dir, served, faulty>>
    BY <1>6 DEF RenameLogFails, End, logVars
  <2>2. ASSUME served = {}, faulty = {}
        PROVE  \E t \in Starter : pc[t] \in {"open", "create"}
    <3>1. CASE dir[Log] = NoFile
      BY <1>6, <2>2, <3>1 DEF RenameLogFails, ServeInv
    <3>2. CASE open # {}
      <4>1. PICK t \in open : t \in Starter
        BY <3>2
      <4>2. handles = {} /\ pc[t] # "close"
        BY <2>2, <4>1 DEF ServeInv
      <4>3. pc[t] = "create"
        BY <4>1, <4>2 DEF HoldInv, Opened
      <4> QED
        BY <4>1, <4>3
    <3> QED
      BY <1>6, <3>1, <3>2 DEF RenameLogFails, MayRenameLog
  <2>3. ASSUME served = {}, faulty = {}
        PROVE  \E t \in Starter : pc'[t] \in {"open", "create"}
    <3>1. PICK t \in Starter : pc[t] \in {"open", "create"}
      BY <2>2, <2>3
    <3>2. t # s
      BY <1>6, <3>1 DEF RenameLogFails
    <3> QED
      BY <2>1, <3>1, <3>2
  <2> QED
    BY <2>1, <2>3 DEF ServeInv
<1>7. CASE OpenLog(s)
  <2>1. /\ pc'[s] = "create" /\ \A t \in Starter \ {s} : pc'[t] = pc[t]
        /\ UNCHANGED <<handles, served, faulty>>
    BY <1>7 DEF OpenLog, historyVars
  <2> QED
    BY <2>1 DEF ServeInv
<1>8. CASE Printf(s)
  BY <1>8 DEF Printf, historyVars, ServeInv
<1>9. CASE Acquire(s)
  BY <1>9 DEF Acquire, ServeInv
<1>10. CASE FindTaken(s)
  <2>1. served # {} /\ served' = served
    BY <1>10 DEF FindTaken, historyVars, ServeInv
  <2> QED
    BY <2>1 DEF ServeInv
<1>11. CASE CloseRefused(s) \/ Release(s)
  <2>1. s \in handles
    BY <1>11 DEF CloseRefused, Release, HoldInv
  <2>2. served # {} /\ served' = served
    BY <1>11, <2>1 DEF CloseRefused, Release, historyVars, ServeInv
  <2> QED
    BY <2>2 DEF ServeInv
<1>12. CASE WorkEnds(s)
  BY <1>12 DEF WorkEnds, logVars, historyVars, ServeInv
<1>13. CASE CloseLog(s)
  <2>1. served # {} /\ served' = served
    BY <1>13 DEF CloseLog, End, ServeInv
  <2> QED
    BY <2>1 DEF ServeInv
<1> QED
  BY <1>1, <1>2, <1>3, <1>4, <1>5, <1>6, <1>7, <1>8, <1>9, <1>10, <1>11,
     <1>12, <1>13 DEF StarterStep

-----------------------------------------------------------------------------
IInv == TypeOK /\ HoldInv /\ OneWorks /\ LogInv /\ ServeInv

(* All parts of the invariant are kept together.                           *)
LEMMA Invariant == Spec => []IInv
<1>1. Init => IInv
  BY InitHolds DEF IInv
<1>2. IInv /\ [Next]_vars => IInv'
  <2> SUFFICES ASSUME IInv, [Next]_vars PROVE IInv'
    OBVIOUS
  <2>1. CASE Next
    <3>1. PICK s \in Starter : StarterStep(s)
      BY <2>1 DEF Next, StarterStep
    <3> QED
      BY <3>1, TypeStep, HoldStep, OneWorksStep, LogStep, ServeStep DEF IInv
  <2>2. CASE UNCHANGED vars
    BY <2>2 DEF vars, logVars, historyVars, IInv, TypeOK, HoldInv, OneWorks,
       LogInv, LogsInOrder, ServeInv, TurnedAway, Opened, Holding, Rotating
  <2> QED
    BY <2>1, <2>2
<1> QED
  BY <1>1, <1>2, PTL DEF Spec

(* Every reachable state is well typed; a log that is open or oversized    *)
(* exists (logging.go:25-90).                                              *)
THEOREM TypeCorrect == Spec => []TypeOK
<1>1. IInv => TypeOK
  BY DEF IInv
<1> QED
  BY <1>1, Invariant, PTL

(* At most one launcher of the session is at work, for any number of them  *)
(* (mutex_windows.go:35-74).                                               *)
THEOREM Exclusion == Spec => []OneWorks
<1>1. IInv => OneWorks
  BY DEF IInv
<1> QED
  BY <1>1, Invariant, PTL

(* The logs stay in order of age under any concurrent rotations            *)
(* (logging.go:63-90).                                                     *)
THEOREM Order == Spec => []LogsInOrder
<1>1. IInv => LogsInOrder
  BY DEF IInv, LogInv
<1> QED
  BY <1>1, Invariant, PTL

(* Launchers never all turn each other away (main.go:57-74).               *)
THEOREM Service == Spec => []SomeoneServes
<1>1. IInv => SomeoneServes
  BY DEF IInv, ServeInv, SomeoneServes, TurnedAway
<1> QED
  BY <1>1, Invariant, PTL
=============================================================================
