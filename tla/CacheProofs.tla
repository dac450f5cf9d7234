---------------------------- MODULE CacheProofs ----------------------------
(***************************************************************************)
(* Theorems about Cache, for any launchers, any entries they save and any  *)
(* file they find: every Save of Cache is a step of the register CacheFile,*)
(* what Load returns is safe, and what a Save stored comes back.           *)
(*                                                                         *)
(* The invariant follows the temporary file of a Save: whole after Write,  *)
(* on the disk after Sync. So what Rename puts in place is whole and is    *)
(* what the caller saves, and a loss of power cannot tear it.              *)
(***************************************************************************)
EXTENDS Cache, FiniteSetTheorems, TLAPS

Working == {"create", "write", "sync", "close", "rename"}

TempInv ==
    \A s \in Saver :
        /\ pc[s] \in Working => contents[s] \in Document
        /\ pc[s] = "sync" => temp[s].body = contents[s]
        /\ pc[s] \in {"close", "rename"} => temp[s] = OnDisk(contents[s])

IInv == TypeOK /\ TempInv

-----------------------------------------------------------------------------
(* What Save writes for accepted entries is a document of the model        *)
(* (cache.go:107-130).                                                     *)
LEMMA StoredIsDocument ==
    ASSUME NEW list \in Batches, Accepted(list)
    PROVE  Stored(list) \in Document
BY DEF Document

(* Data on the disk survives a loss of power as it is (cache.go:153).      *)
LEMMA DurableIsKept ==
    ASSUME NEW b PROVE Lost(OnDisk(b)) = {b}
BY DEF Lost, OnDisk

(* The invariant holds before the first Save.                              *)
LEMMA InitInvariant == Init => IInv
<1> SUFFICES ASSUME Init PROVE IInv
  OBVIOUS
<1>1. TypeOK
  <2>1. PICK b \in Found : file = [body |-> b, durable |-> TRUE]
    BY DEF Init, OnDisk
  <2>2. /\ settled \in Document \union Found
        /\ file \in [body : Document \union Found, durable : {TRUE}]
    BY <2>1 DEF Init
  <2>3. NoFile \in [body : Body, durable : BOOLEAN]
    BY DEF NoFile, OnDisk, Body
  <2>4. temp \in [Saver -> [body : Body, durable : BOOLEAN]]
    BY <2>3 DEF Init
  <2>5. /\ pc \in [Saver -> Place]
        /\ contents \in [Saver -> Document \union {Missing}]
    BY DEF Init, Place, Ended
  <2> QED
    BY <2>2, <2>4, <2>5 DEF TypeOK
<1>2. TempInv
  BY DEF Init, TempInv, Working
<1> QED
  BY <1>1, <1>2 DEF IInv

(* One launcher's step keeps the invariant: it touches no other launcher's *)
(* temporary file, since CreateTemp gives each its own (cache.go:135-159). *)
LEMMA SaveStepInvariant ==
    ASSUME IInv, NEW s \in Saver, SaveStep(s)
    PROVE  IInv'
<1> USE DEF IInv
<1> DEFINE T == [body : Body, durable : BOOLEAN]
<1>0. /\ Document \subseteq Body /\ Torn \in Body /\ Missing \in Body
      /\ NoFile \in T
  BY DEF Body, NoFile, OnDisk
<1>1. CASE CallSave(s)
  <2>1. PICK list \in Batches :
           IF Accepted(list)
           THEN /\ contents' = [contents EXCEPT ![s] = Stored(list)]
                /\ pc' = [pc EXCEPT ![s] = "create"]
           ELSE pc' = [pc EXCEPT ![s] = "failed"] /\ UNCHANGED contents
    BY <1>1 DEF CallSave
  <2>2. UNCHANGED <<file, settled, temp>>
    BY <1>1 DEF CallSave
  <2>3. CASE Accepted(list)
    <3>1. Stored(list) \in Document
      BY <2>3, StoredIsDocument
    <3>2. TypeOK'
      <4>1. contents' \in [Saver -> Document \union {Missing}]
        BY <2>1, <2>3, <3>1 DEF TypeOK
      <4>2. pc' \in [Saver -> Place]
        BY <2>1, <2>3 DEF TypeOK, Place
      <4> QED
        BY <2>2, <4>1, <4>2 DEF TypeOK
    <3>3. TempInv'
      BY <2>1, <2>2, <2>3, <3>1 DEF TypeOK, TempInv
    <3> QED
      BY <3>2, <3>3
  <2>4. CASE ~Accepted(list)
    BY <2>1, <2>2, <2>4 DEF TypeOK, TempInv, Working, Place, Ended
  <2> QED
    BY <2>3, <2>4
<1>2. CASE CreateTemp(s)
  <2>1. Written(Torn) \in T
    BY <1>0 DEF Written
  <2> QED
    BY <1>2, <2>1 DEF CreateTemp, Step, TypeOK, TempInv, Working, Place
<1>3. CASE Write(s)
  <2>1. contents[s] \in Document
    BY <1>3 DEF Write, Step, TempInv, Working
  <2>2. Written(contents[s]) \in T /\ Written(contents[s]).body = contents[s]
    BY <1>0, <2>1 DEF Written
  <2> QED
    BY <1>3, <2>1, <2>2 DEF Write, Step, TypeOK, TempInv, Place
<1>4. CASE Sync(s)
  <2>1. contents[s] \in Document /\ temp[s].body = contents[s] /\ temp[s] \in T
    BY <1>4 DEF Sync, Step, TempInv, Working, TypeOK
  <2>2. OnDisk(contents[s]) \in T
    BY <1>0, <2>1 DEF OnDisk
  <2>3. /\ temp' = [temp EXCEPT ![s] = OnDisk(contents[s])]
        /\ pc' = [pc EXCEPT ![s] = "close"]
        /\ UNCHANGED <<file, settled, contents>>
    BY <1>4, <2>1 DEF Sync, Step
  <2>4. TypeOK'
    <3>1. temp' \in [Saver -> T]
      BY <2>2, <2>3 DEF TypeOK
    <3>2. pc' \in [Saver -> Place]
      BY <2>3 DEF TypeOK, Place
    <3> QED
      BY <2>3, <3>1, <3>2 DEF TypeOK
  <2>5. TempInv'
    BY <2>1, <2>3 DEF TypeOK, TempInv
  <2> QED
    BY <2>4, <2>5
<1>5. CASE Close(s)
  BY <1>5 DEF Close, Step, TypeOK, TempInv, Working, Place, Ended
<1>6. CASE Rename(s)
  <2>1. contents[s] \in Document /\ temp[s] = OnDisk(contents[s])
    BY <1>6 DEF Rename, Step, TempInv, Working
  <2>2. file' \in [body : Document \union Found, durable : {TRUE}]
    BY <1>6, <2>1 DEF Rename, OnDisk
  <2> QED
    BY <1>0, <1>6, <2>2 DEF Rename, Step, TypeOK, TempInv, Working, Place
<1>7. CASE Return(s)
  BY <1>7 DEF Return, Step, TypeOK, TempInv, Working, Place, Ended
<1>8. CASE Fail(s)
  <2>1. temp' \in [Saver -> T]
    BY <1>0, <1>8 DEF Fail, TypeOK
  <2>2. \A r \in Saver \ {s} : temp'[r] = temp[r] /\ pc'[r] = pc[r]
    BY <1>8 DEF Fail, TypeOK
  <2>3. pc'[s] = "failed" /\ pc' \in [Saver -> Place]
    BY <1>8 DEF Fail, TypeOK, Place, Ended
  <2>4. UNCHANGED <<file, settled, contents>>
    BY <1>8 DEF Fail
  <2>5. TypeOK'
    BY <2>1, <2>3, <2>4 DEF TypeOK
  <2>6. TempInv'
    BY <2>2, <2>3, <2>4 DEF TempInv, Working
  <2> QED
    BY <2>5, <2>6
<1>9. CASE Die(s)
  BY <1>9 DEF Die, TypeOK, TempInv, Working, Place, Ended
<1> QED
  BY <1>1, <1>2, <1>3, <1>4, <1>5, <1>6, <1>7, <1>8, <1>9 DEF SaveStep

(* A loss of power keeps it: the file is on the disk, and where the rename *)
(* is undone, what it replaced is (cache.go:153-163).                      *)
LEMMA PowerLossInvariant ==
    ASSUME IInv, PowerLoss
    PROVE  /\ IInv'
           /\ file'.body \in {file.body, settled} /\ settled' = file'.body
<1> USE DEF IInv
<1>1. PICK b \in Lost(file) \union {settled} :
         file' = OnDisk(b) /\ settled' = b
  BY DEF PowerLoss
<1>2. file = OnDisk(file.body) /\ file.body \in Document \union Found
  BY DEF TypeOK, OnDisk
<1>3. b \in {file.body, settled}
  BY <1>1, <1>2, DurableIsKept
<1>4. /\ file' \in [body : Document \union Found, durable : {TRUE}]
      /\ settled' \in Document \union Found
      /\ file'.body = b
  BY <1>1, <1>2, <1>3 DEF OnDisk, TypeOK
<1>5. temp' \in [Saver -> [body : Body, durable : BOOLEAN]]
  <2>1. \A c \in Body : OnDisk(c) \in [body : Body, durable : BOOLEAN]
    BY DEF OnDisk
  <2> QED
    BY <2>1 DEF PowerLoss
<1>6. /\ pc' \in [Saver -> Place] /\ contents' = contents
      /\ \A s \in Saver : pc'[s] = "idle"
  BY DEF PowerLoss, Place, Ended
<1>7. IInv'
  BY <1>4, <1>5, <1>6 DEF TypeOK, TempInv, Working
<1> QED
  BY <1>1, <1>3, <1>4, <1>7

(* Every step keeps the invariant (cache.go:100-164).                      *)
LEMMA NextInvariant == IInv /\ [Next]_vars => IInv'
<1> SUFFICES ASSUME IInv, [Next]_vars PROVE IInv'
  OBVIOUS
<1>1. CASE Settle
  BY <1>1 DEF Settle, IInv, TypeOK, TempInv
<1>2. CASE PowerLoss
  BY <1>2, PowerLossInvariant
<1>3. ASSUME NEW s \in Saver, SaveStep(s) PROVE IInv'
  BY <1>3, SaveStepInvariant
<1>4. CASE UNCHANGED vars
  BY <1>4 DEF vars, IInv, TypeOK, TempInv
<1> QED
  BY <1>1, <1>2, <1>3, <1>4 DEF Next

(* Every reachable state is well typed; in particular the file is whole    *)
(* and on the disk at every moment, whoever dies (cache.go:135-163).       *)
THEOREM TypeCorrect == Spec => []TypeOK
<1>1. IInv => TypeOK
  BY DEF IInv
<1> QED
  BY InitInvariant, NextInvariant, <1>1, PTL DEF Spec

-----------------------------------------------------------------------------
(* Each step of a Save is one of the register, or invisible to it.         *)
LEMMA SaveStepRefines ==
    ASSUME IInv, NEW s \in Saver, SaveStep(s)
    PROVE  [Register!RegisterNext]_(Register!registerVars)
<1> DEFINE stage == [r \in Saver |-> StageAt(pc[r])]
<1> USE DEF IInv
<1>0. pc \in [Saver -> Place] /\ pc[s] \in Place
  BY DEF TypeOK
<1>1. CASE CallSave(s)
  <2>1. PICK list \in Batches :
           IF Accepted(list)
           THEN /\ contents' = [contents EXCEPT ![s] = Stored(list)]
                /\ pc' = [pc EXCEPT ![s] = "create"]
           ELSE pc' = [pc EXCEPT ![s] = "failed"] /\ UNCHANGED contents
    BY <1>1 DEF CallSave
  <2>2. UNCHANGED <<file, settled>> /\ stage[s] \in Register!Ended
    BY <1>1 DEF CallSave, StageAt, Ended, Register!Ended
  <2>3. CASE Accepted(list)
    <3>1. Stored(list) \in Document
      BY <2>3, StoredIsDocument
    <3>2. stage' = [stage EXCEPT ![s] = "saving"]
      BY <2>1, <2>3, <1>0 DEF StageAt, Ended
    <3>3. Register!Begin(s)
      BY <2>1, <2>2, <2>3, <3>1, <3>2 DEF Register!Begin
    <3> QED
      BY <3>3 DEF Register!RegisterNext
  <2>4. CASE ~Accepted(list)
    <3>1. stage' = [stage EXCEPT ![s] = "failed"]
      BY <2>1, <2>4, <1>0 DEF StageAt, Ended
    <3>2. Register!Refuse(s)
      BY <2>1, <2>2, <2>4, <3>1 DEF Register!Refuse
    <3> QED
      BY <3>2 DEF Register!RegisterNext
  <2> QED
    BY <2>3, <2>4
<1>2. ASSUME UNCHANGED <<file, settled, contents>>,
             NEW p \in Working, NEW q \in Working, Step(s, p, q)
      PROVE  UNCHANGED Register!registerVars
  <2>1. stage' = [stage EXCEPT ![s] = "saving"] /\ stage[s] = "saving"
    BY <1>0, <1>2 DEF Step, StageAt, Ended, Working
  <2>2. stage' = stage
    BY <2>1
  <2> QED
    BY <1>2, <2>2 DEF Register!registerVars
<1>3. CASE CreateTemp(s)
  BY <1>2, <1>3 DEF CreateTemp, Working
<1>4. CASE Write(s)
  BY <1>2, <1>4 DEF Write, Working
<1>5. CASE Sync(s)
  BY <1>2, <1>5 DEF Sync, Working
<1>6. CASE Close(s)
  BY <1>2, <1>6 DEF Close, Working
<1>7. CASE Rename(s)
  <2>1. stage' = [stage EXCEPT ![s] = "replaced"] /\ stage[s] = "saving"
    BY <1>0, <1>7 DEF Rename, Step, StageAt, Ended
  <2>2. file'.body = contents[s]
    <3>1. file' = temp[s] /\ temp[s] = OnDisk(contents[s])
      BY <1>7 DEF Rename, Step, TempInv
    <3> QED
      BY <3>1 DEF OnDisk
  <2>3. Register!Replace(s)
    BY <1>7, <2>1, <2>2 DEF Rename, Register!Replace
  <2> QED
    BY <2>3 DEF Register!RegisterNext
<1>8. CASE Return(s)
  <2>1. stage' = [stage EXCEPT ![s] = "saved"] /\ stage[s] = "replaced"
    BY <1>0, <1>8 DEF Return, Step, StageAt, Ended
  <2>2. Register!ReturnNil(s)
    BY <1>8, <2>1 DEF Return, Register!ReturnNil
  <2> QED
    BY <2>2 DEF Register!RegisterNext
<1>9. CASE Fail(s)
  <2>1. stage' = [stage EXCEPT ![s] = "failed"] /\ stage[s] = "saving"
    BY <1>0, <1>9 DEF Fail, StageAt, Ended
  <2>2. Register!ReturnError(s)
    BY <1>9, <2>1 DEF Fail, Register!ReturnError
  <2> QED
    BY <2>2 DEF Register!RegisterNext
<1>10. CASE Die(s)
  <2>1. stage' = [stage EXCEPT ![s] = "idle"]
    BY <1>0, <1>10 DEF Die, StageAt, Ended
  <2>2. Register!Die(s)
    BY <1>10, <2>1 DEF Die, Register!Die
  <2> QED
    BY <2>2 DEF Register!RegisterNext
<1> QED
  BY <1>1, <1>3, <1>4, <1>5, <1>6, <1>7, <1>8, <1>9, <1>10 DEF SaveStep

(* Every step is one of the register, or invisible to it.                  *)
LEMMA NextRefines ==
    IInv /\ [Next]_vars => [Register!RegisterNext]_(Register!registerVars)
<1> SUFFICES ASSUME IInv, [Next]_vars
             PROVE  [Register!RegisterNext]_(Register!registerVars)
  OBVIOUS
<1>1. CASE Settle
  <2>1. Register!Settle
    BY <1>1 DEF Settle, Register!Settle
  <2> QED
    BY <2>1 DEF Register!RegisterNext
<1>2. CASE PowerLoss
  <2>1. file'.body \in {file.body, settled} /\ settled' = file'.body
    BY <1>2, PowerLossInvariant
  <2>2. [s \in Saver |-> StageAt(pc[s])]' = [s \in Saver |-> "idle"]
    BY <1>2 DEF PowerLoss, StageAt, Ended
  <2>3. Register!PowerLoss
    BY <1>2, <2>1, <2>2 DEF PowerLoss, Register!PowerLoss
  <2> QED
    BY <2>3 DEF Register!RegisterNext
<1>3. ASSUME NEW s \in Saver, SaveStep(s)
      PROVE  [Register!RegisterNext]_(Register!registerVars)
  BY <1>3, SaveStepRefines
<1>4. CASE UNCHANGED vars
  BY <1>4 DEF vars, Register!registerVars
<1> QED
  BY <1>1, <1>2, <1>3, <1>4 DEF Next

(* Save implements the register: atomic, and honest about its outcome, for *)
(* any number of launchers that die at any moment (cache.go:135-163).      *)
THEOREM Atomicity == Spec => ImplementsRegister
<1>1. Init => Register!RegisterInit
  <2> SUFFICES ASSUME Init PROVE Register!RegisterInit
    OBVIOUS
  <2>1. file.body \in Found /\ settled = file.body
    BY DEF Init, OnDisk
  <2>2. [s \in Saver |-> StageAt(pc[s])] = [s \in Saver |-> "idle"]
    BY DEF Init, StageAt, Ended
  <2>3. contents \in [Saver -> Document \union Found]
    BY FoundAssumption DEF Init
  <2> QED
    BY <2>1, <2>2, <2>3 DEF Register!RegisterInit
<1> QED
  BY <1>1, InitInvariant, NextInvariant, NextRefines, PTL
     DEF Spec, ImplementsRegister, Register!RegisterSpec

-----------------------------------------------------------------------------
(* What the loops of Save and Load append, in order. *)
(* Each position comes up, with as many before it as its place says.       *)
LEMMA NthTakesEachOnce ==
    ASSUME NEW n \in Nat, NEW J \in SUBSET (1..n)
    PROVE  /\ IsFiniteSet(J) /\ Cardinality(J) \in 0..n
           /\ \A k \in 1..Cardinality(J) :
                  /\ Nth(J, k) \in J
                  /\ Cardinality(Below(J, Nth(J, k))) = k - 1
<1> DEFINE c == Cardinality(J)
           rank == [i \in J |-> Cardinality(Below(J, i)) + 1]
<1>1. IsFiniteSet(J) /\ c \in 0..n
  <2>1. IsFiniteSet(1..n) /\ Cardinality(1..n) = n
    BY FS_Interval
  <2>2. IsFiniteSet(J) /\ c <= n
    BY <2>1, FS_Subset
  <2>3. c \in Nat
    BY <2>2, FS_CardinalityType
  <2> QED
    BY <2>2, <2>3
<1>2. \A i \in J : /\ IsFiniteSet(Below(J, i)) /\ i \notin Below(J, i)
                   /\ Cardinality(Below(J, i)) \in 0..(c - 1)
  <2> TAKE i \in J
  <2>1. Below(J, i) \in SUBSET (J \ {i})
    BY DEF Below
  <2>2. IsFiniteSet(J \ {i}) /\ Cardinality(J \ {i}) = c - 1
    BY <1>1, FS_RemoveElement
  <2>3. IsFiniteSet(Below(J, i)) /\ Cardinality(Below(J, i)) <= c - 1
    BY <2>1, <2>2, FS_Subset
  <2> QED
    BY <1>1, <2>1, <2>3, FS_CardinalityType
<1>3. ASSUME NEW i \in J, NEW k \in J, i < k
      PROVE  Cardinality(Below(J, i)) # Cardinality(Below(J, k))
  <2>1. \A j \in J : j \in Int
    OBVIOUS
  <2>2. i \in Below(J, k)
    BY <1>3 DEF Below
  <2>3. ASSUME NEW j \in Below(J, i) PROVE j \in Below(J, k)
    BY <1>3, <2>1, <2>3 DEF Below
  <2> QED
    BY <1>2, <2>2, <2>3, FS_Subset
<1>4. rank \in Injection(J, 1..c)
  <2>1. \A i, k \in J : rank[i] = rank[k] => i = k
    <3> SUFFICES ASSUME NEW i \in J, NEW k \in J, rank[i] = rank[k]
                 PROVE  i = k
      OBVIOUS
    <3>1. Cardinality(Below(J, i)) = Cardinality(Below(J, k))
      BY <1>2
    <3> QED
      BY <1>3, <3>1
  <2>2. rank \in [J -> 1..c]
    BY <1>1, <1>2
  <2> QED
    BY <2>1, <2>2 DEF Injection, IsInjective
<1>5. rank \in Surjection(J, 1..c)
  <2>1. IsFiniteSet(1..c) /\ Cardinality(1..c) = c
    BY <1>1, FS_Interval
  <2> QED
    BY <1>4, <2>1, FS_Injection
<1>6. ASSUME NEW k \in 1..c
      PROVE  Nth(J, k) \in J /\ Cardinality(Below(J, Nth(J, k))) = k - 1
  <2>1. \E i \in J : rank[i] = k
    <3> HIDE DEF rank
    <3> QED
      BY <1>5, <1>6 DEF Surjection
  <2>2. PICK i \in J : Cardinality(Below(J, i)) + 1 = k
    BY <2>1
  <2>3. Cardinality(Below(J, i)) = k - 1
    BY <1>2, <2>2
  <2> QED
    BY <2>3 DEF Nth
<1> QED
  BY <1>1, <1>6

(* A loop that skips some positions appends elements of its list, none of  *)
(* them twice, and the result is no longer than the list                   *)
(* (cache.go:85-96).                                                       *)
LEMMA SubsequenceOfList ==
    ASSUME NEW T, NEW list \in Seq(T), NEW J \in SUBSET DOMAIN list
    PROVE  LET s == Subsequence(list, J)
           IN  /\ s \in Seq(T)
               /\ Len(s) = Cardinality(J) /\ Len(s) \in 0..Len(list)
               /\ \A k \in DOMAIN s : Nth(J, k) \in J
                                      /\ s[k] = list[Nth(J, k)]
               /\ \A k, l \in DOMAIN s : Nth(J, k) = Nth(J, l) => k = l
<1> DEFINE n == Len(list)
           c == Cardinality(J)
           s == Subsequence(list, J)
<1>1. n \in Nat /\ DOMAIN list = 1..n
  OBVIOUS
<1>2. /\ c \in 0..n
      /\ \A k \in 1..c : /\ Nth(J, k) \in J
                         /\ Cardinality(Below(J, Nth(J, k))) = k - 1
  BY <1>1, NthTakesEachOnce
<1>3. s = [k \in 1..c |-> list[Nth(J, k)]]
  BY DEF Subsequence
<1>4. s \in [1..c -> T]
  <2>1. \A i \in DOMAIN list : list[i] \in T
    OBVIOUS
  <2> HIDE DEF c
  <2> QED
    BY <1>2, <1>3, <2>1
<1> HIDE DEF s, c
<1>5. s \in Seq(T) /\ Len(s) = c /\ DOMAIN s = 1..c
  BY <1>1, <1>2, <1>4
<1>6. \A k, l \in 1..c : Nth(J, k) = Nth(J, l) => k = l
  <2> TAKE k \in 1..c, l \in 1..c
  <2> HAVE Nth(J, k) = Nth(J, l)
  <2>1. k - 1 = l - 1
    BY <1>2
  <2> QED
    BY <1>1, <1>2, <2>1
<1>7. \A k \in 1..c : Nth(J, k) \in J /\ s[k] = list[Nth(J, k)]
  BY <1>2, <1>3
<1> QED
  BY <1>1, <1>2, <1>5, <1>6, <1>7 DEF s, c

(* A loop that skips nothing copies its list.                              *)
LEMMA WholeIsItself ==
    ASSUME NEW T, NEW list \in Seq(T)
    PROVE  Subsequence(list, DOMAIN list) = list
<1> DEFINE n == Len(list)
<1>1. n \in Nat /\ DOMAIN list = 1..n
  OBVIOUS
<1>2. Cardinality(1..n) = n
  <2>1. Cardinality(1..n) = IF 1 > n THEN 0 ELSE n - 1 + 1
    BY <1>1, FS_Interval
  <2> QED
    BY <1>1, <2>1
<1>3. ASSUME NEW k \in 1..n PROVE Nth(1..n, k) = k
  <2>1. /\ Nth(1..n, k) \in 1..n
        /\ Cardinality(Below(1..n, Nth(1..n, k))) = k - 1
    BY <1>1, <1>2, NthTakesEachOnce
  <2> DEFINE i == Nth(1..n, k)
  <2>2. i \in 1..n /\ Cardinality(Below(1..n, i)) = k - 1
    BY <2>1
  <2> HIDE DEF i
  <2>3. Below(1..n, i) = 1..(i - 1)
    BY <1>1, <2>2 DEF Below
  <2>4. i - 1 \in Nat
    BY <1>1, <2>2
  <2>5. Cardinality(1..(i - 1)) = i - 1
    BY <2>4, FS_Interval
  <2>6. i - 1 = k - 1
    BY <2>2, <2>3, <2>5
  <2> QED
    BY <1>1, <2>2, <2>6 DEF i
<1>4. Subsequence(list, 1..n) = [k \in 1..n |-> list[k]]
  BY <1>2, <1>3 DEF Subsequence
<1> QED
  BY <1>1, <1>4

-----------------------------------------------------------------------------
(* Rounding a latency within the bounds keeps it within them, however      *)
(* close, and gives whole milliseconds, which rounding again leaves alone  *)
(* (cache.go:208-214).                                                     *)
LEMMA RoundLemma ==
    ASSUME NEW l \in Milli..Minute
    PROVE  /\ Round(l) \in Milli..Minute
           /\ Milliseconds(Round(l)) \in Int
           /\ Milliseconds(Round(l)) * Milli = Round(l)
           /\ Round(Round(l)) = Round(l)
<1> DEFINE q == (2 * l + Milli) \div (2 * Milli)
           m == Minute \div Milli
<1>1. /\ Milli \in Nat /\ Milli > 0 /\ Minute \in Nat /\ l \in Nat
      /\ Milli <= l /\ l <= Minute
  BY TimeAssumption
<1>2. m \in Nat /\ m * Milli = Minute
  BY <1>1, TimeAssumption
<1>3. q \in Int /\ q * (2 * Milli) <= 2 * l + Milli
                /\ 2 * l + Milli < q * (2 * Milli) + 2 * Milli
  BY <1>1
<1>4. Round(l) = q * Milli
  BY DEF Round
<1> HIDE DEF q, m
<1>5. 1 <= q
  <2> SUFFICES ASSUME ~(1 <= q) PROVE FALSE
    OBVIOUS
  <2>1. (q + 1) * (2 * Milli) <= 2 * Milli
    BY <1>1, <1>3
  <2>2. q * (2 * Milli) + 2 * Milli = (q + 1) * (2 * Milli)
    BY <1>1, <1>3
  <2> QED
    BY <1>1, <1>3, <2>1, <2>2
<1>6. q <= m
  <2> SUFFICES ASSUME ~(q <= m) PROVE FALSE
    OBVIOUS
  <2>1. (m + 1) * (2 * Milli) <= q * (2 * Milli)
    BY <1>1, <1>2, <1>3
  <2>2. (m + 1) * (2 * Milli) = 2 * (m * Milli) + 2 * Milli
    BY <1>1, <1>2
  <2> QED
    BY <1>1, <1>2, <1>3, <2>1, <2>2
<1>7. q * Milli \in Milli..Minute
  <2>1. 1 * Milli <= q * Milli /\ q * Milli <= m * Milli
    BY <1>1, <1>2, <1>3, <1>5, <1>6
  <2> QED
    BY <1>1, <1>2, <1>3, <2>1
<1>8. (q * Milli) \div Milli = q
  BY <1>1, <1>3
<1>9. (2 * (q * Milli) + Milli) \div (2 * Milli) = q
  <2>1. /\ q * (2 * Milli) <= 2 * (q * Milli) + Milli
        /\ 2 * (q * Milli) + Milli < q * (2 * Milli) + 2 * Milli
    BY <1>1, <1>3
  <2> QED
    BY <1>1, <1>3, <2>1
<1>10. Round(q * Milli) = q * Milli
  BY <1>9 DEF Round
<1> QED
  BY <1>3, <1>4, <1>7, <1>8, <1>10 DEF Milliseconds

(* A product of milliseconds is a Duration, and the bounds are far from    *)
(* where it overflows (cache.go:182, 208).                                 *)
LEMMA WrapLemma ==
    ASSUME NEW n \in Int
    PROVE  Wrap(n) \in Int /\ (n \in 0..Minute => Wrap(n) = n)
<1>1. /\ n % (2 * Half) \in Int
      /\ n \in 0..Minute => n % (2 * Half) = n
  BY TimeAssumption
<1> QED
  BY <1>1, TimeAssumption DEF Wrap

(* What normalize returns, field by field (cache.go:196-217).              *)
LEMMA NormalizeFields ==
    ASSUME NEW e \in Entry
    PROVE  Normalize(e) = [address |-> Canonical[e.address],
                           latency |-> Round(e.latency),
                           verifiedAt |-> e.verifiedAt]
<1> DEFINE a == Canonical[e.address]
           r == Round(e.latency)
<1>1. Normalize(e) = [e EXCEPT !.address = a, !.latency = r]
  BY DEF Normalize
<1> HIDE DEF a, r
<1>2. Normalize(e) = [address |-> a, latency |-> r,
                      verifiedAt |-> e.verifiedAt]
  BY <1>1 DEF Entry
<1> QED
  BY <1>2 DEF a, r

(* Whoever passes normalize once passes it again unchanged, and survives   *)
(* the way to the disk and back (cache.go:177-217).                        *)
LEMMA ValidIsNormalized ==
    ASSUME NEW e \in Entry, Valid(e)
    PROVE  /\ Normalize(e) \in Entry /\ Valid(Normalize(e))
           /\ Normalize(Normalize(e)) = Normalize(e)
           /\ Canonical[Normalize(e).address] = Normalize(e).address
           /\ Normalize(e).verifiedAt = e.verifiedAt
           /\ FromDisk(ToDisk(Normalize(e))) = Normalize(e)
<1> DEFINE a == Canonical[e.address]
           r == Round(e.latency)
           n == [address |-> a, latency |-> r, verifiedAt |-> e.verifiedAt]
<1>1. /\ e.address \in Address /\ a # Refused /\ e.latency \in Milli..Minute
      /\ e.verifiedAt \in Int /\ e.verifiedAt # 0
  BY DEF Valid, Entry
<1>2. a \in Address /\ Canonical[a] = a
  BY <1>1, CanonicalAssumption
<1>3. /\ r \in Milli..Minute /\ Milliseconds(r) \in Int
      /\ Milliseconds(r) * Milli = r /\ Round(r) = r
  BY <1>1, RoundLemma
<1>4. r \in 0..Minute /\ r \in Int
  BY <1>3, TimeAssumption
<1>5. n \in Entry /\ Valid(n)
  BY <1>1, <1>2, <1>3, <1>4 DEF Entry, Valid
<1>6. Normalize(e) = n /\ Normalize(n) = n
  BY <1>2, <1>3, <1>5, NormalizeFields
<1>7. Wrap(Milliseconds(r) * Milli) = r
  BY <1>3, <1>4, WrapLemma
<1>8. FromDisk(ToDisk(n)) = n
  BY <1>7 DEF FromDisk, ToDisk
<1> QED
  BY <1>2, <1>5, <1>6, <1>8

(* No two entries have the same address. *)
Distinct(list) ==
    \A k, l \in DOMAIN list : list[k].address = list[l].address => k = l

(* Without the copies no two entries share an address, and a list that     *)
(* has none is left alone (cache.go:90-95, 112-116).                       *)
LEMMA DeduplicateLemma ==
    ASSUME NEW list \in Seq(Entry)
    PROVE  LET kept == Deduplicate(list)
           IN  /\ kept \in Seq(Entry) /\ Len(kept) \in 0..Len(list)
               /\ \A k \in DOMAIN kept : \E i \in DOMAIN list :
                      kept[k] = list[i]
               /\ Distinct(kept)
               /\ Distinct(list) => kept = list
<1> DEFINE First == {k \in DOMAIN list : \A l \in 1..(k - 1) :
                         list[l].address # list[k].address}
           kept == Subsequence(list, First)
<1>0. Deduplicate(list) = kept
  BY DEF Deduplicate
<1>1. Len(list) \in Nat /\ DOMAIN list = 1..Len(list)
  OBVIOUS
<1>2. First \in SUBSET DOMAIN list
  OBVIOUS
<1>3. \A i, j \in First : list[i].address = list[j].address => i = j
  BY <1>1
<1>4. Distinct(list) => First = DOMAIN list
  <2> SUFFICES ASSUME Distinct(list), NEW k \in DOMAIN list,
                      NEW l \in 1..(k - 1)
               PROVE  list[l].address # list[k].address
    OBVIOUS
  <2>1. l \in DOMAIN list /\ l # k
    BY <1>1
  <2> QED
    BY <2>1 DEF Distinct
<1> HIDE DEF First
<1>5. /\ kept \in Seq(Entry) /\ Len(kept) \in 0..Len(list)
      /\ \A k \in DOMAIN kept : Nth(First, k) \in First
                                /\ kept[k] = list[Nth(First, k)]
      /\ \A k, l \in DOMAIN kept : Nth(First, k) = Nth(First, l) => k = l
  BY <1>2, SubsequenceOfList
<1>6. Distinct(list) => kept = list
  BY <1>4, WholeIsItself
<1> HIDE DEF kept
<1>7. Distinct(kept)
  BY <1>3, <1>5 DEF Distinct
<1>8. \A k \in DOMAIN kept : \E i \in DOMAIN list : kept[k] = list[i]
  BY <1>2, <1>5
<1> QED
  BY <1>0, <1>5, <1>6, <1>7, <1>8

(* Normalising valid entries gives as many entries, place by place.        *)
LEMMA NormalizeAllLemma ==
    ASSUME NEW list \in Seq(Entry), \A k \in DOMAIN list : Valid(list[k])
    PROVE  LET all == NormalizeAll(list)
           IN  /\ all \in Seq(Entry) /\ Len(all) = Len(list)
               /\ \A k \in DOMAIN list : all[k] = Normalize(list[k])
<1> DEFINE all == NormalizeAll(list)
<1>1. \A k \in DOMAIN list : list[k] \in Entry
  OBVIOUS
<1>2. \A k \in DOMAIN list : Normalize(list[k]) \in Entry
  BY <1>1, ValidIsNormalized
<1>3. all = [k \in 1..Len(list) |-> Normalize(list[k])]
  BY DEF NormalizeAll
<1> HIDE DEF all
<1>4. all \in Seq(Entry) /\ Len(all) = Len(list)
  BY <1>2, <1>3
<1> QED
  BY <1>3, <1>4 DEF all

(* What Load returns for any JSON that decodes, and any clock              *)
(* (cache.go:62-97).                                                       *)
LEMMA LoadedIsSafe ==
    ASSUME NEW body \in DiskCache, NEW now \in Int
    PROVE  LET loaded == Load(body, now)
           IN  /\ Len(loaded) <= MaxEntries
               /\ \A k \in DOMAIN loaded :
                      /\ Canonical[loaded[k].address] = loaded[k].address
                      /\ loaded[k].latency \in Milli..Minute
                      /\ loaded[k].verifiedAt \in (now - TTL)..(now + Skew)
               /\ Distinct(loaded)
<1> DEFINE p == body.proxies
           raw == [k \in DOMAIN p |-> FromDisk(p[k])]
           Good == {k \in DOMAIN raw : Valid(raw[k]) /\ Fresh(raw[k], now)}
           kept == Subsequence(raw, Good)
           all == NormalizeAll(kept)
           loaded == Deduplicate(all)
<1>1. CASE body.version # SchemaVersion \/ Len(p) > MaxEntries
  <2>1. Load(body, now) = <<>>
    BY <1>1 DEF Load
  <2> QED
    BY <2>1, TimeAssumption DEF Distinct
<1>2. CASE ~(body.version # SchemaVersion \/ Len(p) > MaxEntries)
  <2>1. p \in Seq(DiskEntry) /\ Len(p) \in Nat
    BY DEF DiskCache
  <2>2. Len(p) <= MaxEntries
    BY <1>2, <2>1, TimeAssumption
  <2>3. raw \in Seq(Entry) /\ Len(raw) = Len(p)
    <3>1. \A k \in DOMAIN p : FromDisk(p[k]) \in Entry
      <4> TAKE k \in DOMAIN p
      <4>1. p[k] \in DiskEntry
        BY <2>1
      <4>2. p[k].latencyMS * Milli \in Int
        BY <4>1, TimeAssumption DEF DiskEntry
      <4>3. Wrap(p[k].latencyMS * Milli) \in Int
        BY <4>2, WrapLemma
      <4> QED
        BY <4>1, <4>3 DEF DiskEntry, Entry, FromDisk
    <3>2. raw = [k \in 1..Len(p) |-> FromDisk(p[k])]
      BY <2>1
    <3> HIDE DEF raw, p
    <3> QED
      BY <2>1, <3>1, <3>2
  <2>4. Load(body, now) = loaded
    BY <1>2 DEF Load
  <2>5. /\ Good \in SUBSET DOMAIN raw
        /\ \A k \in Good : Valid(raw[k]) /\ Fresh(raw[k], now)
    OBVIOUS
  <2> HIDE DEF p, raw, Good
  <2>6. /\ kept \in Seq(Entry) /\ Len(kept) \in 0..Len(raw)
        /\ \A k \in DOMAIN kept : Valid(kept[k]) /\ Fresh(kept[k], now)
    BY <2>3, <2>5, SubsequenceOfList
  <2> HIDE DEF kept
  <2>7. /\ all \in Seq(Entry) /\ Len(all) = Len(kept)
        /\ \A k \in DOMAIN kept : all[k] = Normalize(kept[k])
    BY <2>6, NormalizeAllLemma
  <2> HIDE DEF all
  <2>8. /\ loaded \in Seq(Entry) /\ Len(loaded) \in 0..Len(all)
        /\ \A k \in DOMAIN loaded : \E i \in DOMAIN all : loaded[k] = all[i]
        /\ Distinct(loaded)
    BY <2>7, DeduplicateLemma
  <2>9. \A i \in DOMAIN all : 
           /\ Canonical[all[i].address] = all[i].address
           /\ all[i].latency \in Milli..Minute
           /\ all[i].verifiedAt \in (now - TTL)..(now + Skew)
    <3> TAKE i \in DOMAIN all
    <3>1. i \in DOMAIN kept
      BY <2>6, <2>7
    <3>2. kept[i] \in Entry /\ Valid(kept[i]) /\ Fresh(kept[i], now)
      BY <2>6, <3>1
    <3> DEFINE e == kept[i]
               n == Normalize(e)
    <3>3. all[i] = n
      BY <2>7, <3>1
    <3> HIDE DEF e
    <3>4. /\ Canonical[n.address] = n.address /\ Valid(n) /\ n \in Entry
          /\ n.verifiedAt = e.verifiedAt
      BY <3>2, ValidIsNormalized DEF e
    <3> HIDE DEF n
    <3>5. n.latency \in Milli..Minute
      BY <3>4 DEF Valid
    <3>6. e.verifiedAt \in (now - TTL)..(now + Skew)
      <4>1. e.verifiedAt \in Int
        BY <3>2 DEF Entry, e
      <4> QED
        BY <3>2, <4>1, TimeAssumption DEF Fresh, e
    <3> QED
      BY <3>3, <3>4, <3>5, <3>6
  <2> HIDE DEF loaded
  <2>10. Len(loaded) <= MaxEntries
    BY <2>1, <2>2, <2>3, <2>6, <2>7, <2>8, TimeAssumption
  <2> QED
    BY <2>4, <2>8, <2>9, <2>10
<1> QED
  BY <1>1, <1>2

(* What Save keeps of the entries it accepts is valid, distinct, and       *)
(* unchanged by normalize and by the way to the disk (cache.go:105-124).   *)
LEMMA SavedLemma ==
    ASSUME NEW list \in Seq(Entry), Accepted(list)
    PROVE  LET saved == Deduplicate(NormalizeAll(list))
           IN  /\ saved \in Seq(Entry) /\ Len(saved) <= MaxEntries
               /\ Distinct(saved)
               /\ \A k \in DOMAIN saved :
                      /\ Valid(saved[k]) /\ Normalize(saved[k]) = saved[k]
                      /\ FromDisk(ToDisk(saved[k])) = saved[k]
<1> DEFINE all == NormalizeAll(list)
           saved == Deduplicate(all)
<1>1. Len(list) <= MaxEntries /\ \A k \in DOMAIN list : Valid(list[k])
  BY DEF Accepted
<1>2. /\ all \in Seq(Entry) /\ Len(all) = Len(list)
      /\ \A k \in DOMAIN list : all[k] = Normalize(list[k])
  BY <1>1, NormalizeAllLemma
<1> HIDE DEF all
<1>3. /\ saved \in Seq(Entry) /\ Len(saved) \in 0..Len(all)
      /\ \A k \in DOMAIN saved : \E i \in DOMAIN all : saved[k] = all[i]
      /\ Distinct(saved)
  BY <1>2, DeduplicateLemma
<1> HIDE DEF saved
<1>4. ASSUME NEW k \in DOMAIN saved
      PROVE  /\ Valid(saved[k]) /\ Normalize(saved[k]) = saved[k]
             /\ FromDisk(ToDisk(saved[k])) = saved[k]
  <2>1. PICK i \in DOMAIN all : saved[k] = all[i]
    BY <1>3
  <2>2. i \in DOMAIN list
    BY <1>2
  <2>3. list[i] \in Entry /\ Valid(list[i]) /\ saved[k] = Normalize(list[i])
    BY <1>1, <1>2, <2>1, <2>2
  <2> QED
    BY <2>3, ValidIsNormalized
<1>5. Len(saved) <= MaxEntries
  BY <1>1, <1>2, <1>3, TimeAssumption
<1> QED
  BY <1>3, <1>4, <1>5 DEF saved, all

(* What Save writes is a document Load can decode (cache.go:105-130).      *)
LEMMA StoredOnDisk ==
    ASSUME NEW list \in Seq(Entry), Accepted(list)
    PROVE  LET saved == Deduplicate(NormalizeAll(list))
           IN  /\ Stored(list) \in DiskCache
               /\ Stored(list).version = SchemaVersion
               /\ Stored(list).proxies
                      = [k \in DOMAIN saved |-> ToDisk(saved[k])]
<1> DEFINE saved == Deduplicate(NormalizeAll(list))
           proxies == [k \in DOMAIN saved |-> ToDisk(saved[k])]
<1>1. saved \in Seq(Entry)
  BY SavedLemma
<1>2. Stored(list) = [version |-> SchemaVersion, proxies |-> proxies]
  BY DEF Stored
<1> HIDE DEF saved
<1>3. \A k \in DOMAIN saved : ToDisk(saved[k]) \in DiskEntry
  <2> TAKE k \in DOMAIN saved
  <2>1. saved[k] \in Entry
    BY <1>1
  <2>2. Milliseconds(saved[k].latency) \in Int
    BY <2>1, TimeAssumption DEF Milliseconds, Entry
  <2> QED
    BY <2>1, <2>2 DEF Entry, DiskEntry, ToDisk
<1>4. proxies \in Seq(DiskEntry)
  <2>1. proxies = [k \in 1..Len(saved) |-> ToDisk(saved[k])]
    BY <1>1
  <2> HIDE DEF proxies
  <2> QED
    BY <1>1, <1>3, <2>1
<1> HIDE DEF proxies
<1>5. SchemaVersion \in Int
  BY DEF SchemaVersion
<1> QED
  BY <1>2, <1>4, <1>5 DEF DiskCache, saved, proxies

(* Whatever the file holds, Load gives valid, distinct, canonical entries  *)
(* of the right age, no more than MaxEntries (cache.go:62-97).             *)
THEOREM LoadsSafely == Spec => []LoadIsSafe
<1>1. TypeOK => LoadIsSafe
  <2> SUFFICES ASSUME TypeOK, NEW now \in Clock
               PROVE  LET loaded == Load(file.body, now)
                      IN  /\ Len(loaded) <= MaxEntries
                          /\ \A k \in DOMAIN loaded :
                                 /\ Canonical[loaded[k].address]
                                        = loaded[k].address
                                 /\ loaded[k].latency \in Milli..Minute
                                 /\ loaded[k].verifiedAt
                                        \in (now - TTL)..(now + Skew)
                          /\ Distinct(loaded)
    BY DEF LoadIsSafe, Distinct
  <2>1. now \in Int
    BY TimeAssumption
  <2>2. Document \subseteq DiskCache
    BY BatchesAssumption, StoredOnDisk DEF Document
  <2>3. file.body \in DiskCache
    BY <2>2, FoundAssumption DEF TypeOK
  <2> QED
    BY <2>1, <2>3, LoadedIsSafe
<1> QED
  BY TypeCorrect, <1>1, PTL

(* What a Save has stored comes back: Load drops what has aged, and        *)
(* changes nothing else (cache.go:52-163).                                 *)
THEOREM ComesBack == Spec => []SavedComesBack
<1>1. SavedComesBack
  <2> SUFFICES ASSUME NEW list \in Batches, NEW now \in Clock,
                      Accepted(list), file.body = Stored(list)
               PROVE  LET saved == Deduplicate(NormalizeAll(list))
                      IN  Load(file.body, now) =
                              Subsequence(saved, {k \in DOMAIN saved :
                                                      Fresh(saved[k], now)})
    BY DEF SavedComesBack
  <2> DEFINE saved == Deduplicate(NormalizeAll(list))
             p == Stored(list).proxies
             raw == [k \in DOMAIN p |-> FromDisk(p[k])]
             Good == {k \in DOMAIN raw : Valid(raw[k]) /\ Fresh(raw[k], now)}
             Kept == {k \in DOMAIN saved : Fresh(saved[k], now)}
             kept == Subsequence(saved, Kept)
  <2>1. list \in Seq(Entry)
    BY BatchesAssumption
  <2>2. /\ saved \in Seq(Entry) /\ Len(saved) <= MaxEntries
        /\ Distinct(saved)
        /\ \A k \in DOMAIN saved :
               /\ Valid(saved[k]) /\ Normalize(saved[k]) = saved[k]
               /\ FromDisk(ToDisk(saved[k])) = saved[k]
    BY <2>1, SavedLemma
  <2>3. /\ Stored(list).version = SchemaVersion
        /\ p = [k \in DOMAIN saved |-> ToDisk(saved[k])]
    BY <2>1, StoredOnDisk
  <2>4. Load(Stored(list), now) =
            IF Stored(list).version # SchemaVersion \/ Len(p) > MaxEntries
            THEN <<>>
            ELSE Deduplicate(NormalizeAll(Subsequence(raw, Good)))
    BY DEF Load
  <2> HIDE DEF saved, p
  <2>5. raw = saved
    BY <2>2, <2>3
  <2>6. Len(p) = Len(saved)
    BY <2>2, <2>3
  <2>7. Good = Kept
    BY <2>2, <2>5
  <2>8. Kept \in SUBSET DOMAIN saved
    OBVIOUS
  <2> HIDE DEF raw, Good, Kept
  <2>9. Load(Stored(list), now) = Deduplicate(NormalizeAll(kept))
    BY <2>2, <2>3, <2>4, <2>5, <2>6, <2>7, TimeAssumption
  <2>10. /\ kept \in Seq(Entry)
         /\ \A k \in DOMAIN kept : Nth(Kept, k) \in Kept
                                   /\ kept[k] = saved[Nth(Kept, k)]
         /\ \A k, l \in DOMAIN kept : Nth(Kept, k) = Nth(Kept, l) => k = l
    BY <2>2, <2>8, SubsequenceOfList
  <2> HIDE DEF kept
  <2>11. \A k \in DOMAIN kept : Valid(kept[k]) /\ Normalize(kept[k]) = kept[k]
    BY <2>2, <2>8, <2>10
  <2>12. Distinct(kept)
    BY <2>2, <2>8, <2>10 DEF Distinct
  <2>13. NormalizeAll(kept) = kept
    <3>1. NormalizeAll(kept) = [k \in DOMAIN kept |-> kept[k]]
      BY <2>11 DEF NormalizeAll
    <3> QED
      BY <2>10, <3>1
  <2>14. Deduplicate(kept) = kept
    BY <2>10, <2>12, DeduplicateLemma
  <2> QED
    BY <2>9, <2>13, <2>14 DEF kept, Kept, saved
<1> QED
  BY <1>1, PTL
=============================================================================
