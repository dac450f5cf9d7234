----------------------------- MODULE Discovery -----------------------------
(***************************************************************************)
(* discord.FindStable (src/internal/discord/install.go): the directories   *)
(* of Discord's root are listed once, then each is looked into, while      *)
(* Update.exe may add, complete and remove versions.                       *)
(*                                                                         *)
(* A name is what stands before the version and the version, a sequence of *)
(* characters: the digits as themselves, the dot below and any other above *)
(* them, which is how strings compare them.                                *)
(***************************************************************************)
EXTENDS Integers, Sequences, FiniteSets, Functions

CONSTANTS
    Name,                   \* the directory names that may appear
    MaxPresent,             \* bound: how many there are at first
    MaxChanges              \* bound: what Update.exe does during the scan

Dot == -1
Digit == 0..9
Other == 10

ASSUME NameAssumption ==
    /\ IsFiniteSet(Name)
    /\ Name \subseteq [prefix : {"app-", "App-", "other"},
                       version : Seq(Digit \union {Dot, Other})]
ASSUME BoundAssumption == MaxPresent \in Nat /\ MaxChanges \in Nat

VARIABLES
    root,                   \* "absent", "partial" or "complete" per name
    pc,                     \* "entry", "scanning", "found" or "failed"
    entries,                \* what os.ReadDir listed and is not looked into
    candidates,             \* the complete numeric versions found
    selected,               \* the name of the installation, when found
    steady,                 \* history: complete since the listing
    seen,                   \* history: complete at some time since then
    changes                 \* history: the changes during the scan

scanVars == <<pc, entries, candidates, selected>>
vars == <<root, scanVars, steady, seen, changes>>

-----------------------------------------------------------------------------
(* Versions. strings.Split gives what stands between two cuts. *)
Below(positions, i) == {j \in positions : j < i}
Nth(positions, k) ==
    CHOOSE i \in positions : Cardinality(Below(positions, i)) = k - 1

Cuts(version) ==
    {0, Len(version) + 1} \union {i \in DOMAIN version : version[i] = Dot}

Split(version) ==
    [k \in 1..(Cardinality(Cuts(version)) - 1) |->
        SubSeq(version, Nth(Cuts(version), k) + 1,
                        Nth(Cuts(version), k + 1) - 1)]

Accepted(version) ==
    \A i \in DOMAIN Split(version) :
        LET part == Split(version)[i]
        IN  part # <<>> /\ Range(part) \subseteq Digit

WithZeros(part) == part     \* mutant: leading zeros count

TrimZeros(part) ==
    LET kept == {i \in DOMAIN part : part[i] # 0}
    IN  IF kept = {} THEN <<0>>
        ELSE SubSeq(part, CHOOSE i \in kept : \A k \in kept : i <= k,
                    Len(part))

Parse(version) == [i \in DOMAIN Split(version) |-> TrimZeros(Split(version)[i])]

(* Strings compare by their first difference, or by length. *)
StringLess(s, t) ==
    \/ \E i \in DOMAIN s \intersect DOMAIN t :
          s[i] < t[i] /\ \A k \in 1..(i - 1) : s[k] = t[k]
    \/ Len(s) < Len(t) /\ \A k \in DOMAIN s : s[k] = t[k]

(* Without leading zeros the longer component is the larger number. *)
ComponentLess(s, t) == Len(s) < Len(t) \/ (Len(s) = Len(t) /\ StringLess(s, t))

Component(parts, i) == IF i <= Len(parts) THEN parts[i] ELSE <<0>>

Older(left, right) ==
    \E i \in DOMAIN left \union DOMAIN right :
        /\ ComponentLess(Component(left, i), Component(right, i))
        /\ \A k \in 1..(i - 1) : Component(left, k) = Component(right, k)

(* The order of the sort: versions, and names among equal versions. *)
ByVersion(m, n) ==          \* mutant: equal versions are not ordered
    Older(Parse(m.version), Parse(n.version))

SortsBefore(m, n) ==
    LET left == Parse(m.version) right == Parse(n.version)
    IN  \/ Older(left, right)
        \/ ~Older(right, left) /\ StringLess(m.version, n.version)

(* The image of a process counts as Stable; the prefix may differ in case. *)
IsStableImage(n) ==
    /\ n.prefix \in {"app-", "App-"} /\ n.version # <<>>
    /\ Accepted(n.version)

-----------------------------------------------------------------------------
Present(n) == root[n] # "absent"
Complete == {n \in Name : root[n] = "complete"}

Init ==
    /\ root \in [Name -> {"absent", "partial", "complete"}]
    /\ Cardinality({n \in Name : Present(n)}) <= MaxPresent
    /\ pc = "entry"
    /\ entries = {} /\ candidates = {} /\ selected = {}
    /\ steady = {} /\ seen = {}
    /\ changes = 0

(* Update.exe makes a directory, writes Discord.exe, or removes either. *)
Update ==
    /\ pc = "scanning" /\ changes < MaxChanges
    /\ \E n \in Name, state \in {"absent", "partial", "complete"} :
          /\ root[n] # state
          /\ root' = [root EXCEPT ![n] = state]
          /\ steady' = steady \ {n}
          /\ seen' = IF state = "complete" THEN seen \union {n} ELSE seen
    /\ changes' = changes + 1
    /\ UNCHANGED scanVars

(* os.ReadDir fails, for one because there is no root. *)
Unreadable ==
    /\ pc = "entry"
    /\ pc' = "failed"
    /\ UNCHANGED <<root, entries, candidates, selected, steady, seen, changes>>

ReadDir ==
    /\ pc = "entry"
    /\ entries' = {n \in Name : Present(n)}
    /\ steady' = Complete /\ seen' = Complete
    /\ pc' = "scanning"
    /\ UNCHANGED <<root, candidates, selected, changes>>

(* The entries come in the order of their names. *)
IsNext(n) ==
    /\ n \in entries
    /\ \A m \in entries : m = n \/ StringLess(n.version, m.version)
                          \/ n.version = m.version

Stat(n) ==
    /\ pc = "scanning" /\ IsNext(n)
    /\ entries' = entries \ {n}
    /\ candidates' = IF /\ n.prefix = "app-" /\ Accepted(n.version)
                        /\ root[n] = "complete"
                     THEN candidates \union {n} ELSE candidates
    /\ UNCHANGED <<root, pc, selected, steady, seen, changes>>

Select ==
    /\ pc = "scanning" /\ entries = {}
    /\ pc' = IF candidates = {} THEN "failed" ELSE "found"
    /\ selected' = {n \in candidates :
                        \A m \in candidates \ {n} : SortsBefore(m, n)}
    /\ UNCHANGED <<root, entries, candidates, steady, seen, changes>>

Terminated == pc \in {"found", "failed"} /\ UNCHANGED vars

Next ==
    \/ Update
    \/ Unreadable \/ ReadDir
    \/ \E n \in Name : Stat(n)
    \/ Select
    \/ Terminated

Spec == Init /\ [][Next]_vars

-----------------------------------------------------------------------------
(* What a version means: its components as numbers, and zeros after them.  *)
Number(part) ==
    LET value[k \in 0..Len(part)] ==
            IF k = 0 THEN 0 ELSE 10 * value[k - 1] + part[k]
    IN  value[Len(part)]

Newer(m, n) ==
    LET value(v, i) == IF i <= Len(Split(v)) THEN Number(Split(v)[i]) ELSE 0
        Index == DOMAIN Split(m.version) \union DOMAIN Split(n.version)
    IN  \E i \in Index :
            /\ value(m.version, i) > value(n.version, i)
            /\ \A k \in Index : k < i =>
                   value(m.version, k) = value(n.version, k)

IsVersion(n) ==
    /\ n.prefix = "app-"
    /\ n.version # <<>>
    /\ \A i \in DOMAIN n.version :
          \/ n.version[i] \in Digit
          \/ n.version[i] = Dot /\ i \notin {1, Len(n.version)}
                                /\ n.version[i + 1] # Dot

(* Every variable keeps to its domain, and at most one installation is     *)
(* selected: the order of the sort is total among names (install.go:104).  *)
TypeOK ==
    /\ root \in [Name -> {"absent", "partial", "complete"}]
    /\ pc \in {"entry", "scanning", "found", "failed"}
    /\ entries \subseteq Name
    /\ candidates \subseteq Name
    /\ selected \subseteq Name
    /\ Cardinality(selected) = (IF pc = "found" THEN 1 ELSE 0)
    /\ steady \subseteq seen /\ seen \subseteq Name
    /\ changes \in 0..MaxChanges

(* Whatever Update.exe does meanwhile, what is found was complete during   *)
(* the scan, no version that was complete all the time is newer by its     *)
(* numbers, and the processes of it are recognised as Stable; "not         *)
(* installed" is said only when no version was there all the time          *)
(* (install.go:64-111, 150-179, client.go:86-103).                         *)
FindsNewest ==
    /\ pc = "found" => \A n \in selected :
          /\ IsVersion(n) /\ n \in seen /\ IsStableImage(n)
          /\ \A m \in steady : IsVersion(m) => ~Newer(m, n)
    /\ pc = "failed" => ~\E m \in steady : IsVersion(m)
=============================================================================
