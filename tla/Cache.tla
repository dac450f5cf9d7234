------------------------------- MODULE Cache -------------------------------
(***************************************************************************)
(* The proxy cache (src/internal/cache/cache.go): Save, one system call at *)
(* a time, in launchers that run, fail and die at any moment, and Load,    *)
(* which changes nothing and is a function of the file and the clock.      *)
(*                                                                         *)
(* Several launchers may save at once: the singleton mutex is Local\, one  *)
(* for each session, and the file belongs to the user.                     *)
(*                                                                         *)
(* A raw address is a number, Canonical gives what SanitizeEndpoint and    *)
(* the check of the country make of it. A Duration counts ticks, Milli of  *)
(* them a millisecond, and wraps round at Half.                            *)
(***************************************************************************)
EXTENDS Integers, Sequences, FiniteSets, SequencesExt

CONSTANTS
    Saver,                  \* the launchers
    Address,                \* raw addresses, as found in a file or an Entry
    Canonical,              \* [Address -> Address \union {Refused}]
    Milli, Minute,          \* time.Millisecond, time.Minute
    Half,                   \* 2^63: a Duration is in (-Half)..(Half - 1)
    TTL, Skew,              \* 24 hours and 5 minutes
    MaxEntries,             \* 3 in the program
    Batches,                \* the arguments of Save to try
    Found,                  \* what the file may hold before the first Save
    Clock                   \* the times at which Load may be called

Refused == 0
Missing == [version |-> 0, proxies |-> <<>>]    \* no file, or not a cache
Torn == [version |-> -1, proxies |-> <<>>]      \* what power loss leaves
SchemaVersion == 1

(* What Go's types and encoding/json admit. *)
Entry == [address : Address, latency : Int, verifiedAt : Int]
DiskEntry == [address : Address, latencyMS : Int, verifiedAt : Int]
DiskCache == [version : Int, proxies : Seq(DiskEntry)]

ASSUME AddressAssumption == Address \subseteq Nat \ {Refused}
ASSUME CanonicalAssumption ==
    /\ Canonical \in [Address -> Address \union {Refused}]
    /\ \A a \in Address : Canonical[a] # Refused =>
           Canonical[Canonical[a]] = Canonical[a]
ASSUME TimeAssumption ==
    /\ Milli \in Nat \ {0} /\ Minute \in Nat /\ Minute % Milli = 0
    /\ Half \in Nat /\ Minute < Half
    /\ TTL \in Int /\ Skew \in Nat /\ MaxEntries \in Nat
    /\ Clock \subseteq Int
ASSUME FoundAssumption == Missing \in Found /\ Found \subseteq DiskCache
ASSUME BatchesAssumption == Batches \subseteq Seq(Entry)

VARIABLES
    file,                   \* what the path names: its content, and whether
                            \* it is on the disk or only written
    settled,                \* what the path would name after a power loss
    temp,                   \* the temporary file of each launcher
    pc,                     \* where the Save of each launcher stands
    contents                \* the document it writes

vars == <<file, settled, temp, pc, contents>>

-----------------------------------------------------------------------------
(* The product of time.Duration(LatencyMS) * time.Millisecond. *)
Wrap(n) ==
    LET low == n % (2 * Half)
    IN  IF low >= Half THEN low - 2 * Half ELSE low

(* Duration.Round and Duration.Milliseconds *)
Round(latency) == ((2 * latency + Milli) \div (2 * Milli)) * Milli
Milliseconds(latency) == latency \div Milli

(* normalize, for a zero VerifiedAt as 0 *)
ValidFromZero(e) ==         \* mutant: the upper bound of a latency is gone
    /\ Canonical[e.address] # Refused
    /\ e.latency >= Milli /\ e.verifiedAt # 0

Valid(e) ==
    /\ Canonical[e.address] # Refused
    /\ e.latency \in Milli..Minute
    /\ e.verifiedAt # 0

Normalize(e) == [e EXCEPT !.address = Canonical[e.address],
                          !.latency = Round(e.latency)]

(* What a loop that skips some positions of the list appends. *)
Below(positions, i) == {j \in positions : j < i}
Nth(positions, k) ==
    CHOOSE i \in positions : Cardinality(Below(positions, i)) = k - 1

Subsequence(list, positions) ==
    [k \in 1..Cardinality(positions) |-> list[Nth(positions, k)]]

Deduplicate(list) ==        \* of several with an address, the first
    Subsequence(list, {k \in DOMAIN list : \A l \in 1..(k - 1) :
                           list[l].address # list[k].address})

NormalizeAll(list) == [k \in DOMAIN list |-> Normalize(list[k])]

(* The document Save writes, and the entries it refuses to write. *)
Accepted(list) ==
    Len(list) <= MaxEntries /\ \A k \in DOMAIN list : Valid(list[k])

ToDisk(e) == [address |-> e.address, latencyMS |-> Milliseconds(e.latency),
              verifiedAt |-> e.verifiedAt]
StoredRaw(list) ==          \* mutant: what was checked is not what is written
    [version |-> SchemaVersion,
     proxies |-> [k \in DOMAIN list |-> ToDisk(list[k])]]

Stored(list) ==
    LET kept == Deduplicate(NormalizeAll(list))
    IN  [version |-> SchemaVersion,
         proxies |-> [k \in DOMAIN kept |-> ToDisk(kept[k])]]

(* fromDisk *)
FromDisk(d) == [address |-> d.address, latency |-> Wrap(d.latencyMS * Milli),
                verifiedAt |-> d.verifiedAt]
Fresh(e, now) == TTL > 0 /\ now - e.verifiedAt \in (-Skew)..TTL

(* Load. Its errors leave the launcher without cached entries. *)
Load(body, now) ==
    IF body.version # SchemaVersion \/ Len(body.proxies) > MaxEntries THEN <<>>
    ELSE LET raw == [k \in DOMAIN body.proxies |-> FromDisk(body.proxies[k])]
             kept == Subsequence(raw, {k \in DOMAIN raw :
                                           Valid(raw[k]) /\ Fresh(raw[k], now)})
         IN  Deduplicate(NormalizeAll(kept))

-----------------------------------------------------------------------------
Document == {Stored(list) : list \in {b \in Batches : Accepted(b)}}
Body == Document \union Found \union {Missing, Torn}

Written(body) == [body |-> body, durable |-> FALSE]
OnDisk(body) == [body |-> body, durable |-> TRUE]
NoFile == OnDisk(Missing)
Step(s, from, to) == pc[s] = from /\ pc' = [pc EXCEPT ![s] = to]
Ended == {"idle", "saved", "failed"}
Place == Ended \union {"create", "write", "sync", "close", "rename", "renamed"}

Init ==
    /\ file \in {OnDisk(body) : body \in Found}
    /\ settled = file.body
    /\ temp = [s \in Saver |-> NoFile]
    /\ pc = [s \in Saver |-> "idle"]
    /\ contents = [s \in Saver |-> Missing]

(* A launcher calls Save; what cannot be stored is refused whole. *)
CallSave(s) ==
    /\ pc[s] \in Ended
    /\ \E list \in Batches :
          IF Accepted(list)
          THEN /\ contents' = [contents EXCEPT ![s] = Stored(list)]
               /\ pc' = [pc EXCEPT ![s] = "create"]
          ELSE pc' = [pc EXCEPT ![s] = "failed"] /\ UNCHANGED contents
    /\ UNCHANGED <<file, settled, temp>>

(* CreateTemp with a name of its own, and Chmod *)
CreateTemp(s) ==
    /\ Step(s, "create", "write")
    /\ temp' = [temp EXCEPT ![s] = Written(Torn)]
    /\ UNCHANGED <<file, settled, contents>>

Write(s) ==
    /\ Step(s, "write", "sync")
    /\ temp' = [temp EXCEPT ![s] = Written(contents[s])]
    /\ UNCHANGED <<file, settled, contents>>

SyncNothing(s) ==           \* mutant: the file is only flushed by the system
    /\ Step(s, "sync", "close")
    /\ UNCHANGED <<file, settled, temp, contents>>

Sync(s) ==
    /\ Step(s, "sync", "close")
    /\ temp' = [temp EXCEPT ![s] = OnDisk(@.body)]
    /\ UNCHANGED <<file, settled, contents>>

Close(s) ==
    /\ Step(s, "close", "rename")
    /\ UNCHANGED <<file, settled, temp, contents>>

Rename(s) ==
    /\ Step(s, "rename", "renamed")
    /\ file' = temp[s]
    /\ temp' = [temp EXCEPT ![s] = NoFile]
    /\ UNCHANGED <<settled, contents>>

Return(s) ==
    /\ Step(s, "renamed", "saved")
    /\ UNCHANGED <<file, settled, temp, contents>>

FailLate(s) ==              \* mutant: an error is returned after the rename
    /\ pc[s] \notin Ended
    /\ pc' = [pc EXCEPT ![s] = "failed"]
    /\ temp' \in {temp, [temp EXCEPT ![s] = NoFile]}
    /\ UNCHANGED <<file, settled, contents>>

(* Any call before the rename, and the rename itself, may fail; the        *)
(* deferred Remove may fail as well, which nobody notices.                 *)
Fail(s) ==
    /\ pc[s] \notin Ended \union {"renamed"}
    /\ pc' = [pc EXCEPT ![s] = "failed"]
    /\ temp' \in {temp, [temp EXCEPT ![s] = NoFile]}
    /\ UNCHANGED <<file, settled, contents>>

(* The process dies; its files stay. *)
Die(s) ==
    /\ pc[s] \notin Ended
    /\ pc' = [pc EXCEPT ![s] = "idle"]
    /\ UNCHANGED <<file, settled, temp, contents>>

(* The system writes the directory. *)
Settle ==
    /\ settled' = file.body
    /\ UNCHANGED <<file, temp, pc, contents>>

(* Everything dies. Data that was only written may be lost, and a rename   *)
(* may be undone.                                                          *)
Lost(f) == {f.body, IF f.durable THEN f.body ELSE Torn}

PowerLoss ==
    /\ \E body \in Lost(file) \union {settled} :
          file' = OnDisk(body) /\ settled' = body
    /\ temp' \in {t \in [Saver -> {OnDisk(body) : body \in Body}] :
                      \A s \in Saver : t[s].body \in Lost(temp[s])}
    /\ pc' = [s \in Saver |-> "idle"]
    /\ UNCHANGED contents

SaveStep(s) ==
    \/ CallSave(s) \/ CreateTemp(s) \/ Write(s) \/ Sync(s) \/ Close(s)
    \/ Rename(s) \/ Return(s) \/ Fail(s) \/ Die(s)

Next == Settle \/ PowerLoss \/ \E s \in Saver : SaveStep(s)

Spec == Init /\ [][Next]_vars

-----------------------------------------------------------------------------
(* Every variable keeps to its domain, and the file is never one that a    *)
(* loss of power can tear (cache.go:153-163).                              *)
TypeOK ==
    /\ settled \in Document \union Found
    /\ file \in [body : Document \union Found, durable : {TRUE}]
    /\ temp \in [Saver -> [body : Body, durable : BOOLEAN]]
    /\ pc \in [Saver -> Place]
    /\ contents \in [Saver -> Document \union {Missing}]

(* Whatever the file holds, edited by hand or written by an older version, *)
(* Load gives valid, distinct, canonical entries of the right age, never   *)
(* more than MaxEntries; a latency that overflows is no exception          *)
(* (cache.go:79-97, 177-217).                                              *)
LoadIsSafe ==
    \A now \in Clock :
        LET loaded == Load(file.body, now)
        IN  /\ Len(loaded) <= MaxEntries
            /\ \A k \in DOMAIN loaded :
                   /\ Canonical[loaded[k].address] = loaded[k].address
                   /\ loaded[k].latency \in Milli..Minute
                   /\ loaded[k].verifiedAt \in (now - TTL)..(now + Skew)
            /\ \A k, l \in DOMAIN loaded :
                   loaded[k].address = loaded[l].address => k = l

(* What a Save has stored comes back: Load drops of it only what has aged, *)
(* and changes nothing, at the bounds of the latency and with several      *)
(* spellings of an address as well (cache.go:79-130, 177-217).             *)
SavedComesBack ==
    \A list \in Batches, now \in Clock :
        Accepted(list) /\ file.body = Stored(list) =>
            LET saved == Deduplicate(NormalizeAll(list))
            IN  Load(file.body, now) =
                    Subsequence(saved, {k \in DOMAIN saved :
                                            Fresh(saved[k], now)})

(* The place of a Save as its caller sees it. *)
StageAt(place) ==
    IF place \in Ended THEN place
    ELSE IF place = "renamed" THEN "replaced" ELSE "saving"

Register == INSTANCE CacheFile WITH
    Content <- Found,
    body <- file.body,
    stage <- [s \in Saver |-> StageAt(pc[s])],
    document <- contents

(* Save is atomic and tells the truth: the file goes from one whole        *)
(* document to the next, nil means replaced and an error untouched, for    *)
(* launchers that save at once, fail, die or lose power between any two    *)
(* calls (cache.go:135-163).                                               *)
ImplementsRegister == Register!RegisterSpec
=============================================================================
