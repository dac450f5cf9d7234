\* Two launchers of one user, two documents that can be saved, four files
\* that may be there before, times that give every age from -4 to 5.
SPECIFICATION Spec
CONSTANTS
    Saver = {s1, s2}
    Address = {1, 2, 3, 4}
    Canonical <- MCCanonical
    Milli = 4
    Minute = 20
    Half = 32
    TTL = 2
    Skew = 1
    MaxEntries = 3
    Batches <- MCBatches
    Found <- MCFound
    Clock = {1, 2, 4, 6}
INVARIANTS
    TypeOK
    LoadIsSafe
    SavedComesBack
PROPERTIES
    ImplementsRegister
