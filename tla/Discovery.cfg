\* Up to two of twelve directories at first, and two changes while they are
\* looked into.
SPECIFICATION Spec
CONSTANTS
    Name <- MCName
    MaxPresent = 2
    MaxChanges = 2
INVARIANTS
    TypeOK
    FindsNewest
