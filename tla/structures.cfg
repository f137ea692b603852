SPECIFICATION OneSpec
CONSTANTS
    NULL = NULL
    Item = {i1, i2, i3}
    Value = {1, 2}
    MaxRefs = 2
    MaxCount = 2
    Base = 8
    MinCapacity = 4
    Initial = {0, 6}
    MaxCapacity = 16
    MaxWrites = 2
    a1 = a1
    a2 = a2
    Address = {a1, a2, a3, a4}
    Document <- MCDocument
    InitialCapacity = 2
    FirstCapacity = 3
    MaxAccounts = 4
SYMMETRY Symmetry
INVARIANT WithinRoom
INVARIANT WithinArray
INVARIANT CountsAgree
INVARIANT NothingLost
PROPERTY OwnedIsSafe
INVARIANT RoundTrip
INVARIANT DefaultLookup
