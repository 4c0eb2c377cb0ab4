CONSTANTS
    MaxInt = 2047
    Second = 4
    FileSecret <- MCFileSecret
    Environments <- MCEnvironments
    CommandLines <- MCCommandLines
SPECIFICATION Spec
INVARIANTS
    LoadedIsUsable
    FlagsWin
    DefaultTTLCovers
