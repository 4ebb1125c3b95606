SPECIFICATION Spec
CONSTANTS
    Height = 3
    MaxMembers = 6
    Former = 99
    Blank = Blank
    MaxChanges = 2
INVARIANTS HoldersExact PathsReadOnce PassesPreflight
CHECK_DEADLOCK FALSE
