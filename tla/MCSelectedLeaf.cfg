SPECIFICATION Spec
CONSTANTS
    Height = 3
    MaxMembers = 6
    Former = 99
    Blank = Blank
    MaxChanges = 1
INVARIANTS SelectedIsReplaced
CHECK_DEADLOCK FALSE
