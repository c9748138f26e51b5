\* All the safe fixes of files with calls among the values they remove.
SPECIFICATION EditsSpec
CONSTANTS
    MaxDepth = 20
    MaxBlockDepth = 20
    MaxErrors = 0
    StaleEnd = 999
    Fuel = 6
    FreshName = "d"
    Drafts <- CallDrafts
PROPERTY SafeFixesAreSafe
CHECK_DEADLOCK FALSE
