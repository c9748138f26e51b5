\* Constant expressions with comparisons.
SPECIFICATION EditsSpec
CONSTANTS
    MaxDepth = 20
    MaxBlockDepth = 20
    MaxErrors = 0
    StaleEnd = 999
    Fuel = 6
    FreshName = "d"
    Drafts <- ComparisonDrafts
PROPERTY ComparisonsFold
CHECK_DEADLOCK FALSE
