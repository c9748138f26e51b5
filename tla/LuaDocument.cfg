\* Texts typed phrase by phrase, parsed and resolved after every phrase.
SPECIFICATION Spec
CONSTANTS
    MaxDepth = 7
    MaxBlockDepth = 4
    MaxErrors = 3
    StaleEnd = 999
    Drafts <- AllDrafts
INVARIANTS TreeSpellsSource OperatorsGroup NamesBind
CHECK_DEADLOCK FALSE
