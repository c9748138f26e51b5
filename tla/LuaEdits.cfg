\* Programs typed phrase by phrase, analysed, and edited by the server.
SPECIFICATION EditsSpec
CONSTANTS
    MaxDepth = 20
    MaxBlockDepth = 20
    MaxErrors = 0
    StaleEnd = 999
    Fuel = 6
    FreshName = "d"
    Drafts <- AllDrafts
INVARIANT NamesAgree
PROPERTIES ConstantsFold DeadStaysDead GuardsHold SymbolsAgree RenameKeepsMeaning FixKeepsMeaning RefactorKeepsMeaning
CHECK_DEADLOCK FALSE
