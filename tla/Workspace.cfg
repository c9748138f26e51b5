SPECIFICATION Spec
CONSTANTS
    f1 = f1
    lib = lib
    a = a
    b = b
    Empty = Empty
    Huge = Huge
    Nil = Nil
    Sourceless = Sourceless
    Files <- TwoFiles
    LibFiles = {lib}
    Texts <- AllTexts
    Slicing <- Sliced
    MaxVersion = 3
    FolderChoices <- Scopes
    IgnoreChoices <- Scopes
CONSTRAINT Apart
INVARIANTS
    TypeOK
    OpenTextIndexed
    ShownMatchesIndex
    ClosedFileInSync
PROPERTIES
    OpenTextOnlyFromEditor
    SourcesKept
    DeletedFileForgotten
