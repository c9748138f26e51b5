\* Two calls at a time over three files, one of them ignored, one write.  The process may
\* stop: when it fails to start, or when a leaked lock blocks every call.
SPECIFICATION Spec
CONSTANTS
    c1 = c1  c2 = c2
    f1 = f1  f2 = f2  f3 = f3
    None = None
    Calls = {c1, c2}
    Main = c1
    Files <- ThreeFiles
    Texts <- TextsOf
    Unlisted = {f3}
    Oversized = {"large"}
    FirstDisks <- StartDisks
    ToolsOf <- ToolsOfCalls
    MaxWrites = 1
CHECK_DEADLOCK FALSE
INVARIANTS
    McpTypeOK ReadsAreWhole RevisionIsIndexed
PROPERTIES
    CallsReturn
