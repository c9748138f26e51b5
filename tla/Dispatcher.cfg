\* An editor that sends requests, cancellations, replies, settings, folders
\* and broken frames to the message loop.
SPECIFICATION Spec
CONSTANTS
    Ids = {1, 2}
    Folders = {"f", "g"}
    Settings <- Configurations
    Sessions <- Editors
    MaxUnread = 2
INVARIANTS OneAnswer CancelledSince EditorFollowed
PROPERTY RequestsAnswered
CHECK_DEADLOCK FALSE
