CONSTANTS
    asked = asked
    parent = parent
    preview = preview
    Asked = asked
    Parent = parent
    Edits <- MCEdits
    Pictures = {preview}
    PictureOf <- MCPictureOf
    Held = {asked}
    NoPicture = NoPicture
    Live = Live
    None = None
SPECIFICATION Spec
INVARIANTS
    WaitingIsCurrent
PROPERTIES
    PromptIsFresh
CHECK_DEADLOCK FALSE
