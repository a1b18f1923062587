SPECIFICATION FairSpec
CONSTANTS
    Visible = 2
    RenderLine = 3
    LastLine = 4
    Options = {{"savestate", "toggle"}}
    Prompt = FALSE
PROPERTY Returns
CHECK_DEADLOCK FALSE
