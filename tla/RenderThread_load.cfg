SPECIFICATION FairSpec
CONSTANTS
    Visible = 2
    RenderLine = 3
    LastLine = 4
    Options = {{"load", "toggle"}}
    Prompt = TRUE
PROPERTY NoneNeeded
