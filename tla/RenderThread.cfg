SPECIFICATION FairSpec
CONSTANTS
    Visible = 2
    RenderLine = 3
    LastLine = 4
    Options = {{"savestate", "load", "reset", "toggle"},
               {"savestate", "load", "reset", "toggle", "vcount", "wake"}}
    Prompt = TRUE
INVARIANTS TypeOK
PROPERTIES LineRendered Returns
