SPECIFICATION Spec
CONSTANTS
    Visible = 2
    RenderLine = 3
    LastLine = 4
    Options = {{"savestate", "toggle", "vcount"}}
    Prompt = TRUE
INVARIANT NotWhileSaving
