SPECIFICATION Spec
CONSTANTS
    c1 = c1
    c2 = c2
    c3 = c3
    None = None
    Scenes <- MCScenes
    Mobi <- MCMobi
    Twins <- MCTwins
    Unskippable <- MCUnskippable
    Post <- MCPost
    PlayLimit = 2
    ReplayLimit = 2
    MaxScenes = 2
    MaxEvents = 2
    Uses <- MashUses
    Prompt = TRUE
INVARIANT StartOpensMenu
