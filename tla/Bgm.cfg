SPECIFICATION MusicSpec
CONSTANTS
    field = field
    battle = battle
    jingle = jingle
    credits = credits
    None = None
    Sequenced <- MCSequenced
    Streamed <- MCStreamed
    Replaced <- MCReplaced
    Delayed <- MCDelayed
    MaxSongs = 2
    MaxEvents = 1
    Courses <- MCCourses
    Prompt = TRUE
INVARIANTS MusicTypeOK Heard
PROPERTIES Settles
