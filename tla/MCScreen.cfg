SPECIFICATION Spec
CONSTANTS
    TTY_ROWS = 2
    TTY_COLS = 3
    TabStop = 2
    PROMPT_LEN = 1
    MAX_CMD = 2
    FieldWidth = 2
    MaxCount = 3
INVARIANTS
    TypeOK
    EachOwnsItsCells
    
