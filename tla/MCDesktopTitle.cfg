SPECIFICATION Spec
CONSTANTS
    Width = 4
    Height = 3
    Words = 16
    Bar = 1
    Title = 1
    Inset = 0
    Edge = 1
    Grip = 2
    Client <- MCClient
    Cell = 1
    Text <- MCText
    Buttons = {1}
    Button <- MCButton
    Start <- MCStart
    Terminal = terminal
    Monitor = monitor
    Moves <- MCMoves
    None = None
INVARIANTS
    TitleBarVisible
