CONSTANTS
    Values = {a, b, c}
    Null = Null
    Junk = Junk
    Threw = Threw
    Done = Done
    Pointers = TRUE
    Block = 2
    InitSize = 2
    MaxUint = 99
    MaxSize = 6
    AddAtLast = FALSE
SPECIFICATION LibrarySpec
INVARIANTS StringsRight CodecsRight DocumentsRight ArithmeticRight Fits GivesBack
PROPERTIES LoopsEnd ImplementsList
\* a text that is read and a bound on the calls end a behaviour
CHECK_DEADLOCK FALSE
