CONSTANTS
    Values = {a}
    Null = Null
    Junk = Junk
    Threw = Threw
    Done = Done
    Pointers = FALSE
    Block = 32
    InitSize = 32
    MaxUint = 99
    MaxSize = 70
    AddAtLast = FALSE
SPECIFICATION Spec
INVARIANTS NoJunk
