\* No destination, one that takes the payload at once, and several; 300 is past
\* the TL0 index 255, which the 301st destination shares with the 45th.
CONSTANTS
    Counts = {0, 1, 2, 3, 40, 300}
    Empty  = Empty
    None   = None
SPECIFICATION Spec
INVARIANTS
    EachItsOwn
    ResultExact
