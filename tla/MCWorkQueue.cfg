\* Four slots, indices modulo eight, a timer and a key item.
SPECIFICATION FairSpec
CONSTANTS
    Items = {"timer", "key"}
    Kind <- KeyOrTimer
    Size = 4
    Wrap = 8
    None = None

INVARIANTS
PROPERTIES
    FifoSpec
    Dispatched
