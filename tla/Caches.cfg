SPECIFICATION Spec
CONSTANTS
    Threads = {w1, w2}
    FixedKeys = {list}
    Variants = {filtered}
    Threshold = threshold
    Limits = limits
    Index = index
    None = None
    MaxWrites = 3
INVARIANTS  PinsHold
PROPERTIES StaleAnswersEnd
