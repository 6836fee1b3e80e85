CONSTANTS
    Trainer = {loop, hand}
    Server = {web, script}
    Alert = {a1}
    Accuracy = {1, 2}
    MaxRows = 3
    Torn = Torn
    Default = Default
    None = None
SYMMETRY MCSymmetry
SPECIFICATION OpinionSpec
INVARIANTS OnlyOnePromoted ServesWhatItRead
PROPERTIES NeverRegress OpinionKept
