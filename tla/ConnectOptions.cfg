CONSTANTS
    Thread = {a, b}
    Args <- MCArgs
    Used <- MCUsed
    Text = {x, Empty}
    Empty = Empty
    None = None
    Junk = Junk
SYMMETRY ThreadSymmetry
SPECIFICATION Spec
INVARIANTS TypeOK PassesWhatWasSet Restored
