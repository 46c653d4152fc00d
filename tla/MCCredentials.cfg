SPECIFICATION Spec
CONSTANTS
    Writers = {w1}
    Services = {s1}
    Downloads = {d1}
    NoThread = NoThread
    Names = {"right", "wrong"}
    Account = "right"
    Null = Null
    Junk = Junk
    NoCopy = NoCopy
    MaxSets = 2
INVARIANTS
    NeverLockedOut
    TokenOfTheCall
PROPERTIES
    FieldsAtomic
