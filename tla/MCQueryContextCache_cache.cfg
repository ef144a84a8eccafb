CONSTANTS
    i1 = i1
    i2 = i2
    i3 = i3
    Ids = {i1, i2, i3}
    Priorities = {0, 1, 2}
    Timestamps = {1, 2}
    Capacity = 2
    MaxEntries = 2
    Mismatch = Mismatch
    Throws = Throws
SPECIFICATION Spec
SYMMETRY IdSymmetry
INVARIANTS
    MapsAgree
    WithinCapacity
PROPERTIES
    NeverOlder
