SPECIFICATION Spec
CONSTANTS
    c1 = c1
    c2 = c2
    e1 = e1
    e2 = e2
    NoEdit = NoEdit
    Clients <- TwoClients
    Edits <- TwoEdits
    MaxQueue = 2
    MaxFaults = 1
SYMMETRY Symmetry
INVARIANTS
    TypeOK
    EditAppliedOnce
PROPERTIES
    SavesKeepOthers
