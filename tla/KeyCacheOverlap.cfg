SPECIFICATION Spec
CONSTANTS
    Clients = {c1}
    Keys = {k1, k2}
    Handlers = {h1, h2}
    NoClient = NoClient
    NoKey = NoKey
SYMMETRY Symmetry
INVARIANTS
    NoOrphanKey
PROPERTIES
    ColumnsAreNotClobbered
    
