SPECIFICATION FairSpec
CONSTANTS
    Clients = {c1, c2}
    Keys = {k1, k2}
    Handlers = {h1}
    NoClient = NoClient
    NoKey = NoKey
PROPERTIES
    ImplementsGate
    ChangeTakesEffect
