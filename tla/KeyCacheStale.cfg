SPECIFICATION Spec
CONSTANTS
    Clients = {c1}
    Keys = {k1}
    Handlers = {h1, h2}
    NoClient = NoClient
    NoKey = NoKey
INVARIANTS
    DisabledStopsAuthenticating
