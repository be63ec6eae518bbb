SPECIFICATION Spec
CONSTANTS
    m1 = m1
    m2 = m2
    p1 = p1
    a1 = a1
    a2 = a2
    Models = {m1, m2}
    Providers = {p1}
    Admins = {a1, a2}
    Callers <- MCCallers
    AliasOf <- MCAliasOf
    ModelForms <- MCModelForms
    ProviderForms <- MCProviderForms
    LegacyRows <- MCLegacyRows
    SeededRows <- MCSeededRows
    NoModel = NoModel
    NoProvider = NoProvider
    NoRow = NoRow
    Deleted = Deleted
INVARIANTS ListedIsAccepted ReachedIsListed HiddenIsAbsent SwitchedOffIsSilent
PROPERTIES OnlyRacesBreakRows
SYMMETRY AdminSymmetry
CONSTRAINT OneFormWhileAsked
