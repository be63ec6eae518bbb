SPECIFICATION Spec
CONSTANTS
    c1 = c1
    r1 = r1
    r2 = r2
    a1 = a1
    codex = codex
    Creds = {c1}
    Requests = {r1, r2}
    Admins = {a1}
    Files = {codex}
    CodexFiles = {codex}
    WritableFiles = {codex}
    CliFiles = {codex}
    NoFile = NoFile
    NoCred = NoCred
    Faults = {"crash", "reply", "disk", "database"}
    MaxIssued = 2
SYMMETRY Symmetry
PROPERTIES TokensNeverRegress
