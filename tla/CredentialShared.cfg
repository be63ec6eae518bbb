SPECIFICATION FairSpec
CONSTANTS
    c1 = c1
    c2 = c2
    r1 = r1
    r2 = r2
    codex = codex
    claude = claude
    Creds = {c1, c2}
    Requests = {r1, r2}
    Admins = {}
    Files = {codex, claude}
    CodexFiles = {codex}
    WritableFiles = {codex}
    CliFiles = {}
    NoFile = NoFile
    NoCred = NoCred
    Faults = {}
    MaxIssued = 3
INVARIANTS OneFreshToken GrantSurvives
PROPERTIES EveryWaiterLeaves
