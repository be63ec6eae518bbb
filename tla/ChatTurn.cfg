SPECIFICATION FairSpec
CONSTANTS
    c1 = c1
    c2 = c2
    Calls = {c1, c2}
    MaxCount = 2
    MaxEvents = 5
INVARIANTS TerminatorIsEarned MeteredAsServed CountsAgree
PROPERTIES ImplementsStream EveryStreamEnds
