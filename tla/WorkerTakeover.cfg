SPECIFICATION FairSpec
CONSTANTS
    d1 = d1
    d2 = d2
    pdf = pdf
    html = html
    w1 = w1
    w2 = w2
    None = None
    Docs = {d1, d2}
    Unparseable = {d2}
    Groups = {pdf}
    Workers = {w1, w2}
    GroupOf <- OneGroup
    MaxRetries = 2
    MaxRestarts = 0
    MaxFaults = 1
INVARIANTS
    CommittedIsHandled
PROPERTIES
    CommitsMoveForward
    EventuallySettled
CHECK_DEADLOCK FALSE
