SPECIFICATION Spec
CONSTANTS
    d1 = d1
    d2 = d2
    pdf = pdf
    html = html
    w1 = w1
    w2 = w2
    None = None
    Docs = {d1}
    Unparseable = {}
    Groups = {pdf}
    Workers = {w1}
    GroupOf <- OneWorker
    MaxRetries = 2
    MaxRestarts = 1
    MaxFaults = 0
INVARIANTS
    NeverLost
CHECK_DEADLOCK FALSE
