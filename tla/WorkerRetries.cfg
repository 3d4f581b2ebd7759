SPECIFICATION Spec
CONSTANTS
    d1 = d1
    d2 = d2
    pdf = pdf
    html = html
    w1 = w1
    w2 = w2
    None = None
    Docs = {d1}
    Unparseable = {}
    Groups = {pdf, html}
    Workers = {w1, w2}
    GroupOf <- TwoGroups
    MaxRetries = 3
    MaxRestarts = 0
    MaxFaults = 0
INVARIANTS
    RetriesAreLimited
CHECK_DEADLOCK FALSE
