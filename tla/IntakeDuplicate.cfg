SPECIFICATION Spec
CONSTANTS
    None = None
    Requests = {r1, r2}
    Web = {page}
    Uploads = {}
    Texts = {}
    Contents = {c1}
    Refused = {}
    Groups = {pdf}
INVARIANT
    DuplicateMeansIndexed
CHECK_DEADLOCK FALSE
