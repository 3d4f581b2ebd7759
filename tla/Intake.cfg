SPECIFICATION Spec
CONSTANTS
    None = None
    Requests = {r1, r2}
    Web = {page}
    Uploads = {file}
    Texts = {note}
    Contents = {c1, c2, huge}
    Refused = {huge}
    Groups = {pdf, html}
SYMMETRY Interchangeable
INVARIANTS
    TypeOK
    PendingHasReason
    StatusIsOutcome
    IndexedIsRegistered
    ConflictIsARace
PROPERTY
    FailureKeepsIndexed
CHECK_DEADLOCK FALSE
