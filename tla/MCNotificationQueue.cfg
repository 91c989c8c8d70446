CONSTANTS
    EventIds = {e1, e2, e3}
    MalformedId = malformed
    Panes = {p1, p2}
    NoPane = NoPane
    Clients = {c1}
    NoClient = NoClient
    Widths = {80}
    QUEUE_CAPACITY = 2
    DEDUP_HISTORY_CAPACITY = 2
    MAX_SEQUENCE = 5

SYMMETRY Symmetry

SPECIFICATION Spec

INVARIANTS
    DedupWindow

PROPERTIES
    EvictionSparesTheUrgent
