CONSTANTS
    EventIds = {"e1", "e2", "e3"}
    MalformedId = malformed
    Panes = {"p1", "p2"}
    NoPane = NoPane
    Clients = {"c1"}
    NoClient = NoClient
    Widths = {80}
    QUEUE_CAPACITY = 2
    DEDUP_HISTORY_CAPACITY = 2
    MAX_SEQUENCE = 8
    LIST_PAGE_SIZE = 1
    Budgets <- Scenarios

SPECIFICATION FairSpec

INVARIANTS
    ExitedPanesDrain
    RowTellsTheQueue
    ListIsTrue

PROPERTIES
    KeepsPromise
    NothingHangs
