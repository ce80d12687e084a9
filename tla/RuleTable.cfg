\* Stores visible in any order, allocation may fail, drop is read again.  A wild read, or a full
\* table, is the end of a behaviour: no deadlock check.
CONSTANTS
    r1 = r1
    r2 = r2
    icmp = icmp
    cpu0 = cpu0
    cpu1 = cpu1
    Ctx <- TwoContexts
    Text <- Texts
    Admissible <- AdmissibleRules
    MaxRules = 2
    OrderedStores = FALSE
    ReloadDrop = TRUE
    AllocMayFail = TRUE
SPECIFICATION Spec
INVARIANTS
    EmptyTableDeniesAll
PROPERTIES
    AnswersAtomically
CHECK_DEADLOCK FALSE
