SPECIFICATION RulesSpec
CONSTANTS
    RuleLists <- MCRuleLists
    Vacations <- MCVacations
    Forwards <- MCForwards
    Capabilities <- MCCapabilities
    Messages <- MCMessages
    HandScripts <- MCHandScripts
    Today = 2
    Allowed = {"univ"}
    Login <- MCLogin
    HasTrash = FALSE
    None = None
    P = {p1, p2}
    Q = {q1, q2}
    colombe = colombe
    other = other
    Absent = Absent
    Unknown = Unknown
SYMMETRY Symmetry
INVARIANTS ScriptsSound FiltersSound
PROPERTIES ChangesTold ImportsForetold
CHECK_DEADLOCK FALSE
