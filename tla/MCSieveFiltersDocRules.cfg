SPECIFICATION Spec
CONSTANTS
    Sids = {s1, s2}
    Names = {colombe, other}
    Default = colombe
    Targets = {x, y}
    Texts = {}
    None = None
    Absent = Absent
    Unknown = Unknown
    MaxCalls = 2
    MaxFaults = 1
PROPERTY SettingsKeepRules
CHECK_DEADLOCK FALSE
