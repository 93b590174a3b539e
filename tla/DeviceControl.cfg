CONSTANTS
    d1 = d1
    Devices = {d1}
    Scenes = {s1}
    Reqs = {r1, r2}
    Configs <- MCConfigs
    Drivables = {"generic_http", "homeassistant"}
    Cmds = {"OPEN", "CLOSE"}
    Programs <- MCPrograms
    Domains = {"cover"}
SPECIFICATION MCSpec
SYMMETRY RequestSymmetry
INVARIANTS
    ShownMatchesRow
    AlertsMatchOnline
    RowMatchesDevice
    SceneTriesEveryStep
    WaitsOnlyForToken
PROPERTIES
    WritesStayApart
