SPECIFICATION Spec
CONSTANTS
    Services <- MCServices
    Keys <- MCKeys
    Values = {0, 1}
    Modules <- MCModules
    Launcher = "postplus"
    NoModule = "none"
    Newest = 3
    Build <- MCBuild
    Jobs = {1}
    NoJob = 0
    HandEdit <- MCHandEdit
    MaxDisturbances = 2
    UsedBy <- MCUsedBy
    Broken = {3}
    ann = ann
    bob = bob
    Admins <- MCAdmins
    Asked = {"changed", "all"}
    Managed = {TRUE, FALSE}
INVARIANTS OneMaintenanceJob LauncherCanStart ServedByOneRelease RunningUsesApplied
PROPERTIES DownloadReadsOneConfig HandEditsSurviveRollback
SYMMETRY Alike
VIEW Seen
