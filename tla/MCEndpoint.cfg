\* The port of the account service is changed and applied.
SPECIFICATION Spec
CONSTANTS
    Services <- MCServices
    Keys <- MCKeys
    Values = {0, 1}
    Modules <- MCModules
    Launcher = "postplus"
    NoModule = "none"
    Newest = 1
    Build <- MCBuild
    Jobs = {}
    NoJob = 0
    HandEdit <- MCHandEdit
    MaxDisturbances = 1
    UsedBy <- MCUsedBy
    Broken = {}
    Admins = {1}
    Asked = {"changed"}
    Managed = {FALSE}
INVARIANT RunningUsesApplied
