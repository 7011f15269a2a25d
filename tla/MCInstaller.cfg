SPECIFICATION FairSpec
CONSTANTS
    v1 = v1
    v2 = v2
    s1 = s1
    Versions = {v1, v2}
    Secrets = {s1}
    Contents = {"old", "new"}
    SettingsValues <- MCSettingsValues
    MaxChanges = 3
    MaxFaults = 1
INVARIANTS
    TypeOK
    DeploymentsHaveTheirInputs
PROPERTIES
    ImplementsInstallation
    SecretsArePropagated
    UninstallCompletes
CHECK_DEADLOCK FALSE
