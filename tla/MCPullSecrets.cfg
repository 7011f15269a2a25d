SPECIFICATION Spec
CONSTANTS
    v1 = v1
    v2 = v2
    s1 = s1
    Versions = {v1, v2}
    Secrets = {s1}
    Contents = {"old", "new"}
    SettingsValues <- MCSettingsValues
    MaxChanges = 1
    MaxFaults = 0
INVARIANTS
    PullSecretsRemoved
CHECK_DEADLOCK FALSE
