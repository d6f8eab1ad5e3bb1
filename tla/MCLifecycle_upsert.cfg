\* Two processes of one entity, one after the other or at once; every request of
\* the upsert may fail.  Every process may be gone: no deadlock check.
SPECIFICATION Spec
CONSTANTS
    p1 = p1
    p2 = p2
    a = a
    b = b
    Processes <- MCProcesses
    Fields <- MCFields
    Always <- MCAlways
    OnlyAtFirst <- MCOnlyAtFirst
    Values <- MCValues
    Configs <- MCConfigs
    HasKey <- MCFirst
    Failures <- MCUpsertFailures
    MaxBoots = 3
    MaxStarts = 1
INVARIANTS
    TypeOK
    RecordIsOneConfig
    UpsertInv
PROPERTIES
    UpsertPublishes
CHECK_DEADLOCK FALSE
