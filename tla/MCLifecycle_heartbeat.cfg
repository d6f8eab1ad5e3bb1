\* One entity that is started twice, stopped, killed and booted again, with an
\* unreliable registry.  Its process may be gone: no deadlock check.
SPECIFICATION FairSpec
CONSTANTS
    p1 = p1
    p2 = p2
    a = a
    b = b
    Processes <- MCFirst
    Fields <- MCFields
    Always <- MCAlways
    OnlyAtFirst <- MCOnlyAtFirst
    Values <- MCValues
    Configs <- MCTwoConfigs
    HasKey <- MCFirst
    Failures <- MCFailures
    MaxBoots = 2
    MaxStarts = 2
PROPERTIES
    HeartbeatKeepsActive
    StopEndsHeartbeats
CHECK_DEADLOCK FALSE
