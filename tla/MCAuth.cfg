\* Copies of four messages of one sender, verified by two threads.
SPECIFICATION AuthSpec
CONSTANTS
    t1 = t1
    t2 = t2
    m1 = m1
    m2 = m2
    m3 = m3
    m4 = m4
    alice = alice
    Threads <- MCThreads
    Messages <- MCMessages
    Senders <- MCSenders
    Sender <- MCSender
    Arrives <- MCArrives
    Modes = {"permissive", "open"}
    Drift <- MCDrift
    Ttl = 1
    Skew = 1
    MaxNonces = 1
    MaxTime = 2
    MaxCopies <- MCCopies
SYMMETRY AuthSymmetry
INVARIANTS
    AuthTypeOK
    AcceptedOnce
    ReplayedNotLost
    BucketBounded
    NonceInv
CHECK_DEADLOCK FALSE
