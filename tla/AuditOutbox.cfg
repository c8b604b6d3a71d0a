SPECIFICATION FairSpec
CONSTANTS
    Threads = {t1, t2}
    Nobody = Nobody
    MaxEvents = 3
    MaxQueued = 2
    MaxLines = 4
    MaxFaults = 2
INVARIANTS TypeOK ChainVerifies DeliveredOnce MarkedIsLogged
PROPERTIES RefinesLog EventuallyLogged
