\* A connection failure inside output_play leaves mpd_mutex locked.
SPECIFICATION Spec
CONSTANTS
    t1 = t1
    t2 = t2
    u1 = u1
    u2 = u2
    NoOwner = NoOwner
    NoURI = NoURI
    Threads <- MCThreads
    URIs <- MCURIs
    Requests = {"Play", "Stop"}
    InstanceIDs = {0}
    Modes = {"RANDOM"}
    ConnErrorSites = {"play", "stop"}
    MaxRequests = 2
    MaxFaults = 1
    MaxExternal = 0
    MaxConnects = 2
    Volumes = {50}
    VolumeArgs = {150}
    Targets <- MCTargets
    MetaDurations = {}
    Durations <- MCDurations
INVARIANT NoLockHeldAfterHandler
