\* A Seek lands where the target and the track's duration say, or not.
SPECIFICATION Spec
CONSTANTS
    t1 = t1
    t2 = t2
    u1 = u1
    u2 = u2
    NoOwner = NoOwner
    NoURI = NoURI
    Threads <- MCThreads
    URIs <- MCURIs
    Requests = {"Seek", "SetAVTransportURI", "Play"}
    InstanceIDs = {0}
    Modes = {"RANDOM"}
    ConnErrorSites = {}
    MaxRequests = 2
    MaxFaults = 0
    MaxExternal = 1
    MaxConnects = 1
    Volumes = {50}
    VolumeArgs = {150}
    Targets <- MCSeekTargets
    MetaDurations <- MCMetaDurations
    Durations <- MCDurations
INVARIANT SeekLandsOnTarget
