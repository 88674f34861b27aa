\* An MPD call is made on a NULL mpd_conn.
SPECIFICATION Spec
CONSTANTS
    t1 = t1
    t2 = t2
    u1 = u1
    u2 = u2
    NoOwner = NoOwner
    NoURI = NoURI
    Threads <- MCThreads
    URIs <- MCURIs
    Requests = {"Next", "SetAVTransportURI", "Seek", "GetPositionInfo"}
    InstanceIDs = {0}
    Modes = {"RANDOM"}
    ConnErrorSites = {}
    MaxRequests = 2
    MaxFaults = 1
    MaxExternal = 0
    MaxConnects = 1
    Volumes = {50}
    VolumeArgs = {150}
    Targets <- MCTargets
    MetaDurations = {}
    Durations <- MCDurations
INVARIANT MpdConnUsedSafely
