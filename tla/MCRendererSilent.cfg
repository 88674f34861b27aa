\* A request whose MPD work failed is answered with success.
SPECIFICATION Spec
CONSTANTS
    t1 = t1
    t2 = t2
    u1 = u1
    u2 = u2
    NoOwner = NoOwner
    NoURI = NoURI
    Threads <- MCThreads
    URIs <- MCURIs
    Requests = {"Play", "SetAVTransportURI", "GetPositionInfo"}
    InstanceIDs = {0}
    Modes = {"RANDOM"}
    ConnErrorSites = {"status"}
    MaxRequests = 2
    MaxFaults = 2
    MaxExternal = 0
    MaxConnects = 2
    Volumes = {50}
    VolumeArgs = {150}
    Targets <- MCTargets
    MetaDurations = {}
    Durations <- MCDurations
INVARIANT NoSilentFailure
