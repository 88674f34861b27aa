\* transport_state and the TransportState string drift apart.
SPECIFICATION Spec
CONSTANTS
    t1 = t1
    t2 = t2
    u1 = u1
    u2 = u2
    NoOwner = NoOwner
    NoURI = NoURI
    Threads <- MCThreads
    URIs <- MCURIs
    Requests = {"Play", "Next"}
    InstanceIDs = {0}
    Modes = {"RANDOM"}
    ConnErrorSites = {}
    MaxRequests = 2
    MaxFaults = 0
    MaxExternal = 1
    MaxConnects = 1
    Volumes = {50}
    VolumeArgs = {150}
    Targets <- MCTargets
    MetaDurations = {}
    Durations <- MCDurations
INVARIANT StateMirror
