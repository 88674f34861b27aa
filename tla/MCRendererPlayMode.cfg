\* MPD refuses part of the play-mode command list, and the service reports the mode anyway.
SPECIFICATION Spec
CONSTANTS
    t1 = t1
    t2 = t2
    u1 = u1
    u2 = u2
    NoOwner = NoOwner
    NoURI = NoURI
    Threads <- MCThreads
    URIs <- MCURIs
    Requests = {"SetPlayMode"}
    InstanceIDs = {0}
    Modes = {"RANDOM"}
    ConnErrorSites = {}
    MaxRequests = 2
    MaxFaults = 1
    MaxExternal = 0
    MaxConnects = 2
    Volumes = {50}
    VolumeArgs = {150}
    Targets <- MCTargets
    MetaDurations = {}
    Durations <- MCDurations
INVARIANT PlayModeMatchesBackend
