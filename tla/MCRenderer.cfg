\* Two workers serve every kind of request while other MPD clients change
\* the player, with no MPD failures: progress of every request and the
\* agreement of the reported play mode with MPD.
SPECIFICATION Spec
CONSTANTS
    t1 = t1
    t2 = t2
    u1 = u1
    u2 = u2
    NoOwner = NoOwner
    NoURI = NoURI
    Threads <- MCThreads
    URIs <- MCURIs
    Requests = {"Play", "Pause", "Stop", "Next", "Previous", "Seek",
                "SetAVTransportURI", "SetPlayMode", "Subscribe",
                "GetTransportInfo", "GetPositionInfo", "SetMute"}
    InstanceIDs = {0}
    Modes = {"RANDOM", "REPEAT_ONE"}
    ConnErrorSites = {}
    MaxRequests = 2
    MaxFaults = 0
    MaxExternal = 1
    MaxConnects = 1
    Volumes = {50}
    VolumeArgs = {150}
    Targets <- MCTargets
    MetaDurations = {}
    Durations <- MCDurations
INVARIANT TypeOK
INVARIANT PlayModeMatchesBackend
PROPERTY RequestsComplete
