\* Two workers serve every kind of request, with one MPD failure at any call
\* (a connection failure only where the code releases mpd_mutex on it) and
\* bad instance IDs: every error path releases the locks it took.
SPECIFICATION Spec
CONSTANTS
    t1 = t1
    t2 = t2
    u1 = u1
    u2 = u2
    NoOwner = NoOwner
    NoURI = NoURI
    Threads <- MCThreads
    URIs <- MCURIs
    Requests = {"Play", "Pause", "Stop", "Next", "Previous", "Seek",
                "SetAVTransportURI", "SetPlayMode", "Subscribe",
                "GetTransportInfo", "GetMediaInfo", "GetTransportSettings",
                "GetPositionInfo", "GetDeviceCaps", "SetVolume", "SetMute"}
    InstanceIDs = {0, 1}
    Modes = {"RANDOM", "REPEAT_ONE"}
    ConnErrorSites = {"add", "seek", "mode", "status", "volume"}
    MaxRequests = 2
    MaxFaults = 1
    MaxExternal = 1
    MaxConnects = 2
    Volumes = {50}
    VolumeArgs = {150}
    Targets <- MCTargets
    MetaDurations = {}
    Durations <- MCDurations
SYMMETRY ThreadSymmetry
INVARIANT NoLockHeldAfterHandler
