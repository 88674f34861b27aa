\* a player change found by update_mpd_status is never evented.
SPECIFICATION Spec
CONSTANTS
    t1 = t1
    t2 = t2
    u1 = u1
    u2 = u2
    NoOwner = NoOwner
    NoURI = NoURI
    Threads <- MCThreads
    URIs <- MCURIs
    Requests = {"Subscribe", "Next"}
    InstanceIDs = {0}
    Modes = {"RANDOM"}
    ConnErrorSites = {}
    MaxRequests = 2
    MaxFaults = 0
    MaxExternal = 1
    MaxConnects = 1
    Volumes = {50}
    VolumeArgs = {150}
    Targets <- MCTargets
    MetaDurations = {}
    Durations <- MCDurations
INVARIANT EventedStateMatches
