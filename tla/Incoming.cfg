\* One channel, two frames, two address updates and a restart; the device is the
\* one the daemon creates or the device tree's.
CONSTANTS
    Channels = {c1}
    Keys = {"group"}
    Bodies = {"vso", "other"}
    Supported <- MCSupported
    BmcAddr = 64
    Base = 32
    DeviceAddrs = {None, 64}
    NewAddrs = {66, 68}
    NumRetries = 1
    MaxRequests = 2
    MaxUpdates = 2
    MaxDeaths = 1
    None = None
SPECIFICATION FairSpec
INVARIANTS TypeOK NeverDeaf FailedUpdateRepeats WrongRefusalHasCause
PROPERTIES RequestsEnd
