\* One channel with three numbers and calls enough to go round them; every
\* payload fits a frame.  An answer is late by at most one further call.
\* Callers may stop calling: no deadlock check.
CONSTANTS
    Channels = {0}
    ChannelArgs = {0}
    Addrs = {130, 142}
    BmcAddr = 64
    RemoteAddr = 142
    AddrArgs = {130, 64}
    Kinds = {"devid"}
    KindArgs <- AnyKind
    CCs = {"ok"}
    Bigs = {FALSE}
    NumSeq = 3
    NumTries = 2
    NumI2cTries = 1
    MaxCalls = 4
    MaxClients = 2
    MaxLag = 2
    NoCall = NoCall
    NoRequest = NoRequest
    NoFrame = NoFrame
    NoReply = NoReply
SPECIFICATION Spec
INVARIANT AnswersOwnCall
CHECK_DEADLOCK FALSE
