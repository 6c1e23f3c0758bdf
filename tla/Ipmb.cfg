\* Two channels with two numbers each, oversize payloads, a channel number that
\* does not exist, retries and restarts of the daemon.  Callers may stop calling:
\* no deadlock check.
CONSTANTS
    Channels = {0, 4}
    ChannelArgs = {0, 4, 8}
    Addrs = {130, 142}
    BmcAddr = 64
    RemoteAddr = 142
    AddrArgs = {130}
    Kinds = {"devid", "reading"}
    KindArgs <- Alternating
    Bigs = {TRUE, FALSE}
    CCs = {"ok"}
    NumSeq = 2
    NumTries = 2
    NumI2cTries = 2
    MaxCalls = 3
    MaxClients = 2
    MaxLag = 2
    NoCall = NoCall
    NoRequest = NoRequest
    NoFrame = NoFrame
    NoReply = NoReply
SPECIFICATION FairSpec
INVARIANTS TypeOK LiveOwnsSlot SlotsAccounted ResponseFits
PROPERTIES BusyOnlyWhenFull EveryCallReturns RpcSpec
CHECK_DEADLOCK FALSE
