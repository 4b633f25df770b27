CONSTANTS
    SeqNrs = 2
    KeyNames = 2
    MaxExchanges = 1
    MaxQueue = 2
SPECIFICATION SessionSpec
INVARIANTS
    AlwaysWatched
    KeysAgree
    KeepAliveKeepsOut
PROPERTIES
    ContractSpec
    ServerIsUnderstood
    SilenceIsNoticed
    ExchangeEnds
