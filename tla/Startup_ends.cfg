SPECIFICATION FairSpec
CONSTANTS
    Servers = {"s1", "s2"}
    Configs <- MCConfigs
INVARIANTS TypeOK ServesPrepared
PROPERTY StartDecided
