\* Four servers, one after the other or overlapping, two of which end by themselves.
SPECIFICATION FairSpec
CONSTANTS
    MaxServers = 4
    MaxDeaths = 2
CHECK_DEADLOCK FALSE
INVARIANTS TypeOK ServerReady NoStrayCommand PidNamesServer
PROPERTIES NeverStuck
