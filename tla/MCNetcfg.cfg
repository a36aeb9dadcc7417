SPECIFICATION FairSpec
CONSTANTS
    MaxTries = 2
    Timeout = 3
    Timeout6 = 1
    Networks <- MixedNetworks
    Machines = {0, 1}
    HasWpa = TRUE
INVARIANTS LeaseIsOurs ExitNoticed NoClientLeft
PROPERTIES AutoconfigEnds ManualIsWritten
