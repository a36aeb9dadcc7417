SPECIFICATION Spec
CONSTANTS
    MaxTries = 1
    Timeout = 3
    Timeout6 = 1
    Networks <- StatefulNetworks
    Machines = {1}
    HasWpa = TRUE
INVARIANT StatefulStaysRunning
