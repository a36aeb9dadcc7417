SPECIFICATION FairSpec
CONSTANTS
    Procs = {p1, p2}
    Pkgs = {a}
    TopOps = {"configure", "unpack"}
    NestOps = {"configure", "unpack"}
    MaxArgs = 1
    MaxJobs = 3
    MaxFaults = 0
    None = None
    NoFile = NoFile

CHECK_DEADLOCK FALSE
PROPERTIES
    EveryJobEnds
