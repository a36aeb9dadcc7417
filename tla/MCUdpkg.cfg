\* Every operation, nested ones included, with two kills or failing system calls.
SPECIFICATION Spec
CONSTANTS
    Procs = {p1, p2}
    Pkgs = {a, b}
    TopOps = {"configure", "unpack", "install", "remove"}
    NestOps = {"configure", "unpack"}
    MaxArgs = 2
    MaxJobs = 2
    MaxFaults = 2
    None = None
    NoFile = NoFile
SYMMETRY Symmetry
CHECK_DEADLOCK FALSE
INVARIANTS
    TypeOK
    ConfigureKeepsNewcomers
    NoAncestorLock
    LockedJobsKeepOthers
    RecoverableDatabase

    
