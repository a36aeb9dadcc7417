SPECIFICATION Spec
CONSTANTS
    Procs = {p1, p2}
    Pkgs = {a, b}
    TopOps = {"configure"}
    NestOps = {"configure"}
    MaxArgs = 1
    MaxJobs = 3
    MaxFaults = 0
    None = None
    NoFile = NoFile
SYMMETRY Symmetry
CHECK_DEADLOCK FALSE
INVARIANTS
    NoForeignWrite
