\* Virtual packages and dependency loops: the recursion of di_config_package.
SPECIFICATION Spec
CONSTANTS
    anna = anna
    disk = disk
    late = late
    mode = mode
    net = net
    e100 = e100
    e1000 = e1000
    dhcp = dhcp
    static = static
    ppp = ppp
    loop = loop
    vnet = vnet
    veth = veth
    vloop = vloop
    None = None
    Real <- DepsReal
    Virtual <- DepsVirtual
    Item <- DepsItem
    Depends <- DepsDepends
    Providers <- DepsProviders
    Rank <- DepsRank
    Order <- DepsOrder
    Conditional = {}
    Dull = {}
    Fetches <- DepsFetches
    Changers = {}
    InitFile <- DepsFile
    MaxDepth = 3
INVARIANTS
    TypeOK
    DepsFirst
    VirtualHasProvider
    RecursionBounded
CHECK_DEADLOCK FALSE
