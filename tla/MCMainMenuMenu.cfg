\* Three ordinary items and the priority changer: the menu and the priority.
SPECIFICATION FairSpec
CONSTANTS
    anna = anna
    disk = disk
    late = late
    mode = mode
    net = net
    e100 = e100
    e1000 = e1000
    dhcp = dhcp
    static = static
    ppp = ppp
    loop = loop
    vnet = vnet
    veth = veth
    vloop = vloop
    None = None
    Real <- MenuReal
    Virtual = {}
    Item <- MenuItem
    Depends <- MenuDepends
    Providers <- MenuProviders
    Rank <- MenuRank
    Order <- MenuOrder
    Conditional = {disk}
    Dull = {mode}
    Fetches <- MenuFetches
    Changers = {mode}
    InitFile <- MenuFile
    MaxDepth = 1
INVARIANTS
    HiddenMeansDefault
    PriorityInStep
PROPERTIES
    MenuWhenAsked
    NoSilentLoop
CHECK_DEADLOCK FALSE
