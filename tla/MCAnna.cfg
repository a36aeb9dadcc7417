\* Three runs of anna, nested or one after the other, over two generations of the archive.
SPECIFICATION Spec
CONSTANTS
    lib = lib
    item = item
    std = std
    List <- ThreePackages
    Depends <- ThreeDepends
    MenuItems = {item}
    Standard = {std}
    Requests = {std}
    Inside <- ThreeInside
    Since <- ThreeSince
    Nameless <- NoFilename
    Unsummed <- NoSum
    Boots <- BootChoices
    MaxGen = 2
    MaxRuns = 3
\* The last script has run.
CHECK_DEADLOCK FALSE
INVARIANTS TypeOK DoneMeansInstalled NoDeadRetry
PROPERTIES OnlyChecked NoDowngrade
