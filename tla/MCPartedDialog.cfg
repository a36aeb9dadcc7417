\* Dialogs of every kind, on a device that works and on one that may fail.
SPECIFICATION FairSpec
CONSTANTS
    small = small
    large = large
    other = other
    fifty = fifty
    Tables = {small, large, other, fifty}
    NoTable = NoTable
    Crowded = {fifty}
    Minimal <- MCMinimal
    Dialogs = 2
    MaxWork = 2
    IOErrors = {FALSE, TRUE}
INVARIANTS
    NoFault
    OwnDialog
    ClientKnows
    ChangedTells
PROPERTY
    EveryDialogEnds
