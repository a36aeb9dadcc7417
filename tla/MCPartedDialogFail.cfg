\* The changed flag when writing the device fails.
SPECIFICATION Spec
CONSTANTS
    small = small
    large = large
    other = other
    fifty = fifty
    Tables = {small, large, other, fifty}
    NoTable = NoTable
    Crowded = {fifty}
    Minimal <- MCMinimal
    Dialogs = 2
    MaxWork = 1
    IOErrors = {TRUE}
INVARIANT
    ChangedAlwaysTells
