SPECIFICATION Spec
CONSTANTS
    q1 = q1
    q2 = q2
    q3 = q3
    Questions = {q1, q2, q3}
    Null = Null
    Steps <- ThreeSteps
    MaxInputs = 3
    MaxBacks = 2
INVARIANTS OnlyTwiceFatal ListsAreInputs AnsweredValid BackupGoesBack EndsByWish
