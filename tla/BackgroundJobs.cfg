SPECIFICATION Spec
CONSTANTS
    ann = ann
    bob = bob
    Jobs <- MCJobs
    Users <- MCUsers
    OwnerOf <- MCOwnerOf
    MaxJobs = 2
    MaxPerUser = 1
    Kept = 2
    Shown <- MCShown
    MaxRestarts = 1
INVARIANTS
    ActiveIsWorked
    DoneIsDelivered
PROPERTIES
    EndIsFinal
CHECK_DEADLOCK FALSE
