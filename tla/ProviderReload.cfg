CONSTANTS
    turn = turn
    job = job
    tick = tick
    ring = ring
    plain = plain
    rich = rich
    odd = odd
    Turns = {turn}
    Jobs = {job}
    Keepers = {tick}
    Loose = {ring}
    Roles = {"autonomy"}
    RoleOf <- MCRoleOf
    Edits = 4
    ContentOf <- MCContentOf
    Unbuildable = {odd}
    OwnProfile = {rich}
    Rejected = Rejected
    None = None
    MaxFaults = 1
SPECIFICATION FairSpec
INVARIANTS
    InUseIsOpen
    OneProviderPerRound
PROPERTIES
    EditApplied
CHECK_DEADLOCK FALSE
