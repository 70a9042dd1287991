CONSTANTS
    Requests = {r1, r2}
    Pools = {eagle3, dflash}
    NoPool = NoPool
    Sizes = {2}
    Extras = {1}
    Capacities = {4, 7}
    Pad = 0
    Permits = 2
SPECIFICATION Spec
INVARIANTS
    ResidentIsAccounted
