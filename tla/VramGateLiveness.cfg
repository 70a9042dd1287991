CONSTANTS
    Requests = {r1, r2}
    Pools = {eagle3}
    NoPool = NoPool
    Sizes = {2, 3}
    Extras = {1}
    Capacities = {3, 4}
    Pad = 0
    Permits = 1
SPECIFICATION FairSpec
PROPERTIES
    EveryRequestAnswered
