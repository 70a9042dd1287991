CONSTANTS
    Requests = {r1, r2, r3}
    Pools = {eagle3}
    NoPool = NoPool
    Sizes = {2, 3}
    Extras = {1}
    Capacities = {4, 7}
    Pad = 0
    Permits = 2
SYMMETRY Symmetry
SPECIFICATION Spec
INVARIANTS
    LedgerBalances
    NeverOversubscribed
    NoLostWakeup
    ResidentIsAccounted
    LeaseIsExclusive
