SPECIFICATION Spec
CONSTANTS
    g1 = g1  g2 = g2  g3 = g3
    NoGrant = NoGrant
    Ids = {1, 2, 3}
    Strategies = {1, 2}
    Cycles = {3}
    Grants = {g1, g2, g3}
    Grantee <- MCGrantee
    Gross <- MCGross
    Perishable = {g1}
    Manifests <- MCManifests
    Ceiling = 2
    Costs = {1}
    Slots = {o1, o2}
    MaxSequence = 2
SYMMETRY MCSymmetry
INVARIANTS
    TypeOK
    WithinCeiling
    WithinWarrant
    CapitalFollowsFills
    PassLeavesNoHold
    RestedLegIsKept
