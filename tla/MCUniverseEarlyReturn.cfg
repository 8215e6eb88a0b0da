CONSTANTS
    k1 = k1
    k2 = k2
    Ids = {1, 2}
    LeafKeys <- MCLeafKeys
    Amount <- MCAmount
    PageSize = 1
    DefaultLimit = 2
    Helpers = {"StateEqual"}
SPECIFICATION Spec
INVARIANTS
    VerdictSound
