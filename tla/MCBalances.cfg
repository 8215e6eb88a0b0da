\* Options without WithAllScriptKeyTypes.
CONSTANTS
    a1 = a1
    a2 = a2
    g1 = g1
    s1 = s1
    s2 = s2
    o1 = o1
    o2 = o2
    AssetIds = {a1, a2}
    Groups = {g1}
    GroupOf <- MCGroupOf
    ScriptKeys = {s1, s2}
    KeyTypeOf <- MCKeyTypeOf
    Anchors = {o1, o2}
    Amounts = {0, 1, 2}
    Slots = {1, 2}
    AllTypesOption = FALSE
SPECIFICATION Spec
INVARIANTS
    NoFalseFailure
    NoFalsePass
