CONSTANTS
    g = g
    a1 = a1
    a2 = a2
    a3 = a3
    b2 = b2
    NoBlock = NoBlock
    Genesis = g
    Block <- MCBlock
    Prev <- MCPrev
    Height <- MCHeight
    Chain <- MCChain
SPECIFICATION Spec
PROPERTIES
    RolledBackHeadIsStored
