CONSTANT MaxNode = 9
SPECIFICATION RBSpec
INVARIANTS
    WalksAgree
    RedBlack
PROPERTIES
    Climbs
    ImplementsSet
