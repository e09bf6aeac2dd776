CONSTANTS
    Procs = {c1, c2, c3}
    NLots = 2
    NStocks = 2
    NDocs = 1
    Quantities = {1}
    MaxStock = 2
    Loads <- AllPostings
SPECIFICATION Spec
SYMMETRY Connections
INVARIANTS
    TypeOK
PROPERTIES
    CommitsWhatWasAsked
    PostsToTheLedger
