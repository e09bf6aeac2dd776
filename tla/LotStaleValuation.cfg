CONSTANTS
    Procs = {c1, c2}
    NLots = 2
    NStocks = 2
    NDocs = 0
    Quantities = {1, 2}
    MaxStock = 2
    Loads <- Valuation
SPECIFICATION Spec
SYMMETRY Connections
INVARIANTS
    WeighsCurrentQuantity
