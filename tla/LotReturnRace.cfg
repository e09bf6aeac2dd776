CONSTANTS
    Procs = {c1, c2}
    NLots = 1
    NStocks = 2
    NDocs = 1
    Quantities = {1, 2}
    MaxStock = 2
    Loads <- ReturnRace
SPECIFICATION Spec
SYMMETRY Connections
INVARIANTS
    LotMatchesBalances
