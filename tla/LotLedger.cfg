CONSTANTS
    NLots = 2
    NStocks = 2
    Quantities = {1, 2}
    MaxStock = 4
SPECIFICATION Spec
INVARIANTS
    TypeOK
    StockMatchesLots
    LotMatchesBalances
