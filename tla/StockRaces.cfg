\* Two requests overlap.
SPECIFICATION Spec
CONSTANTS
    Requests = {r1, r2}
    Locations = {depot, van}
    Slots = {1, 2}
    Openings = {0, 2}
    OpeningCost = 2
    Quantities = {1, 2}
    Prices = {1, 4}
    MaxOrders = 3
INVARIANTS BooksMatch NonNegative ConsumptionsExplained CostWithinPrices
CHECK_DEADLOCK FALSE
