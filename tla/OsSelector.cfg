CONSTANTS
  MenuSize = 4
  Indexes = {0, 1, 3}
SPECIFICATION FairSpec
INVARIANTS TypeOK SelectsTarget ResultIsTrue
PROPERTIES SelectionReturns
