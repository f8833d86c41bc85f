CONSTANTS
  EbdaPlaces = 2
  RomPlaces = 1
  Roots <- MCRoots
  NoRoot <- MCNoRoot
  RootTables <- MCRootTables
  Madts <- MCMadts
SPECIFICATION Spec
INVARIANTS RootIsValid EntriesTranslated TablesFound
PROPERTIES InitEnds
CHECK_DEADLOCK FALSE
