CONSTANTS
  Bits <- McBits
  Scenarios <- McScenarios
  TmpSlots = 2
SPECIFICATION DataSpec
PROPERTIES
  
  BitArraysKeepTheirBits
  CollectionsKeepTheirElements
  MapsChangeAtTheirKey
  OnlyReachedCellsChange
  FaultsLoseAtMostOneElement
CHECK_DEADLOCK FALSE
