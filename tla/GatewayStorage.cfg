CONSTANTS
  Tables <- MCTables
  FlashSizes = {7, 9}
  FactoryPlaces <- MCFactoryPlaces
  OtaPlaces <- MCOtaPlaces
  FactoryAddress = 5
  OtaAddress = 7
  StorageSize = 1
  MaxPartitions = 5
SPECIFICATION StorageSpec
INVARIANTS
  StorageInv
  OwnIsNeverRefused
  StorageIsItsOwn
PROPERTY ForeignIsNeverTouched
