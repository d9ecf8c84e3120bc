SPECIFICATION Spec
CONSTANTS
  XferBufSize = 2
  FactoryAddr = 1
  FactorySize = 1
  UpgradeSector = 1
  DataSector = 3
  FlashSectors = 5
  ImageLens <- MCImageLens
  MaxTransfers = 2
PROPERTIES OnlySelectedPartition
