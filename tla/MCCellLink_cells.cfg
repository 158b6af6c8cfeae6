CONSTANTS
  RelaySize = 17
  DigestLen = 1
  BufSize = 70
  Pieces = {9, 75}
  Offers <- SomeOffers
  Scripts <- SomeScripts
  ToRelay <- SomeToRelay
  MaxUp = 1
  MaxOut = 45
  MaxNet = 1
SPECIFICATION FairSpec
PROPERTIES ReadsWhatWasSent CellsArrive
CHECK_DEADLOCK FALSE
