\* The range array in any order of blocks, three uploads to one resource,
\* the last of the format of the first, and a GET, observed or not, of a
\* resource that changes.
CONSTANTS
  RangeLimit = 3
  MaxBlock = 7
  Uploads = 3
  UploadLength <- ThreeUploads
  UploadSzx <- OneUnit
  UploadFormat <- ThirdAlike
  UploadTarget <- OneTarget
  MaxPutCopies = 1
  MayGiveUp = TRUE
  NoTransfer = NoTransfer
  Gets = 1
  GetSzx <- OneGet
  PduSzx = 1
  VerLength <- TwoVersions
  MaxToken = 6
  MaxDrops = 1
  MaxCopies <- CopyPlain
  NoOption = NoOption
SPECIFICATION BlockSpec
CHECK_DEADLOCK FALSE
INVARIANTS RangesExact BodyOfOneKind GetIntact
PROPERTIES UploadEnds
