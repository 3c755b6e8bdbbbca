\* Two uploads of one format to one resource, the first perhaps given up.
CONSTANTS
  RangeLimit = 3
  MaxBlock = 7
  Uploads = 2
  UploadLength <- TwoUploads
  UploadSzx <- TwoOfUnit
  UploadFormat <- TwoAlike
  UploadTarget <- TwoToOne
  MaxPutCopies = 1
  MayGiveUp = TRUE
  NoTransfer = NoTransfer
  Gets = 1
  GetSzx <- OneGet
  PduSzx = 1
  VerLength <- TwoVersions
  MaxToken = 6
  MaxDrops = 1
  MaxCopies <- CopyPlain
  NoOption = NoOption
SPECIFICATION BlockSpec
CHECK_DEADLOCK FALSE
INVARIANT BodyIntact
