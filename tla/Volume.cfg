SPECIFICATION VolumeSpec
CONSTANTS
  Live <- MCLive
  Trashed <- MCTrashed
  Names <- MCNames
  Leaf = "@site"
  Volumes <- MCVolumes
  Home <- MCHome
  Uploads <- MCUploads
  MaxBytes = 15
  MaxEntries = 3
  MaxUpload = 11
  Reads <- MCReads
  SniffLen = 3
  DefaultLimit = 6
  MaxLimit = 7
INVARIANTS
  NothingLost MigratedInFull MigratedSiteReads
  StagedWithinCap UploadTakenAsAWhole DownloadRepublishes
  PagesReadTheFile PagesAdvance
PROPERTIES PlacedFilesStay
