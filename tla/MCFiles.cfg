CONSTANTS
  Upload = {u1, u2, u3}
  MaxStoredFiles = 2
  MaxFileSize = 2
  MaxDrawn = 4
SPECIFICATION FilesSpec
SYMMETRY UploadSymmetry
INVARIANTS CapacityIsKept ListedNewestFirst
PROPERTY OnlyDeleteRemoves
